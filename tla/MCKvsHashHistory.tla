-------------------------- MODULE MCKvsHashHistory --------------------------
(* KvsHashHistory on the smallest table in which an expansion loses a key. *)
EXTENDS KvsHashHistory

MCHash == [k \in Key |-> k]
=============================================================================
