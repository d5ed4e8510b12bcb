----------------------------- MODULE MCKvsHash ------------------------------
(***************************************************************************)
(* KvsHash on small tables.  Keys are numbers and hash to themselves, so   *)
(* keys that differ by a multiple of a table's size share a chain.         *)
(***************************************************************************)
EXTENDS KvsHash

MCHash == [k \in Key |-> k]
=============================================================================
