------------------------------ MODULE MCKvsObj ------------------------------
(***************************************************************************)
(* KvsObj with two clients that share two keys.  Clients, keys and objects *)
(* are alike.                                                              *)
(***************************************************************************)
EXTENDS KvsObj, TLC

Symmetry == Permutations(Client) \cup Permutations(Key) \cup Permutations(Obj)
=============================================================================
