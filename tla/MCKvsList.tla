----------------------------- MODULE MCKvsList -----------------------------
(***************************************************************************)
(* KvsList with three nodes: the first, the last and one between, or a     *)
(* deleted one beside two others.                                          *)
(***************************************************************************)
EXTENDS KvsList

CONSTANTS n1, n2, n3
=============================================================================
