------------------------------- MODULE MCKvsEv -------------------------------
(***************************************************************************)
(* KvsEv with a few descriptors.                                           *)
(***************************************************************************)
EXTENDS KvsEv

ZeroOrWild == {0, Wild}
==============================================================================
