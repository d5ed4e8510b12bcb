---------------------------- MODULE MCKvsEvSize ----------------------------
(***************************************************************************)
(* KvsEvSize with sizes around the number of descriptors, one for which    *)
(* that many bytes hold two events, and an fd_set of three bytes, so that  *)
(* one of the descriptors is behind its end.                               *)
(***************************************************************************)
EXTENDS KvsEvSize
=============================================================================
