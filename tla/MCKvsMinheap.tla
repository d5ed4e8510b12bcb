---------------------------- MODULE MCKvsMinheap ----------------------------
(* A heap with the size the code gives it and a few priorities. *)
EXTENDS KvsMinheap

MCPrio == 1..3
=============================================================================
