---------------------------- MODULE KvsSequence ----------------------------
(***************************************************************************)
(* What the list of kvs_list.h is to its users: a sequence of nodes that   *)
(* grows at either end and from which any node can be taken out.           *)
(*                                                                         *)
(* The promise ends when a node is taken out that is not in the list       *)
(* (`sound`).                                                              *)
(***************************************************************************)
EXTENDS Sequences, SequencesExt

CONSTANTS Node

VARIABLES list, sound

Init == list = <<>> /\ sound = TRUE

AddFirst(n) == n \notin ToSet(list) /\ list' = <<n>> \o list

AddLast(n) == n \notin ToSet(list) /\ list' = Append(list, n)

TakeOut(n) == \E i \in DOMAIN list : list[i] = n /\ list' = RemoveAt(list, i)

\* Nothing is promised from here on.
Break == sound' = FALSE /\ list' = <<>>

Next == /\ sound
        /\ \/ /\ \E n \in Node : AddFirst(n) \/ AddLast(n) \/ TakeOut(n)
              /\ UNCHANGED sound
           \/ Break

Spec == Init /\ [][Next]_<<list, sound>>
=============================================================================
