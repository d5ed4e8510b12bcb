------------------------------ MODULE KvsQueue ------------------------------
(***************************************************************************)
(* What the min-heap of kvs_minheap4.h is to its users: a bag of items     *)
(* from which the least is taken.  Items that compare equal are not told   *)
(* apart.  An item that cannot be added leaves the bag as it was.          *)
(*                                                                         *)
(* The promise ends with the first call that damages the array (`sound`),  *)
(* which takes a call that changes its size (`resized`).                   *)
(***************************************************************************)
EXTENDS Integers

CONSTANTS Prio   \* the items, as the numbers that cmp compares

VARIABLES items, \* how many there are of each
          sound, resized,
          res    \* the last call and what it gave back

Result(op, rv, item) == [op |-> op, rv |-> rv, item |-> item]
NoItem == 0

Empty == [x \in Prio |-> 0]
Least(x) == items[x] > 0 /\ \A y \in Prio : items[y] > 0 => x <= y

Init == items = Empty /\ sound = TRUE /\ resized = FALSE /\ res = Result("none", 0, NoItem)

Add(x) == /\ items' = [items EXCEPT ![x] = @ + 1]
          /\ res' = Result("add", 0, x)

AddFails(x) == items' = items /\ res' = Result("add", -1, x)

Del(x) == /\ Least(x)
          /\ items' = [items EXCEPT ![x] = @ - 1]
          /\ res' = Result("del", 0, x)

DelEmpty == items = Empty /\ items' = Empty /\ res' = Result("del", -1, NoItem)

Free == items' = Empty /\ res' = Result("free", 0, NoItem)

\* Nothing is promised from here on.
Break == resized' /\ sound' = FALSE /\ items' = Empty /\ res' = Result("none", 0, NoItem)

Next == /\ sound
        /\ \/ /\ \/ \E x \in Prio : Add(x) \/ AddFails(x) \/ Del(x)
                 \/ DelEmpty \/ Free
              /\ UNCHANGED sound
           \/ Break

Spec == Init /\ [][Next]_<<items, sound, resized, res>>
==============================================================================
