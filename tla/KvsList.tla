------------------------------ MODULE KvsList ------------------------------
(***************************************************************************)
(* The circular doubly linked list of kvs_list.c, one caller that changes  *)
(* it, and the loops of kvs_list.h over it.  The body of a loop may change *)
(* the list: kvs_list_tst.c deletes and frees the node it is at.           *)
(*                                                                         *)
(* kvs_list_del neither frees the node nor clears its pointers.  Reading   *)
(* or writing a freed node ends the behaviour with `ok` FALSE.  A failing  *)
(* malloc leaves the list as it was; the count len is 0 for ever.  Nothing *)
(* is said of what follows when a node is deleted that is not in the list. *)
(***************************************************************************)
EXTENDS Naturals, Sequences, SequencesExt, FiniteSets

CONSTANTS Node, Anchor, \* the memory nodes are made in, and &list->head
          Null,      \* the pointers of memory that is not allocated
          MaxVisits  \* bound: no node is added when a loop has been at that many

ASSUME ListAssumption == /\ Anchor \notin Node /\ Null \notin Node \cup {Anchor}
                         /\ MaxVisits \in Nat

Cell == Node \cup {Anchor}

VARIABLES
  next, prev,    \* the pointers
  alive,         \* the nodes that are allocated
  members,       \* history: the nodes added and not deleted
  loop,          \* "none", "each" (kvs_list_for_each), "safe" (kvs_list_for_each_safe)
  cur, ahead,    \* the variables of the loop: node, or p and q
  began, visited, \* history: the list when the loop began, and the nodes it was at
  tame,          \* history: the body changed only what it may, see Spared
  twice,         \* history: a node was deleted that was not in the list
  ok

vars == <<next, prev, alive, members, loop, cur, ahead, began, visited, tame, twice, ok>>
links == <<next, prev, alive, members, twice>>
cursor == <<loop, cur, ahead, began, visited>>

Usable(c) == c = Anchor \/ c \in alive

\* Where the pointers nx lead from the anchor, step by step.
Reached(nx) == LET at[k \in 0..Cardinality(Node) + 1] == IF k = 0 THEN Anchor ELSE nx[at[k - 1]]
               IN at

\* The nodes up to the first return.  Pointers that lead elsewhere are no list.
Along(nx) == LET size == CHOOSE k \in 0..Cardinality(Node) :
                           /\ Reached(nx)[k + 1] = Anchor
                           /\ \A m \in 1..k : Reached(nx)[m] # Anchor
             IN [k \in 1..size |-> Reached(nx)[k]]

Walk == Along(next)

\* kvs_list_init.
Init == /\ next = [c \in Cell |-> IF c = Anchor THEN Anchor ELSE Null]
        /\ prev = next
        /\ alive = {} /\ members = {}
        /\ loop = "none" /\ cur = Anchor /\ ahead = Anchor /\ began = <<>> /\ visited = <<>>
        /\ tame = TRUE /\ twice = FALSE /\ ok = TRUE

-----------------------------------------------------------------------------
(* kvs_list_add, kvs_list_add_tail and kvs_list_del *)

\* kvs_list_add_core.
Between(p, n, q) == /\ next' = [next EXCEPT ![p] = n, ![n] = q]
                    /\ prev' = [prev EXCEPT ![n] = p, ![q] = n]

\* kvs_list_node_new, and the node between p and q.
Insert(p, n, q) ==
  /\ n \notin alive /\ Len(visited) < MaxVisits
  /\ ok' = (Usable(p) /\ Usable(q))
  /\ Between(p, n, q)
  /\ alive' = alive \cup {n} /\ members' = members \cup {n}
  /\ UNCHANGED <<cursor, tame, twice>>

Add(n) == Insert(Anchor, n, next[Anchor])

\* Mutant of TailNode: the tail is behind the first node.
TailOfTwo == next[Anchor]

TailNode == prev[Anchor]

AddTail(n) == Insert(TailNode, n, Anchor)

\* kvs_list_del_core.
Unlinked(p, q) == next' = [next EXCEPT ![p] = q] /\ prev' = [prev EXCEPT ![q] = p]

\* What the body of a loop may take out of the list, and free: where it is.
Spared(n) == loop = "none" \/ n = cur

\* The pointers of the node itself stay.
Del(n) ==
  /\ n \in alive
  /\ ok' = (Usable(prev[n]) /\ Usable(next[n]))
  /\ Unlinked(prev[n], next[n])
  /\ members' = members \ {n}
  /\ tame' = (tame /\ Spared(n))
  /\ twice' = (twice \/ n \notin members)
  /\ UNCHANGED <<alive, cursor>>

\* What the caller may free: nodes that it has deleted.
Deleted == alive \ members

\* The caller's free.
Free(n) ==
  /\ n \in Deleted
  /\ alive' = alive \ {n}
  /\ next' = [next EXCEPT ![n] = Null] /\ prev' = [prev EXCEPT ![n] = Null]
  /\ tame' = (tame /\ (loop = "each" => n # cur))
  /\ UNCHANGED <<members, cursor, twice, ok>>

-----------------------------------------------------------------------------
(* The loops *)

Entered(c) == IF c = Anchor THEN <<>> ELSE <<c>>

Begin(kind) ==
  /\ loop = "none"
  /\ loop' = kind
  /\ cur' = next[Anchor]
  /\ ahead' = IF kind = "safe" THEN next[cur'] ELSE Anchor
  /\ began' = Walk /\ visited' = Entered(cur')
  /\ tame' = TRUE
  /\ ok' = Usable(cur')
  /\ UNCHANGED links

\* kvs_list_for_each: node = node->next.
NextEach ==
  /\ loop = "each" /\ cur # Anchor
  /\ ok' = Usable(cur)
  /\ cur' = next[cur]
  /\ visited' = visited \o Entered(cur')
  /\ UNCHANGED <<links, loop, ahead, began, tame>>

\* Mutant of Following: the node ahead is found when the body has been run.
FollowingLate == next[cur]

\* The node the loop goes to was found before the body was run.
Following == ahead

\* kvs_list_for_each_safe: p = q, q = p->next.
NextSafe ==
  /\ loop = "safe" /\ cur # Anchor
  /\ cur' = Following
  /\ ok' = Usable(cur')
  /\ ahead' = IF Usable(cur') THEN next[cur'] ELSE Null
  /\ visited' = visited \o Entered(cur')
  /\ UNCHANGED <<links, loop, began, tame>>

Leave == /\ loop # "none" /\ cur = Anchor
         /\ loop' = "none" /\ ahead' = Anchor /\ began' = <<>> /\ visited' = <<>> /\ tame' = TRUE
         /\ UNCHANGED <<links, cur, ok>>

Next == /\ ok /\ ~twice
        /\ \/ \E n \in Node : Add(n) \/ AddTail(n) \/ Del(n) \/ Free(n)
           \/ \E kind \in {"each", "safe"} : Begin(kind)
           \/ NextEach \/ NextSafe \/ Leave

Spec == Init /\ [][Next]_vars

-----------------------------------------------------------------------------
(* Properties *)

TypeOK ==
  /\ next \in [Cell -> Cell \cup {Null}] /\ prev \in [Cell -> Cell \cup {Null}]
  /\ alive \subseteq Node /\ members \subseteq alive
  /\ loop \in {"none", "each", "safe"}
  /\ cur \in Cell \cup {Null} /\ ahead \in Cell \cup {Null}
  /\ tame \in BOOLEAN /\ twice \in BOOLEAN /\ ok \in BOOLEAN

\* The two directions agree, on the nodes of the list and no others, until a node
\* is deleted that was not in it (kvs_list.c:21-34).
Linked ==
  ~twice => \A c \in members \cup {Anchor} :
              /\ next[c] \in members \cup {Anchor} /\ prev[next[c]] = c
              /\ prev[c] \in members \cup {Anchor} /\ next[prev[c]] = c

\* No freed node is touched while no node is deleted twice, and the body of a loop
\* takes out the node it is at only, and frees it only in the safe loop
\* (kvs_list.h:38-42, kvs_list_tst.c:63-66).
TouchesTheLiving == tame /\ ~twice => ok

\* Such a loop is at every node that was in the list, in order, whatever its body
\* takes out or adds; what is added at the end may be missed.
VisitsAll ==
  tame /\ ~twice /\ ok /\ loop # "none" /\ cur = Anchor => IsPrefix(began, visited)

\* The pointers are a sequence of nodes until a node is deleted that is not in it.
Sound == ok /\ ~twice
Sequence == INSTANCE KvsSequence WITH list <- IF Sound THEN Walk ELSE <<>>, sound <- Sound
ImplementsSequence == Sequence!Spec
=============================================================================
