---------------------------- MODULE KvsListProofs ----------------------------
(***************************************************************************)
(* The two directions of the list agree, loops over it touch no freed node *)
(* and visit all they have to, and the list is a sequence, for any set of  *)
(* nodes (a finite one where a loop has to come to an end).                *)
(*                                                                         *)
(* That the pointers agree does not exclude a circle of nodes beside the   *)
(* list, in which taking out a node could leave a loop behind; what does   *)
(* is a number for every node that grows along next.                       *)
(***************************************************************************)
EXTENDS KvsList, SequenceTheorems, FiniteSetTheorems, WellFoundedInduction, TLAPS

InList == members \cup {Anchor}

Filled == \A c \in alive \cup {Anchor} : next[c] \in Cell /\ prev[c] \in Cell

Rising(rank) == \A c \in members : next[c] # Anchor => rank[c] < rank[next[c]]
Ordered == ~twice => \E rank \in [Node -> Int] : Rising(rank)

\* Where the loops are: at a node of the list, or at one whose successor is.
AtEach == Usable(cur) /\ (cur \in InList \/ next[cur] \in InList)
AtSafe == cur = Anchor \/ (ahead \in InList /\ ahead # cur)
Placed == ok /\ ~twice /\ tame => /\ loop = "each" => AtEach
                                  /\ loop = "safe" => AtSafe

IInv == /\ TypeOK /\ Filled /\ Linked /\ Ordered
        /\ ok => cur \in Cell
        /\ Placed
        /\ TouchesTheLiving

\* A node of the list is not its own successor.
LEMMA NextIsAnother ==
  ASSUME TypeOK, Ordered, ~twice, NEW c \in members
  PROVE  next[c] # c
<1>1. PICK rank \in [Node -> Int] : Rising(rank)
  BY DEF Ordered
<1>2. c \in Node /\ c # Anchor /\ rank[c] \in Int
  BY ListAssumption DEF TypeOK
<1> QED BY <1>1, <1>2 DEF Rising

\* The node of an insertion lies between two cells of the list, and nowhere else.
LEMMA InsertKeepsLinks ==
  ASSUME TypeOK, Linked, ~twice, NEW n \in Node, n \notin alive,
         NEW p \in InList, Insert(p, n, next[p])
  PROVE  Linked'
<1> DEFINE q == next[p]
<1> USE DEF Linked, InList
<1>1. q \in InList /\ prev[q] = p
  OBVIOUS
<1>2. n \notin InList /\ p \in Cell /\ q \in Cell
  BY <1>1, ListAssumption DEF TypeOK, Cell
<1>3. /\ next' = [next EXCEPT ![p] = n, ![n] = q]
      /\ prev' = [prev EXCEPT ![n] = p, ![q] = n]
      /\ members' = members \cup {n}
  BY DEF Insert, Between
<1>4. /\ next'[n] = q /\ next'[p] = n /\ prev'[n] = p /\ prev'[q] = n
      /\ \A c \in InList : c # p => next'[c] = next[c]
      /\ \A c \in InList : c # q => prev'[c] = prev[c]
  BY <1>2, <1>3 DEF TypeOK, Cell
<1>5. \A c \in InList : (c # p => next[c] # q) /\ (c # q => prev[c] # p)
  BY <1>1
<1> QED
  <2> SUFFICES ASSUME NEW c \in InList \cup {n}
               PROVE  /\ next'[c] \in InList \cup {n} /\ prev'[next'[c]] = c
                      /\ prev'[c] \in InList \cup {n} /\ next'[prev'[c]] = c
    BY <1>3
  <2>1. CASE c = n
    BY <1>1, <1>4, <2>1
  <2>2. ASSUME c \in InList PROVE next'[c] \in InList \cup {n} /\ prev'[next'[c]] = c
    <3>1. CASE c = p
      BY <1>4, <3>1
    <3>2. CASE c # p
      BY <1>4, <1>5, <2>2, <3>2
    <3> QED BY <3>1, <3>2
  <2>3. ASSUME c \in InList PROVE prev'[c] \in InList \cup {n} /\ next'[prev'[c]] = c
    <3>1. CASE c = q
      BY <1>1, <1>4, <3>1
    <3>2. CASE c # q
      BY <1>4, <1>5, <2>3, <3>2
    <3> QED BY <3>1, <3>2
  <2> QED BY <2>1, <2>2, <2>3

LEMMA InitIsGood == Init => IInv
<1> SUFFICES ASSUME Init PROVE IInv
  OBVIOUS
<1>1. /\ next = [c \in Cell |-> IF c = Anchor THEN Anchor ELSE Null]
      /\ prev = next /\ members = {} /\ alive = {}
  BY DEF Init
<1>2. TypeOK /\ Filled /\ Linked
  BY <1>1 DEF Init, TypeOK, Filled, Linked, Cell
<1>3. Ordered
  <2>1. [n \in Node |-> 0] \in [Node -> Int]
    OBVIOUS
  <2> QED BY <1>1, <2>1 DEF Ordered, Rising
<1> QED BY <1>2, <1>3 DEF Init, IInv, Placed, TouchesTheLiving, Cell

\* An insertion behind a cell of the list; what follows that cell is another one.
\* At the front the new node gets a lesser rank than all others, at the end a
\* greater one.
LEMMA InsertStep ==
  ASSUME IInv, ok, ~twice, NEW n \in Node, NEW p \in InList, Insert(p, n, next[p]),
         p = Anchor \/ next[p] = Anchor
  PROVE  IInv'
<1> DEFINE q == next[p]
<1> USE DEF Insert, Between, cursor
<1>1. /\ q \in InList /\ n \notin alive /\ n \notin InList
      /\ p \in Cell /\ q \in Cell /\ n \in Cell
      /\ members \subseteq alive /\ n # Anchor /\ Anchor \notin members
  BY ListAssumption DEF IInv, TypeOK, Linked, InList, Cell
<1>2. TypeOK'
  BY <1>1 DEF IInv, TypeOK
<1>3. Filled'
  <2>1. /\ \A c \in Cell : next'[c] \in {n, q, next[c]} /\ prev'[c] \in {n, p, prev[c]}
        /\ next'[n] = q /\ prev'[n] = p
    BY <1>1 DEF IInv, TypeOK
  <2>2. alive \cup {Anchor} \subseteq Cell
    BY DEF IInv, TypeOK, Cell
  <2>3. \A c \in alive \cup {Anchor} : next[c] \in Cell /\ prev[c] \in Cell
    BY DEF IInv, Filled
  <2>4. alive' = alive \cup {n}
    OBVIOUS
  <2> HIDE DEF q, Insert, Between
  <2> QED BY <1>1, <2>1, <2>2, <2>3, <2>4 DEF Filled
<1>4. Linked'
  BY <1>1, InsertKeepsLinks DEF IInv
<1>5. Ordered'
  <2>1. PICK rank \in [Node -> Int] : Rising(rank)
    BY DEF IInv, Ordered
  <2> DEFINE r == IF q # Anchor THEN rank[q] - 1 ELSE IF p # Anchor THEN rank[p] + 1 ELSE 0
             new == [rank EXCEPT ![n] = r]
  <2>2. /\ q # Anchor => q \in Node /\ rank[q] \in Int
        /\ p # Anchor => p \in Node /\ rank[p] \in Int
    BY <1>1 DEF Cell
  <2>3. r \in Int /\ new \in [Node -> Int] /\ new[n] = r
    BY <2>2
  <2>4. \A c \in InList \ {Anchor} : new[c] = rank[c]
    <3>1. InList \ {Anchor} \subseteq Node /\ n \notin InList
      BY <1>1 DEF InList, IInv, TypeOK
    <3> HIDE DEF Insert, Between, r
    <3> QED BY <2>3, <3>1
  <2>5. next' = [next EXCEPT ![p] = n, ![n] = q]
    OBVIOUS
  <2>6. next'[n] = q /\ next'[p] = n /\ \A c \in members : c # p => next'[c] = next[c]
    <3>1. next \in [Cell -> Cell \cup {Null}] /\ members \subseteq Cell /\ n # p /\ n \notin members
      BY <1>1 DEF IInv, TypeOK, InList, Cell
    <3> HIDE DEF Insert, Between, q
    <3> QED BY <1>1, <2>5, <3>1
  <2>7. \A c \in members : next[c] \in InList
    BY DEF IInv, Linked, InList
  <2>8. ASSUME NEW c \in members \cup {n}, next'[c] # Anchor PROVE new[c] < new[next'[c]]
    <3>1. CASE c = n
      <4>1. q # Anchor /\ next'[c] = q
        BY <2>6, <2>8, <3>1
      <4>2. new[q] = rank[q]
        BY <1>1, <2>4, <4>1
      <4> QED BY <2>2, <2>3, <3>1, <4>1, <4>2
    <3>2. CASE c = p /\ c # n
      <4>1. p # Anchor /\ q = Anchor /\ p \in InList \ {Anchor} /\ next'[c] = n
        BY <1>1, <2>6, <2>8, <3>2 DEF InList
      <4>2. new[p] = rank[p]
        BY <2>4, <4>1
      <4> QED BY <2>2, <2>3, <3>2, <4>1, <4>2
    <3>3. CASE c # p /\ c # n
      <4>1. c \in members /\ next'[c] = next[c] /\ next[c] # Anchor /\ next[c] \in InList \ {Anchor}
        BY <2>6, <2>7, <2>8, <3>3
      <4>2. new[c] = rank[c] /\ new[next[c]] = rank[next[c]]
        BY <1>1, <2>4, <4>1 DEF InList
      <4> QED BY <2>1, <4>1, <4>2 DEF Rising
    <3> QED BY <3>1, <3>2, <3>3
  <2> HIDE DEF new
  <2> QED BY <2>3, <2>8 DEF Ordered, Rising
<1>6. ok'
  BY <1>1 DEF Usable, InList
<1>7. Placed'
  <2>1. \A c \in alive \cup {Anchor} : c # p => next'[c] = next[c]
    BY <1>1 DEF IInv, TypeOK, Cell
  <2>2. InList' = InList \cup {n}
    BY DEF InList
  <2>3. ASSUME AtEach PROVE AtEach'
    <3>1. cur' = cur /\ Usable(cur)'
      BY <2>3 DEF AtEach, Usable
    <3>2. CASE cur \in InList
      BY <2>2, <3>1, <3>2 DEF AtEach
    <3>3. CASE cur \notin InList /\ next[cur] \in InList
      <4>1. next'[cur] = next[cur]
        BY <2>1, <2>3, <3>3 DEF AtEach, Usable
      <4> QED BY <2>2, <3>1, <3>3, <4>1 DEF AtEach
    <3> QED BY <2>3, <3>2, <3>3 DEF AtEach
  <2>4. AtSafe => AtSafe'
    BY <2>2 DEF AtSafe
  <2> QED BY <2>3, <2>4 DEF IInv, Placed
<1> QED BY <1>2, <1>3, <1>4, <1>5, <1>6, <1>7 DEF IInv, TouchesTheLiving

LEMMA AddStep ==
  ASSUME IInv, ok, ~twice, NEW n \in Node, Add(n)
  PROVE  IInv'
<1> Anchor \in InList
  BY DEF InList
<1> QED BY InsertStep DEF Add

LEMMA AddTailStep ==
  ASSUME IInv, ok, ~twice, NEW n \in Node, AddTail(n)
  PROVE  IInv'
<1>1. TailNode \in InList /\ next[TailNode] = Anchor
  BY DEF IInv, Linked, InList, TailNode
<1> QED BY <1>1, InsertStep DEF AddTail

\* A node of the list is taken out; what leads around it rises too.
LEMMA DelStep ==
  ASSUME IInv, ok, ~twice, NEW n \in Node, Del(n)
  PROVE  IInv'
<1> DEFINE p == prev[n]
           q == next[n]
<1> USE DEF Del, Unlinked, cursor
<1>1. n \in alive /\ alive \subseteq Cell /\ p \in Cell /\ q \in Cell
  BY DEF IInv, TypeOK, Filled, Cell
<1>2. TypeOK'
  BY <1>1 DEF IInv, TypeOK
<1>3. Filled'
  <2>1. \A c \in Cell : next'[c] \in {q, next[c]} /\ prev'[c] \in {p, prev[c]}
    BY DEF IInv, TypeOK
  <2>2. \A c \in alive \cup {Anchor} : next[c] \in Cell /\ prev[c] \in Cell
    BY DEF IInv, Filled
  <2>3. alive' = alive /\ Anchor \in Cell
    BY DEF Cell
  <2> HIDE DEF p, q, Del, Unlinked
  <2> QED BY <1>1, <2>1, <2>2, <2>3 DEF Filled
<1>4. cur' = cur /\ cur \in Cell /\ twice' \in BOOLEAN
  BY DEF IInv, TypeOK
<1>5. CASE n \notin members
  <2>1. twice'
    BY <1>5
  <2> QED BY <1>2, <1>3, <1>4, <2>1 DEF IInv, Linked, Ordered, Placed, TouchesTheLiving
<1>6. CASE n \in members
  <2>1. /\ p \in InList /\ q \in InList /\ next[p] = n /\ prev[q] = n
        /\ q # n
    BY <1>6, NextIsAnother DEF IInv, Linked, InList
  <2>2. p # n
    BY <2>1
  <2>3. /\ members' = members \ {n} /\ InList' = InList \ {n}
        /\ n # Anchor /\ InList \subseteq Cell /\ members \subseteq alive
    BY <1>6, ListAssumption DEF InList, IInv, TypeOK, Cell
  <2>4. /\ next'[p] = q /\ prev'[q] = p
        /\ \A c \in Cell : (c # p => next'[c] = next[c]) /\ (c # q => prev'[c] = prev[c])
    BY <1>1 DEF IInv, TypeOK
  <2>5. \A c \in InList : /\ next[c] \in InList /\ prev[next[c]] = c
                          /\ prev[c] \in InList /\ next[prev[c]] = c
    BY DEF IInv, Linked, InList
  <2>6. twice' = twice /\ ok'
    BY <1>6, <2>1, <2>3 DEF Usable, InList, IInv, TypeOK
  <2>7. Linked'
    <3> SUFFICES ASSUME NEW c \in InList \ {n}
                 PROVE  /\ next'[c] \in InList \ {n} /\ prev'[next'[c]] = c
                        /\ prev'[c] \in InList \ {n} /\ next'[prev'[c]] = c
      BY <2>3 DEF Linked, InList
    <3>1. next'[c] \in InList \ {n} /\ prev'[next'[c]] = c
      <4> HIDE DEF Del, Unlinked, p, q
      <4>1. CASE c = p
        BY <2>1, <2>4, <4>1
      <4>2. CASE c # p
        <5>1. next'[c] = next[c] /\ next[c] # q /\ next[c] # n
          BY <2>1, <2>3, <2>4, <2>5, <4>2 DEF p
        <5> QED BY <2>3, <2>4, <2>5, <5>1
      <4> QED BY <4>1, <4>2
    <3>2. prev'[c] \in InList \ {n} /\ next'[prev'[c]] = c
      <4> HIDE DEF Del, Unlinked, p, q
      <4>1. CASE c = q
        BY <2>1, <2>2, <2>4, <4>1
      <4>2. CASE c # q
        <5>1. prev'[c] = prev[c] /\ prev[c] # p /\ prev[c] # n
          BY <2>1, <2>3, <2>4, <2>5, <4>2 DEF q
        <5> QED BY <2>3, <2>4, <2>5, <5>1
      <4> QED BY <4>1, <4>2
    <3> QED BY <3>1, <3>2
  <2>8. Ordered'
    <3>1. PICK rank \in [Node -> Int] : Rising(rank)
      BY DEF IInv, Ordered
    <3>2. ASSUME NEW c \in members \ {n}, next'[c] # Anchor PROVE rank[c] < rank[next'[c]]
      <4>1. c \in Node /\ c \in InList /\ c \in Cell
        BY DEF IInv, TypeOK, InList, Cell
      <4> HIDE DEF Del, Unlinked, p, q
      <4>2. CASE c # p
        BY <2>4, <3>1, <3>2, <4>1, <4>2 DEF Rising
      <4>3. CASE c = p
        <5>1. next[c] = n /\ next'[c] = q /\ q # Anchor /\ next[n] = q
          BY <2>1, <2>4, <3>2, <4>3 DEF q
        <5>2. rank[c] < rank[n] /\ rank[n] < rank[q]
          BY <1>6, <2>3, <3>1, <5>1 DEF Rising
        <5>3. q \in Node /\ n \in Node
          BY <1>1, <5>1 DEF Cell
        <5>4. rank[c] \in Int /\ rank[n] \in Int /\ rank[q] \in Int
          BY <3>1, <4>1, <5>3
        <5> QED BY <5>1, <5>2, <5>4
      <4> QED BY <4>2, <4>3
    <3> QED BY <2>3, <3>1, <3>2 DEF Ordered, Rising
  <2>9. Placed'
    <3> SUFFICES ASSUME tame' PROVE (loop = "each" => AtEach') /\ (loop = "safe" => AtSafe')
      BY DEF Placed
    <3>1. loop \in {"each", "safe"} => n = cur
      BY DEF Spared
    <3>2. CASE loop = "each"
      <4>1. n = cur /\ Usable(cur)'
        BY <1>1, <3>1, <3>2 DEF Usable
      <4>2. next'[n] = q /\ q \in InList'
        BY <1>1, <2>1, <2>2, <2>3, <2>4
      <4> QED BY <1>4, <3>2, <4>1, <4>2 DEF AtEach
    <3>3. CASE loop = "safe"
      <4>1. AtSafe /\ n = cur
        BY <3>1, <3>3 DEF IInv, Placed
      <4> QED BY <2>3, <3>3, <4>1 DEF AtSafe
    <3> QED BY <3>2, <3>3
  <2> QED BY <1>2, <1>3, <1>4, <2>6, <2>7, <2>8, <2>9 DEF IInv, TouchesTheLiving
<1> QED BY <1>5, <1>6

\* A node that is freed is in no list, and no loop needs it but an untame one.
LEMMA FreeStep ==
  ASSUME IInv, ok, ~twice, NEW n \in Node, Free(n)
  PROVE  IInv'
<1> USE DEF Free, Deleted, cursor
<1>1. n \in alive /\ n \notin InList /\ InList \subseteq Cell
  BY ListAssumption DEF InList, IInv, TypeOK, Cell
<1>2. TypeOK'
  BY DEF IInv, TypeOK
<1>3. /\ \A c \in Cell : c # n => next'[c] = next[c] /\ prev'[c] = prev[c]
      /\ alive' = alive \ {n} /\ alive \subseteq Cell /\ n # Anchor /\ Anchor \in Cell
  BY ListAssumption DEF IInv, TypeOK, Cell
<1>4. Filled'
  BY <1>3 DEF IInv, Filled
<1>5. /\ InList' = InList
      /\ \A c \in InList : next'[c] = next[c] /\ prev'[c] = prev[c] /\ next[c] \in InList /\ prev[c] \in InList
  BY <1>1, <1>3 DEF InList, IInv, Linked
<1>6. Linked'
  BY <1>5 DEF IInv, Linked, InList
<1>7. Ordered'
  BY <1>5 DEF IInv, Ordered, Rising, InList
<1>8. Placed'
  <2> SUFFICES ASSUME tame' PROVE (loop = "each" => AtEach') /\ (loop = "safe" => AtSafe')
    BY DEF Placed
  <2>1. CASE loop = "each"
    <3>1. AtEach /\ n # cur
      BY <2>1 DEF IInv, Placed
    <3>2. cur' = cur /\ cur \in Cell /\ next'[cur] = next[cur] /\ Usable(cur)'
      BY <1>3, <3>1 DEF IInv, AtEach, Usable
    <3> QED BY <1>5, <2>1, <3>1, <3>2 DEF AtEach
  <2>2. CASE loop = "safe"
    <3>1. AtSafe
      BY <2>2 DEF IInv, Placed
    <3> QED BY <1>5, <2>2, <3>1 DEF AtSafe
  <2> QED BY <2>1, <2>2
<1> QED BY <1>2, <1>4, <1>6, <1>7, <1>8 DEF IInv, TouchesTheLiving

\* A step of a loop leaves the list alone.
LEMMA LinksStay ==
  ASSUME IInv, UNCHANGED links
  PROVE  Filled' /\ Linked' /\ Ordered' /\ InList' = InList
BY DEF IInv, links, Filled, Linked, Ordered, Rising, InList

LEMMA BeginStep ==
  ASSUME IInv, ok, ~twice, NEW kind \in {"each", "safe"}, Begin(kind)
  PROVE  IInv'
<1> USE DEF Begin, links
<1>1. cur' \in InList /\ cur' \in Cell /\ next[cur'] \in InList /\ next[cur'] \in Cell
  BY DEF IInv, Linked, InList, TypeOK, Cell
<1>2. TypeOK'
  <2>1. /\ ok' \in BOOLEAN /\ tame' \in BOOLEAN /\ loop' \in {"none", "each", "safe"}
        /\ ahead' \in Cell /\ UNCHANGED <<next, prev, alive, members, twice>>
    BY <1>1 DEF Usable, Cell
  <2> HIDE DEF Begin
  <2> QED BY <1>1, <2>1 DEF IInv, TypeOK
<1>3. ok'
  BY <1>1 DEF Usable, InList, IInv, TypeOK
<1>4. Placed'
  <2>1. kind = "each" => AtEach'
    BY <1>1, <1>3, LinksStay DEF AtEach, Usable
  <2>2. kind = "safe" => AtSafe'
    <3>1. cur' # Anchor => next[cur'] # cur'
      BY <1>1, NextIsAnother DEF IInv, InList
    <3> QED BY <1>1, <3>1, LinksStay DEF AtSafe
  <2> QED BY <2>1, <2>2 DEF Placed
<1> QED BY <1>1, <1>2, <1>3, <1>4, LinksStay DEF IInv, TouchesTheLiving

LEMMA NextEachStep ==
  ASSUME IInv, ok, ~twice, NextEach
  PROVE  IInv'
<1> USE DEF NextEach, links
<1>1. cur \in Cell /\ (Usable(cur) => cur' \in Cell)
  BY DEF IInv, Filled, Usable
<1>2. TypeOK'
  <2>1. ok' \in BOOLEAN /\ cur' \in Cell \cup {Null}
    BY <1>1 DEF Usable, IInv, TypeOK
  <2>2. UNCHANGED <<next, prev, alive, members, twice, loop, ahead, tame>>
    OBVIOUS
  <2> HIDE DEF NextEach
  <2> QED BY <2>1, <2>2 DEF IInv, TypeOK
<1>3. ASSUME tame PROVE ok' /\ AtEach'
  <2>1. AtEach
    BY <1>3 DEF IInv, Placed
  <2>2. cur' \in InList
    BY <2>1 DEF AtEach, IInv, Linked, InList
  <2>3. Usable(cur')
    BY <2>2 DEF Usable, InList, IInv, TypeOK
  <2> QED BY <2>1, <2>2, <2>3, LinksStay DEF AtEach, Usable
<1>4. Placed' /\ TouchesTheLiving'
  BY <1>3 DEF Placed, TouchesTheLiving
<1> QED BY <1>1, <1>2, <1>4, LinksStay DEF IInv

LEMMA NextSafeStep ==
  ASSUME IInv, ok, ~twice, NextSafe
  PROVE  IInv'
<1> USE DEF NextSafe, Following, links
<1>1. cur' \in Cell \cup {Null} /\ (ok' => cur' \in Cell /\ ahead' \in Cell)
  BY DEF IInv, Filled, Usable, TypeOK, Cell
<1>2. ahead' \in Cell \cup {Null}
  BY <1>1
<1>3. TypeOK'
  <2>1. ok' \in BOOLEAN
    BY DEF Usable
  <2> HIDE DEF NextSafe
  <2>2. UNCHANGED <<next, prev, alive, members, twice, loop, tame>>
    BY DEF NextSafe
  <2> QED BY <1>1, <1>2, <2>1, <2>2 DEF IInv, TypeOK
<1>4. ASSUME tame PROVE ok' /\ AtSafe'
  <2>1. ahead \in InList
    BY <1>4 DEF IInv, Placed, AtSafe
  <2>2. ok' /\ ahead' = next[ahead] /\ ahead' \in InList
    BY <2>1 DEF Usable, InList, IInv, TypeOK, Linked
  <2>3. ahead # Anchor => next[ahead] # ahead
    BY <2>1, NextIsAnother DEF IInv, InList
  <2> QED BY <2>2, <2>3, LinksStay DEF AtSafe
<1>5. Placed' /\ TouchesTheLiving'
  BY <1>4 DEF Placed, TouchesTheLiving
<1> QED BY <1>1, <1>3, <1>5, LinksStay DEF IInv

LEMMA LeaveStep ==
  ASSUME IInv, ok, ~twice, Leave
  PROVE  IInv'
<1> USE DEF Leave, links
<1>1. TypeOK'
  BY DEF IInv, TypeOK, Cell
<1> QED BY <1>1, LinksStay DEF IInv, Placed, TouchesTheLiving

THEOREM Inductive == Spec => []IInv
<1>1. IInv /\ [Next]_vars => IInv'
  <2> SUFFICES ASSUME IInv, [Next]_vars PROVE IInv'
    OBVIOUS
  <2>1. CASE UNCHANGED vars
    BY <2>1, LinksStay DEF vars, links, cursor, IInv, TypeOK, Placed, AtEach, AtSafe, Usable, TouchesTheLiving
  <2>2. ASSUME ok, ~twice, NEW n \in Node, Add(n) \/ AddTail(n) \/ Del(n) \/ Free(n)
        PROVE  IInv'
    BY <2>2, AddStep, AddTailStep, DelStep, FreeStep
  <2>3. ASSUME ok, ~twice, NEW kind \in {"each", "safe"}, Begin(kind)
        PROVE  IInv'
    BY <2>3, BeginStep
  <2>4. ASSUME ok, ~twice, NextEach \/ NextSafe \/ Leave
        PROVE  IInv'
    BY <2>4, NextEachStep, NextSafeStep, LeaveStep
  <2> QED BY <2>1, <2>2, <2>3, <2>4 DEF Next
<1> QED BY <1>1, InitIsGood, PTL DEF Spec

\* The shape of the list and of the loops (kvs_list.h:12-21).
THEOREM TypeCorrect == Spec => []TypeOK
<1>1. IInv => TypeOK
  BY DEF IInv
<1> QED BY <1>1, Inductive, PTL

\* next and prev are each other's inverse on the list, whatever is added at its
\* ends and taken out of it (kvs_list.c:21-34).
THEOREM DirectionsAgree == Spec => []Linked
<1>1. IInv => Linked
  BY DEF IInv
<1> QED BY <1>1, Inductive, PTL

\* A loop whose body takes out no other node than the one it is at never touches a
\* freed one (kvs_list.h:38-42).
THEOREM LoopsTouchTheLiving == Spec => []TouchesTheLiving
<1>1. IInv => TouchesTheLiving
  BY DEF IInv
<1> QED BY <1>1, Inductive, PTL
-----------------------------------------------------------------------------
(***************************************************************************)
(* The list as a sequence.  A sequence w is the list along the pointers nx *)
(* when nx leads from the anchor through its nodes, once each, and back.   *)
(***************************************************************************)

At(w, i) == IF i \in 1..Len(w) THEN w[i] ELSE Anchor

Chain(nx, w) ==
  /\ w \in Seq(Node)
  /\ \A i, j \in 1..Len(w) : w[i] = w[j] => i = j
  /\ \A i \in 0..Len(w) : nx[At(w, i)] = At(w, i + 1)

\* A non-empty set of naturals has a least element.
LEMMA LeastNat ==
  ASSUME NEW S \in SUBSET Nat, S # {}
  PROVE  \E m \in S : \A k \in S : m <= k
<1> DEFINE R == OpToRel(<, Nat)
<1>1. IsWellFoundedOn(R, Nat)
  BY NatLessThanWellFounded
<1>2. PICK m \in S : \A k \in S : ~(<<k, m>> \in R)
  <2> HIDE DEF R
  <2> QED BY <1>1, WFMin
<1>3. ASSUME NEW k \in S, k < m PROVE <<k, m>> \in R
  BY <1>3 DEF OpToRel
<1>4. \A k \in S : ~(k < m)
  BY <1>2, <1>3
<1> QED BY <1>4

\* f follows nx for n steps.
Follows(nx, n, f) == f = [k \in 0..n |-> IF k = 0 THEN Anchor ELSE nx[f[k - 1]]]

LEMMA FollowsExists ==
  ASSUME NEW nx, NEW n \in Nat
  PROVE  \E f : Follows(nx, n, f)
<1> DEFINE S == {m \in Nat : ~\E f : Follows(nx, m, f)}
<1>1. ASSUME S # {} PROVE FALSE
  <2>1. PICK m \in S : \A k \in S : m <= k
    <3>1. S \in SUBSET Nat
      OBVIOUS
    <3> HIDE DEF S
    <3> QED BY <1>1, <3>1, LeastNat
  <2>2. m # 0
    <3>1. Follows(nx, 0, [k \in 0..0 |-> Anchor])
      BY DEF Follows
    <3> QED BY <3>1
  <2>3. m \in Nat /\ m - 1 \in Nat /\ m - 1 \notin S
    BY <2>1, <2>2
  <2>4. PICK g : Follows(nx, m - 1, g)
    BY <2>3
  <2> DEFINE f == [k \in 0..m |-> IF k < m THEN g[k] ELSE nx[g[m - 1]]]
  <2>5. ASSUME NEW k \in 0..m
        PROVE  f[k] = IF k = 0 THEN Anchor ELSE nx[f[k - 1]]
    <3>1. CASE k < m
      <4>1. k \in 0..m - 1
        BY <2>3, <3>1
      <4>2. g[k] = IF k = 0 THEN Anchor ELSE nx[g[k - 1]]
        BY <2>4, <4>1 DEF Follows
      <4>3. k # 0 => f[k - 1] = g[k - 1]
        BY <2>3, <3>1
      <4> QED BY <3>1, <4>2, <4>3
    <3>2. CASE k = m
      <4>1. f[k - 1] = g[m - 1] /\ f[k] = nx[g[m - 1]]
        BY <2>2, <2>3, <3>2
      <4> QED BY <2>2, <3>2, <4>1
    <3> QED BY <2>3, <3>1, <3>2
  <2>6. f = [k \in 0..m |-> IF k = 0 THEN Anchor ELSE nx[f[k - 1]]]
    <3> DEFINE h == [k \in 0..m |-> IF k = 0 THEN Anchor ELSE nx[f[k - 1]]]
    <3>1. f = [k \in 0..m |-> f[k]] /\ \A k \in 0..m : f[k] = h[k]
      BY <2>5
    <3> HIDE DEF f
    <3> QED BY <3>1
  <2>7. Follows(nx, m, f)
    BY <2>6 DEF Follows
  <2> QED BY <2>1, <2>7
<1> QED BY <1>1

LEMMA ReachedIs ==
  ASSUME IsFiniteSet(Node), NEW nx
  PROVE  Follows(nx, Cardinality(Node) + 1, Reached(nx))
<1>1. Cardinality(Node) + 1 \in Nat
  BY FS_CardinalityType
<1>2. \E f : Follows(nx, Cardinality(Node) + 1, f)
  BY <1>1, FollowsExists
<1> QED BY <1>2 DEF Follows, Reached

\* A list has no more nodes than there are.
LEMMA ChainIsShort ==
  ASSUME IsFiniteSet(Node), NEW nx, NEW w, Chain(nx, w)
  PROVE  Len(w) \in Nat /\ Cardinality(Node) \in Nat /\ Len(w) <= Cardinality(Node)
<1>1. w \in Seq(Node) /\ Len(w) \in Nat /\ w \in [1..Len(w) -> Node]
  BY LenProperties DEF Chain
<1>2. w \in Injection(1..Len(w), Node)
  BY <1>1 DEF Chain, Injection, IsInjective
<1>3. Cardinality(1..Len(w)) = Len(w)
  <2>1. 1 \in Int /\ Len(w) \in Int
    BY <1>1
  <2>2. Cardinality(1..Len(w)) = IF 1 > Len(w) THEN 0 ELSE Len(w) - 1 + 1
    BY <2>1, FS_Interval
  <2> QED BY <1>1, <2>2
<1>4. Cardinality(1..Len(w)) <= Cardinality(Node)
  BY <1>2, FS_Injection
<1>5. Cardinality(Node) \in Nat
  BY FS_CardinalityType
<1> QED BY <1>1, <1>3, <1>4, <1>5

\* Along finds it.
LEMMA AlongIs ==
  ASSUME IsFiniteSet(Node), NEW nx, NEW w, Chain(nx, w)
  PROVE  Along(nx) = w
<1> DEFINE r == Reached(nx)
           n == Cardinality(Node)
           l == Len(w)
           S == {i \in Nat : i <= l + 1 /\ r[i] # At(w, i)}
<1>1. l \in Nat /\ n \in Nat /\ l <= n
  BY ChainIsShort
<1>2. \A k \in 0..n + 1 : r[k] = IF k = 0 THEN Anchor ELSE nx[r[k - 1]]
  BY ReachedIs DEF Follows
<1>3. w \in [1..l -> Node]
  BY LenProperties DEF Chain
<1>4. \A i \in 0..l : nx[At(w, i)] = At(w, i + 1)
  BY DEF Chain
<1>5. At(w, 0) = Anchor /\ At(w, l + 1) = Anchor /\ \A i \in 1..l : At(w, i) = w[i] /\ w[i] # Anchor
  BY <1>1, <1>3, ListAssumption DEF At
<1> HIDE DEF r, n, l
<1>6. ASSUME S # {} PROVE FALSE
  <2>1. PICK m \in S : \A k \in S : m <= k
    <3>1. S \in SUBSET Nat
      OBVIOUS
    <3> HIDE DEF S
    <3> QED BY <1>6, <3>1, LeastNat
  <2>2. m \in Nat /\ m <= l + 1 /\ r[m] # At(w, m)
    BY <2>1
  <2>3. m # 0
    <3>1. 0 \in 0..n + 1
      BY <1>1
    <3>2. r[0] = Anchor
      BY <1>2, <3>1
    <3> QED BY <1>5, <2>2, <3>2
  <2>4. m - 1 \in 0..l /\ m - 1 \notin S /\ m \in 0..n + 1
    BY <1>1, <2>1, <2>2, <2>3
  <2>5. r[m - 1] = At(w, m - 1)
    BY <1>1, <2>4
  <2>6. r[m] = nx[r[m - 1]]
    BY <1>2, <2>3, <2>4
  <2>7. nx[At(w, m - 1)] = At(w, (m - 1) + 1) /\ (m - 1) + 1 = m
    BY <1>4, <2>2, <2>4
  <2> QED BY <2>2, <2>5, <2>6, <2>7
<1>7. \A i \in 0..l + 1 : r[i] = At(w, i)
  BY <1>1, <1>6
<1> DEFINE Ends(k) == r[k + 1] = Anchor /\ \A m \in 1..k : r[m] # Anchor
<1>8. l \in 0..n /\ Ends(l)
  <2>1. l + 1 \in 0..l + 1 /\ \A m \in 1..l : m \in 0..l + 1
    BY <1>1
  <2> QED BY <1>1, <1>5, <1>7, <2>1
<1>9. ASSUME NEW k \in 0..n, Ends(k) PROVE k = l
  <2>1. CASE k < l
    <3>1. k + 1 \in 1..l /\ k + 1 \in 0..l + 1
      BY <1>1, <2>1
    <3> QED BY <1>5, <1>7, <1>9, <3>1
  <2>2. CASE k > l
    <3>1. l + 1 \in 1..k /\ l + 1 \in 0..l + 1
      BY <1>1, <2>2
    <3> QED BY <1>5, <1>7, <1>9, <3>1
  <2> QED BY <1>1, <2>1, <2>2
<1>10. (CHOOSE k \in 0..n : Ends(k)) = l
  <2> HIDE DEF Ends
  <2> QED BY <1>8, <1>9
<1>11. Along(nx) = [k \in 1..l |-> r[k]]
  BY <1>10 DEF Along, r, n
<1>12. \A k \in 1..l : r[k] = w[k]
  BY <1>1, <1>5, <1>7
<1>13. w = [k \in 1..l |-> w[k]]
  BY <1>3
<1> QED BY <1>11, <1>12, <1>13

\* A node is put in front of the others.
LEMMA ChainFirst ==
  ASSUME NEW nx, NEW w, Chain(nx, w), NEW n \in Node, \A i \in 1..Len(w) : w[i] # n,
         NEW g, g[Anchor] = n, g[n] = nx[Anchor],
         \A c \in Node \ {n} : g[c] = nx[c]
  PROVE  Chain(g, <<n>> \o w)
<1> DEFINE v == <<n>> \o w
           l == Len(w)
<1>1. w \in Seq(Node) /\ l \in Nat /\ \A i \in 1..l : w[i] \in Node
  BY LenProperties, ElementOfSeq DEF Chain
<1>2. v \in Seq(Node) /\ Len(v) = l + 1 /\ v[1] = n /\ \A i \in 1..l : v[i + 1] = w[i]
  <2>1. <<n>> \in Seq(Node) /\ Len(<<n>>) = 1 /\ <<n>>[1] = n
    OBVIOUS
  <2>2. /\ v \in Seq(Node) /\ Len(v) = Len(<<n>>) + l
        /\ \A i \in 1..Len(<<n>>) + l : v[i] = IF i <= Len(<<n>>) THEN <<n>>[i] ELSE w[i - Len(<<n>>)]
    BY <1>1, <2>1, ConcatProperties
  <2> HIDE DEF v, l
  <2>3. Len(v) = l + 1 /\ \A i \in 1..l + 1 : v[i] = IF i <= 1 THEN n ELSE w[i - 1]
    BY <1>1, <2>1, <2>2
  <2>4. v[1] = n /\ \A i \in 1..l : v[i + 1] = w[i]
    BY <1>1, <2>3
  <2> QED BY <2>2, <2>3, <2>4
<1> HIDE DEF v, l
<1>3. \A i \in 1..l + 1 : i = 1 \/ i - 1 \in 1..l
  BY <1>1
<1>4. \A i \in 1..l + 1 : i # 1 => v[i] = w[i - 1] /\ v[i] # n
  <2> SUFFICES ASSUME NEW i \in 1..l + 1, i # 1 PROVE v[i] = w[i - 1] /\ v[i] # n
    OBVIOUS
  <2>1. i - 1 \in 1..l /\ (i - 1) + 1 = i
    BY <1>1
  <2> QED BY <1>2, <2>1 DEF l
<1>5. \A i, j \in 1..Len(v) : v[i] = v[j] => i = j
  <2> SUFFICES ASSUME NEW i \in 1..l + 1, NEW j \in 1..l + 1, v[i] = v[j] PROVE i = j
    BY <1>2
  <2>1. CASE i = 1 \/ j = 1
    BY <1>2, <1>4, <2>1
  <2>2. CASE i # 1 /\ j # 1
    <3>1. i - 1 \in 1..l /\ j - 1 \in 1..l /\ w[i - 1] = w[j - 1]
      BY <1>3, <1>4, <2>2
    <3>2. i - 1 = j - 1
      BY <3>1 DEF Chain, l
    <3> QED BY <1>1, <3>2
  <2> QED BY <2>1, <2>2
<1>6. At(v, 0) = Anchor /\ At(v, 1) = n /\ \A i \in 1..l + 1 : At(v, i + 1) = At(w, i)
  <2>1. ASSUME NEW i \in 1..l + 1 PROVE At(v, i + 1) = At(w, i)
    <3>1. CASE i \in 1..l
      <4>1. i + 1 \in 1..l + 1
        BY <1>1, <3>1
      <4> QED BY <1>2, <3>1, <4>1 DEF At, l
    <3>2. CASE i = l + 1
      <4>1. i + 1 \notin 1..l + 1 /\ i \notin 1..l
        BY <1>1, <3>2
      <4> QED BY <1>2, <4>1 DEF At, l
    <3> QED BY <1>1, <3>1, <3>2
  <2>2. 0 \notin 1..l + 1 /\ 1 \in 1..l + 1
    BY <1>1
  <2> QED BY <1>2, <2>1, <2>2 DEF At
<1>7. \A i \in 0..l : nx[At(w, i)] = At(w, i + 1)
  BY DEF Chain, l
<1>8. ASSUME NEW i \in 0..l + 1 PROVE g[At(v, i)] = At(v, i + 1)
  <2>1. CASE i = 0
    BY <1>6, <2>1
  <2>2. CASE i = 1
    <3>1. At(w, 0) = Anchor /\ 0 \in 0..l /\ 1 \in 1..l + 1
      BY <1>1 DEF At
    <3>2. nx[Anchor] = At(w, 0 + 1)
      BY <1>7, <3>1
    <3>3. At(v, 1 + 1) = At(w, 1)
      BY <1>6, <3>1
    <3> QED BY <1>6, <2>2, <3>2, <3>3
  <2>3. CASE i > 1
    <3> DEFINE k == i - 1
    <3>1. k \in 1..l /\ k \in 0..l /\ k \in 1..l + 1 /\ k + 1 \in 1..l + 1 /\ i = k + 1
      BY <1>1, <2>3
    <3> HIDE DEF k
    <3>2. At(v, k + 1) = At(w, k) /\ At(v, (k + 1) + 1) = At(w, k + 1)
      BY <1>6, <3>1
    <3>3. At(w, k) = w[k] /\ w[k] \in Node \ {n}
      BY <1>1, <3>1 DEF At, l
    <3>4. g[At(w, k)] = nx[At(w, k)]
      BY <3>3
    <3> QED BY <1>7, <3>1, <3>2, <3>4
  <2> QED BY <1>1, <2>1, <2>2, <2>3
<1> QED BY <1>2, <1>5, <1>8 DEF Chain, v

\* A node is put behind the others.
LEMMA ChainLast ==
  ASSUME NEW nx, NEW w, Chain(nx, w), NEW n \in Node, \A i \in 1..Len(w) : w[i] # n,
         NEW g, g[At(w, Len(w))] = n, g[n] = Anchor,
         \A c \in Cell \ {n, At(w, Len(w))} : g[c] = nx[c]
  PROVE  Chain(g, Append(w, n))
<1> DEFINE v == Append(w, n)
           l == Len(w)
<1>1. w \in Seq(Node) /\ l \in Nat /\ \A i \in 1..l : w[i] \in Node
  BY LenProperties, ElementOfSeq DEF Chain
<1>2. v \in Seq(Node) /\ Len(v) = l + 1 /\ v[l + 1] = n /\ \A i \in 1..l : v[i] = w[i]
  BY <1>1
<1> HIDE DEF v, l
<1>3. \A i, j \in 1..Len(v) : v[i] = v[j] => i = j
  <2> SUFFICES ASSUME NEW i \in 1..l + 1, NEW j \in 1..l + 1, v[i] = v[j] PROVE i = j
    BY <1>2
  <2>1. \A k \in 1..l + 1 : k = l + 1 \/ k \in 1..l
    BY <1>1
  <2>2. \A k \in 1..l : v[k] # n
    BY <1>2 DEF l
  <2>3. CASE i = l + 1 \/ j = l + 1
    BY <1>2, <2>1, <2>2, <2>3
  <2>4. CASE i \in 1..l /\ j \in 1..l
    BY <1>2, <2>4 DEF Chain, l
  <2> QED BY <2>1, <2>3, <2>4
<1>4. At(v, l + 1) = n /\ At(v, (l + 1) + 1) = Anchor /\ \A i \in 0..l : At(v, i) = At(w, i)
  <2>1. l + 1 \in 1..l + 1 /\ (l + 1) + 1 \notin 1..l + 1
    BY <1>1
  <2>2. ASSUME NEW i \in 0..l PROVE At(v, i) = At(w, i)
    <3>1. i \in 1..l + 1 <=> i \in 1..l
      BY <1>1
    <3> QED BY <1>2, <3>1 DEF At, l
  <2> QED BY <1>2, <2>1, <2>2 DEF At
<1>5. \A i \in 0..l : nx[At(w, i)] = At(w, i + 1)
  BY DEF Chain, l
<1>6. ASSUME NEW i \in 0..l + 1 PROVE g[At(v, i)] = At(v, i + 1)
  <2>1. CASE i = l + 1
    BY <1>4, <2>1
  <2>2. CASE i = l
    <3>1. At(v, l) = At(w, l)
      BY <1>1, <1>4
    <3> QED BY <1>4, <2>2, <3>1 DEF l
  <2>3. CASE i < l
    <3>1. i \in 0..l /\ i + 1 \in 0..l
      BY <1>1, <2>3
    <3>2. At(w, i) \in Cell \ {n, At(w, l)}
      <4>1. At(w, l) = IF l = 0 THEN Anchor ELSE w[l]
        BY <1>1 DEF At, l
      <4>2. At(w, i) = IF i = 0 THEN Anchor ELSE w[i]
        BY <1>1, <2>3, <3>1 DEF At, l
      <4>3. l # 0 /\ l \in 1..l /\ w[l] \in Node /\ Anchor \notin Node
        BY <1>1, <2>3, <3>1, ListAssumption
      <4>4. CASE i = 0
        BY <4>1, <4>2, <4>3, <4>4 DEF Cell
      <4>5. CASE i # 0
        <5>1. i \in 1..l /\ w[i] \in Node /\ w[i] # n
          BY <1>1, <3>1, <4>5 DEF l
        <5>2. w[i] # w[l]
          BY <2>3, <4>3, <5>1 DEF Chain, l
        <5> QED BY <4>1, <4>2, <4>3, <4>5, <5>1, <5>2 DEF Cell
      <4> QED BY <4>4, <4>5
    <3>3. g[At(w, i)] = nx[At(w, i)]
      BY <3>2 DEF l
    <3> QED BY <1>4, <1>5, <3>1, <3>3
  <2> QED BY <1>1, <2>1, <2>2, <2>3
<1> QED BY <1>2, <1>3, <1>6 DEF Chain, v

\* A sequence without its p-th element.
LEMMA RemoveAtIs ==
  ASSUME NEW w \in Seq(Node), NEW p \in 1..Len(w)
  PROVE  /\ RemoveAt(w, p) \in Seq(Node) /\ Len(RemoveAt(w, p)) = Len(w) - 1
         /\ \A i \in 1..p - 1 : RemoveAt(w, p)[i] = w[i]
         /\ \A i \in p..Len(w) - 1 : RemoveAt(w, p)[i] = w[i + 1]
<1> DEFINE l == Len(w)
           x == SubSeq(w, 1, p - 1)
           y == SubSeq(w, p + 1, Len(w))
<1>1. l \in Nat /\ \A i \in 1..l : w[i] \in Node
  BY LenProperties, ElementOfSeq
<1>2. x \in Seq(Node) /\ Len(x) = p - 1 /\ \A i \in 1..p - 1 : x[i] = w[i]
  BY <1>1, SubSeqProperties
<1>3. y \in Seq(Node) /\ Len(y) = l - p /\ \A i \in 1..l - p : y[i] = w[p + i]
  BY <1>1, SubSeqProperties
<1>4. RemoveAt(w, p) = x \o y
  BY DEF RemoveAt
<1> HIDE DEF x, y
<1> DEFINE z == x \o y
<1>5. /\ z \in Seq(Node) /\ Len(z) = Len(x) + Len(y)
      /\ \A i \in 1..Len(x) + Len(y) : z[i] = IF i <= Len(x) THEN x[i] ELSE y[i - Len(x)]
  BY <1>2, <1>3, ConcatProperties
<1> HIDE DEF z, l
<1>6. Len(z) = l - 1
  BY <1>1, <1>2, <1>3, <1>5
<1>7. \A i \in 1..l - 1 : z[i] = IF i <= p - 1 THEN x[i] ELSE y[i - (p - 1)]
  BY <1>1, <1>2, <1>3, <1>5
<1>8. ASSUME NEW i \in 1..p - 1 PROVE z[i] = w[i]
  <2>1. i \in 1..l - 1 /\ i <= p - 1
    BY <1>1 DEF l
  <2> QED BY <1>2, <1>7, <2>1
<1>9. ASSUME NEW i \in p..l - 1 PROVE z[i] = w[i + 1]
  <2>1. i \in 1..l - 1 /\ ~(i <= p - 1) /\ i - (p - 1) \in 1..l - p /\ p + (i - (p - 1)) = i + 1
    BY <1>1 DEF l
  <2> QED BY <1>3, <1>7, <2>1
<1> QED BY <1>4, <1>5, <1>6, <1>8, <1>9 DEF z, l

\* A node is taken out.
LEMMA ChainOut ==
  ASSUME NEW nx, NEW w, Chain(nx, w), NEW p \in 1..Len(w),
         NEW g, g[At(w, p - 1)] = At(w, p + 1),
         \A c \in Cell \ {At(w, p - 1)} : g[c] = nx[c]
  PROVE  Chain(g, RemoveAt(w, p))
<1> DEFINE v == RemoveAt(w, p)
           l == Len(w)
<1>1. w \in Seq(Node) /\ l \in Nat /\ p \in 1..l /\ \A i \in 1..l : w[i] \in Node
  BY LenProperties, ElementOfSeq DEF Chain
<1>2. /\ v \in Seq(Node) /\ Len(v) = l - 1
      /\ \A i \in 1..p - 1 : v[i] = w[i]
      /\ \A i \in p..l - 1 : v[i] = w[i + 1]
  BY <1>1, RemoveAtIs
<1> HIDE DEF v, l
<1> DEFINE Before(i) == IF i < p THEN i ELSE i + 1
<1>3. \A i \in 1..l - 1 : Before(i) \in 1..l /\ v[i] = w[Before(i)]
  BY <1>1, <1>2
<1>4. \A i, j \in 1..Len(v) : v[i] = v[j] => i = j
  <2> SUFFICES ASSUME NEW i \in 1..l - 1, NEW j \in 1..l - 1, v[i] = v[j] PROVE i = j
    BY <1>2
  <2>1. Before(i) = Before(j)
    <3>1. Before(i) \in 1..l /\ Before(j) \in 1..l /\ w[Before(i)] = w[Before(j)]
      BY <1>3
    <3> HIDE DEF Before
    <3> QED BY <3>1 DEF Chain, l
  <2> QED BY <1>1, <2>1
<1>5. \A i \in 0..l : At(v, i) = At(w, Before(i))
  <2> SUFFICES ASSUME NEW i \in 0..l PROVE At(v, i) = At(w, Before(i))
    OBVIOUS
  <2>1. CASE i \in 1..l - 1
    <3> HIDE DEF Before
    <3> QED BY <1>2, <1>3, <2>1 DEF At, l
  <2>2. CASE i = 0
    <3>1. Before(i) = 0 /\ 0 \notin 1..l /\ 0 \notin 1..l - 1
      BY <1>1, <2>2
    <3> QED BY <1>2, <2>2, <3>1 DEF At, l
  <2>3. CASE i = l
    <3>1. Before(i) = l + 1 /\ l + 1 \notin 1..l /\ l \notin 1..l - 1
      BY <1>1, <2>3
    <3> QED BY <1>2, <2>3, <3>1 DEF At, l
  <2> QED BY <1>1, <2>1, <2>2, <2>3
<1>6. \A i \in 0..l : nx[At(w, i)] = At(w, i + 1)
  BY DEF Chain, l
<1>7. \A i \in 0..l : At(w, i) \in Cell /\ \A j \in 0..l : At(w, i) = At(w, j) => i = j
  <2>1. \A i \in 0..l : At(w, i) = IF i = 0 THEN Anchor ELSE w[i]
    BY <1>1 DEF At, l
  <2>2. \A i \in 0..l : i # 0 => i \in 1..l
    BY <1>1
  <2>3. \A i, j \in 1..l : w[i] = w[j] => i = j
    BY DEF Chain, l
  <2>4. \A i \in 1..l : w[i] \in Node /\ w[i] # Anchor
    BY <1>1, ListAssumption
  <2> QED BY <2>1, <2>2, <2>3, <2>4 DEF Cell
<1>8. ASSUME NEW i \in 0..l - 1 PROVE g[At(v, i)] = At(v, i + 1)
  <2>1. i \in 0..l /\ i + 1 \in 0..l
    BY <1>1
  <2>2. At(v, i) = At(w, Before(i)) /\ At(v, i + 1) = At(w, Before(i + 1))
    BY <1>5, <2>1
  <2>3. CASE i = p - 1
    <3>1. Before(i) = p - 1 /\ Before(i + 1) = p + 1
      BY <1>1, <2>3
    <3> QED BY <2>2, <3>1
  <2>4. CASE i # p - 1
    <3> DEFINE k == Before(i)
    <3>1. k \in 0..l /\ k # p - 1 /\ p - 1 \in 0..l /\ Before(i + 1) = k + 1
      BY <1>1, <2>4
    <3> HIDE DEF k
    <3>2. At(w, k) \in Cell \ {At(w, p - 1)}
      BY <1>7, <3>1
    <3>3. g[At(w, k)] = nx[At(w, k)]
      BY <3>2
    <3> QED BY <1>6, <2>2, <3>1, <3>3 DEF k
  <2> QED BY <2>3, <2>4
<1> QED BY <1>2, <1>4, <1>8 DEF Chain, v

\* A pointer of a node that is not in the list is changed.
LEMMA ChainAside ==
  ASSUME NEW nx, NEW w, Chain(nx, w), NEW n \in Node, \A i \in 1..Len(w) : w[i] # n,
         NEW g, \A c \in Cell \ {n} : g[c] = nx[c]
  PROVE  Chain(g, w)
<1>1. w \in Seq(Node) /\ Len(w) \in Nat /\ \A i \in 1..Len(w) : w[i] \in Node
  BY LenProperties, ElementOfSeq DEF Chain
<1>2. ASSUME NEW i \in 0..Len(w) PROVE g[At(w, i)] = At(w, i + 1)
  <2>1. At(w, i) \in Cell \ {n}
    BY <1>1, ListAssumption DEF At, Cell
  <2> QED BY <2>1 DEF Chain
<1> QED BY <1>2 DEF Chain

\* The list along the pointers is the nodes that were added and not taken out.
Listed(w) == Chain(next, w) /\ members = {w[i] : i \in 1..Len(w)}
IsListed == Sound => Listed(Walk)

LEMMA ListedIsWalk ==
  ASSUME IsFiniteSet(Node), NEW w
  PROVE  /\ Listed(w) => Walk = w
         /\ Listed(w)' => Walk' = w
BY AlongIs DEF Listed, Walk

\* What the places in the list have to do with its pointers.
LEMMA Places ==
  ASSUME IInv, ~twice, NEW w, Listed(w)
  PROVE  /\ w \in Seq(Node) /\ Len(w) \in Nat
         /\ \A i \in 1..Len(w) : w[i] \in members
         /\ \A i \in 0..Len(w) + 1 : At(w, i) \in InList /\ At(w, i) \in Cell
         /\ \A i \in 0..Len(w) : next[At(w, i)] = At(w, i + 1) /\ prev[At(w, i + 1)] = At(w, i)
         /\ At(w, 0) = Anchor /\ At(w, Len(w) + 1) = Anchor
<1>1. w \in Seq(Node) /\ Len(w) \in Nat
  BY LenProperties DEF Listed, Chain
<1>2. \A i \in 1..Len(w) : w[i] \in members
  BY DEF Listed
<1>3. \A i \in 0..Len(w) + 1 : At(w, i) \in InList
  BY <1>2 DEF At, InList
<1>4. InList \subseteq Cell
  BY DEF IInv, TypeOK, InList, Cell
<1>5. ASSUME NEW i \in 0..Len(w)
      PROVE  next[At(w, i)] = At(w, i + 1) /\ prev[At(w, i + 1)] = At(w, i)
  <2>1. next[At(w, i)] = At(w, i + 1)
    BY DEF Listed, Chain
  <2>2. At(w, i) \in InList
    BY <1>1, <1>3
  <2> QED BY <2>1, <2>2 DEF IInv, Linked, InList
<1>6. At(w, 0) = Anchor /\ At(w, Len(w) + 1) = Anchor
  BY <1>1 DEF At
<1> QED BY <1>1, <1>2, <1>3, <1>4, <1>5, <1>6

LEMMA ListBegins ==
  ASSUME IsFiniteSet(Node), Init
  PROVE  Walk = <<>> /\ Listed(<<>>)
<1>1. next[Anchor] = Anchor /\ members = {}
  BY DEF Init, Cell
<1>2. Len(<<>>) = 0 /\ <<>> \in Seq(Node)
  OBVIOUS
<1>3. At(<<>>, 0) = Anchor /\ At(<<>>, 1) = Anchor
  BY <1>2 DEF At
<1>4. \A i \in 0..0 : next[At(<<>>, i)] = At(<<>>, i + 1)
  BY <1>1, <1>3
<1>5. Chain(next, <<>>)
  BY <1>2, <1>4 DEF Chain
<1>6. Listed(<<>>)
  BY <1>1, <1>2, <1>5 DEF Listed
<1> QED BY <1>6, ListedIsWalk

\* kvs_list_add puts the node in front.
LEMMA AddLists ==
  ASSUME IsFiniteSet(Node), IInv, ~twice, NEW w, Listed(w), NEW n \in Node, Add(n)
  PROVE  Listed(<<n>> \o w)' /\ n \notin members
<1>1. /\ next' = [next EXCEPT ![Anchor] = n, ![n] = next[Anchor]]
      /\ members' = members \cup {n} /\ n \notin alive
  BY DEF Add, Insert, Between
<1>2. n \notin members /\ n # Anchor /\ Anchor \in Cell /\ n \in Cell /\ next \in [Cell -> Cell \cup {Null}]
  BY <1>1, ListAssumption DEF IInv, TypeOK, Cell
<1>3. \A i \in 1..Len(w) : w[i] # n
  BY <1>2, Places
<1>4. next'[Anchor] = n /\ next'[n] = next[Anchor] /\ \A c \in Node \ {n} : next'[c] = next[c]
  BY <1>1, <1>2, ListAssumption DEF Cell
<1>5. Chain(next', <<n>> \o w)
  <2>1. Chain(next, w)
    BY DEF Listed
  <2> DEFINE g == next'
             f == next
  <2>2. Chain(f, w) /\ g[Anchor] = n /\ g[n] = f[Anchor] /\ \A c \in Node \ {n} : g[c] = f[c]
    BY <1>4, <2>1
  <2> HIDE DEF g, f
  <2>3. Chain(g, <<n>> \o w)
    BY <1>3, <2>2, ChainFirst
  <2> QED BY <2>3 DEF g
<1>6. members' = {(<<n>> \o w)[i] : i \in 1..Len(<<n>> \o w)}
  <2> DEFINE v == <<n>> \o w
  <2>1. w \in Seq(Node) /\ <<n>> \in Seq(Node) /\ Len(<<n>>) = 1 /\ <<n>>[1] = n
    BY Places
  <2>2. /\ Len(v) = Len(<<n>>) + Len(w)
        /\ \A i \in 1..Len(<<n>>) + Len(w) : v[i] = IF i <= Len(<<n>>) THEN <<n>>[i] ELSE w[i - Len(<<n>>)]
    BY <2>1, ConcatProperties
  <2>3. Len(w) \in Nat
    BY Places
  <2> HIDE DEF v
  <2>4. Len(v) = Len(w) + 1 /\ \A i \in 1..Len(w) + 1 : v[i] = IF i <= 1 THEN n ELSE w[i - 1]
    BY <2>1, <2>2, <2>3
  <2>5. ASSUME NEW m \in members' PROVE m \in {v[i] : i \in 1..Len(v)}
    <3>1. CASE m = n
      <4>1. 1 \in 1..Len(v) /\ v[1] = n
        BY <2>3, <2>4
      <4> QED BY <3>1, <4>1
    <3>2. CASE m # n
      <4>1. PICK k \in 1..Len(w) : m = w[k]
        BY <1>1, <2>5, <3>2 DEF Listed
      <4>2. k + 1 \in 1..Len(w) + 1 /\ ~(k + 1 <= 1) /\ (k + 1) - 1 = k
        BY <2>3
      <4>3. k + 1 \in 1..Len(v) /\ v[k + 1] = w[k]
        BY <2>4, <4>2
      <4> QED BY <4>1, <4>3
    <3> QED BY <3>1, <3>2
  <2>6. ASSUME NEW i \in 1..Len(v) PROVE v[i] \in members'
    <3>1. i = 1 \/ i - 1 \in 1..Len(w)
      BY <2>3, <2>4
    <3> QED BY <1>1, <2>3, <2>4, <3>1, Places
  <2> QED BY <2>5, <2>6 DEF v
<1> QED BY <1>2, <1>5, <1>6 DEF Listed

\* kvs_list_add_tail puts it behind.
LEMMA AddTailLists ==
  ASSUME IsFiniteSet(Node), IInv, ~twice, NEW w, Listed(w), NEW n \in Node, AddTail(n)
  PROVE  /\ Listed(Append(w, n))' /\ n \notin members
         /\ next' = [next EXCEPT ![At(w, Len(w))] = n, ![n] = Anchor]
<1> DEFINE p == At(w, Len(w))
<1>1. prev[Anchor] = p /\ p \in InList /\ p \in Cell
  <2>1. Len(w) \in 0..Len(w) /\ Len(w) \in 0..Len(w) + 1
    BY Places
  <2> QED BY <2>1, Places
<1>2. /\ next' = [next EXCEPT ![p] = n, ![n] = Anchor]
      /\ members' = members \cup {n} /\ n \notin alive
  BY <1>1 DEF AddTail, Insert, Between, TailNode
<1>3. n \notin members /\ n # Anchor /\ n \in Cell /\ next \in [Cell -> Cell \cup {Null}] /\ n \notin InList
  BY <1>2, ListAssumption DEF IInv, TypeOK, Cell, InList
<1>4. \A i \in 1..Len(w) : w[i] # n
  BY <1>3, Places
<1>5. next'[p] = n /\ next'[n] = Anchor /\ \A c \in Cell \ {n, p} : next'[c] = next[c]
  BY <1>1, <1>2, <1>3
<1>6. Chain(next', Append(w, n))
  <2>1. Chain(next, w)
    BY DEF Listed
  <2> DEFINE g == next'
             f == next
  <2>2. Chain(f, w) /\ g[p] = n /\ g[n] = Anchor /\ \A c \in Cell \ {n, p} : g[c] = f[c]
    BY <1>5, <2>1
  <2> HIDE DEF g, f
  <2>3. Chain(g, Append(w, n))
    BY <1>4, <2>2, ChainLast
  <2> QED BY <2>3 DEF g
<1>7. members' = {Append(w, n)[i] : i \in 1..Len(Append(w, n))}
  <2> DEFINE v == Append(w, n)
  <2>1. w \in Seq(Node) /\ Len(w) \in Nat
    BY Places
  <2>2. Len(v) = Len(w) + 1 /\ v[Len(w) + 1] = n /\ \A i \in 1..Len(w) : v[i] = w[i]
    BY <2>1
  <2> HIDE DEF v
  <2>3. ASSUME NEW m \in members' PROVE m \in {v[i] : i \in 1..Len(v)}
    <3>1. CASE m = n
      <4>1. Len(w) + 1 \in 1..Len(v)
        BY <2>1, <2>2
      <4> QED BY <2>2, <3>1, <4>1
    <3>2. CASE m # n
      <4>1. PICK k \in 1..Len(w) : m = w[k]
        BY <1>2, <2>3, <3>2 DEF Listed
      <4>2. k \in 1..Len(v)
        BY <2>1, <2>2
      <4> QED BY <2>2, <4>1, <4>2
    <3> QED BY <3>1, <3>2
  <2>4. ASSUME NEW i \in 1..Len(v) PROVE v[i] \in members'
    <3>1. i = Len(w) + 1 \/ i \in 1..Len(w)
      BY <2>1, <2>2
    <3> QED BY <1>2, <2>2, <3>1, Places
  <2> QED BY <2>3, <2>4 DEF v
<1> QED BY <1>2, <1>3, <1>6, <1>7 DEF Listed

\* kvs_list_del takes it out.
LEMMA DelLists ==
  ASSUME IsFiniteSet(Node), IInv, ~twice, NEW w, Listed(w), NEW p \in 1..Len(w), Del(w[p])
  PROVE  /\ Listed(RemoveAt(w, p))'
         /\ next' = [next EXCEPT ![At(w, p - 1)] = At(w, p + 1)]
<1> DEFINE n == w[p]
           a == At(w, p - 1)
           b == At(w, p + 1)
<1>1. w \in Seq(Node) /\ Len(w) \in Nat /\ p \in Nat
  BY Places
<1>2. At(w, p) = n
  BY DEF At
<1>3. next[n] = b /\ prev[n] = a /\ a \in Cell
  <2>1. p \in 0..Len(w) /\ p - 1 \in 0..Len(w) /\ p - 1 \in 0..Len(w) + 1 /\ (p - 1) + 1 = p
    BY <1>1
  <2> QED BY <1>2, <2>1, Places
<1>4. next' = [next EXCEPT ![a] = b] /\ members' = members \ {n}
  BY <1>3 DEF Del, Unlinked
<1>5. next \in [Cell -> Cell \cup {Null}]
  BY DEF IInv, TypeOK
<1>6. Chain(next', RemoveAt(w, p))
  <2>1. Chain(next, w)
    BY DEF Listed
  <2> DEFINE g == next'
             f == next
  <2>2. Chain(f, w) /\ g[a] = b /\ \A c \in Cell \ {a} : g[c] = f[c]
    BY <1>3, <1>4, <1>5, <2>1
  <2> HIDE DEF g, f
  <2>3. Chain(g, RemoveAt(w, p))
    BY <2>2, ChainOut
  <2> QED BY <2>3 DEF g
<1>7. members' = {RemoveAt(w, p)[i] : i \in 1..Len(RemoveAt(w, p))}
  <2> DEFINE v == RemoveAt(w, p)
             l == Len(w)
  <2>1. /\ Len(v) = l - 1
        /\ \A i \in 1..p - 1 : v[i] = w[i]
        /\ \A i \in p..l - 1 : v[i] = w[i + 1]
    BY <1>1, RemoveAtIs
  <2> HIDE DEF v
  <2>2. ASSUME NEW m \in members' PROVE m \in {v[i] : i \in 1..Len(v)}
    <3>1. PICK k \in 1..l : m = w[k]
      BY <1>4, <2>2 DEF Listed
    <3>2. k # p
      BY <1>4, <2>2, <3>1
    <3>3. CASE k < p
      <4>1. k \in 1..p - 1 /\ k \in 1..Len(v)
        BY <1>1, <2>1, <3>3
      <4> QED BY <2>1, <3>1, <4>1
    <3>4. CASE k > p
      <4>1. k - 1 \in p..l - 1 /\ k - 1 \in 1..Len(v) /\ (k - 1) + 1 = k
        BY <1>1, <2>1, <3>4
      <4> QED BY <2>1, <3>1, <4>1
    <3> QED BY <1>1, <3>2, <3>3, <3>4
  <2>3. ASSUME NEW i \in 1..Len(v) PROVE v[i] \in members'
    <3>1. \E k \in 1..l : k # p /\ v[i] = w[k]
      <4>1. CASE i < p
        <5>1. i \in 1..p - 1 /\ i \in 1..l
          BY <1>1, <2>1, <4>1
        <5> QED BY <2>1, <4>1, <5>1
      <4>2. CASE i >= p
        <5>1. i \in p..l - 1 /\ i + 1 \in 1..l /\ i + 1 # p
          BY <1>1, <2>1, <4>2
        <5> QED BY <2>1, <5>1
      <4> QED BY <1>1, <4>1, <4>2
    <3>2. PICK k \in 1..l : k # p /\ v[i] = w[k]
      BY <3>1
    <3>3. w[k] # n /\ w[k] \in members
      BY <3>2, Places DEF Listed, Chain
    <3> QED BY <1>4, <3>2, <3>3
  <2> QED BY <2>2, <2>3 DEF v
<1> QED BY <1>4, <1>6, <1>7 DEF Listed

\* free leaves it alone.
LEMMA FreeLists ==
  ASSUME IsFiniteSet(Node), IInv, ~twice, NEW w, Listed(w), NEW n \in Node, Free(n)
  PROVE  Listed(w)'
<1>1. next' = [next EXCEPT ![n] = Null] /\ members' = members /\ n \notin members
  BY DEF Free, Deleted
<1>2. next \in [Cell -> Cell \cup {Null}]
  BY DEF IInv, TypeOK
<1>3. \A i \in 1..Len(w) : w[i] # n
  BY <1>1, Places
<1> DEFINE g == next'
           f == next
<1>4. Chain(f, w) /\ \A c \in Cell \ {n} : g[c] = f[c]
  BY <1>1, <1>2 DEF Listed
<1> HIDE DEF f, g
<1>5. Chain(g, w)
  BY <1>3, <1>4, ChainAside
<1> QED BY <1>1, <1>5 DEF Listed, g

\* A step of a loop, or of nothing.
LEMMA LoopLists ==
  ASSUME NEW w, Listed(w), next' = next, members' = members
  PROVE  Listed(w)'
BY DEF Listed

-----------------------------------------------------------------------------
(* The list implements the sequence *)

\* The sequence that the pointers stand for, and what a step does to it.
List == IF Sound THEN Walk ELSE <<>>

LEMMA InToSet ==
  ASSUME NEW w, NEW n
  PROVE  n \in ToSet(w) <=> \E i \in 1..Len(w) : w[i] = n
BY DEF ToSet

LEMMA ListIs ==
  ASSUME IsFiniteSet(Node), NEW w
  PROVE  /\ Sound /\ Listed(w) => List = w
         /\ Sound' /\ Listed(w)' => List' = w /\ IsListed'
<1>1. Sound /\ Listed(w) => List = w
  BY ListedIsWalk DEF List
<1>2. Sound' /\ Listed(w)' => List' = w /\ IsListed'
  <2> SUFFICES ASSUME Sound', Listed(w)' PROVE List' = w /\ IsListed'
    OBVIOUS
  <2>1. Walk' = w
    BY ListedIsWalk
  <2> QED BY <2>1 DEF List, IsListed
<1> QED BY <1>1, <1>2

\* Whatever is done to the nodes is one of the four steps of the sequence.
LEMMA NodeImplements ==
  ASSUME IsFiniteSet(Node), IInv, Sound, IsListed, Sound', NEW n \in Node,
         Add(n) \/ AddTail(n) \/ Del(n) \/ Free(n)
  PROVE  /\ IsListed'
         /\ \/ n \notin ToSet(List) /\ List' = <<n>> \o List
            \/ n \notin ToSet(List) /\ List' = Append(List, n)
            \/ \E i \in DOMAIN List : List[i] = n /\ List' = RemoveAt(List, i)
            \/ List' = List
<1>0. PICK w : w = Walk
  OBVIOUS
<1>1. Listed(w) /\ ~twice
  BY <1>0 DEF IsListed, Sound
<1>2. List = w /\ members = {w[i] : i \in 1..Len(w)} /\ DOMAIN w = 1..Len(w)
  BY <1>1, ListIs, Places DEF Listed
<1>3. n \in ToSet(w) <=> n \in members
  BY <1>2, InToSet
<1>4. CASE Add(n)
  <2>1. Listed(<<n>> \o w)' /\ n \notin members
    BY <1>1, <1>4, AddLists
  <2>2. List' = <<n>> \o w /\ IsListed'
    BY <2>1, ListIs
  <2> QED BY <1>2, <1>3, <2>1, <2>2
<1>5. CASE AddTail(n)
  <2>1. Listed(Append(w, n))' /\ n \notin members
    BY <1>1, <1>5, AddTailLists
  <2>2. List' = Append(w, n) /\ IsListed'
    BY <2>1, ListIs
  <2> QED BY <1>2, <1>3, <2>1, <2>2
<1>6. CASE Del(n)
  <2>1. n \in members
    BY <1>6 DEF Del, Sound
  <2>2. PICK p \in 1..Len(w) : n = w[p]
    BY <1>2, <2>1
  <2>3. Listed(RemoveAt(w, p))'
    BY <1>1, <1>6, <2>2, DelLists
  <2>4. List' = RemoveAt(w, p) /\ IsListed'
    BY <2>3, ListIs
  <2> QED BY <1>2, <2>2, <2>4
<1>7. CASE Free(n)
  <2>1. Listed(w)'
    BY <1>1, <1>7, FreeLists
  <2> QED BY <1>2, <2>1, ListIs
<1> QED BY <1>4, <1>5, <1>6, <1>7

\* A loop goes along and leaves the sequence as it is.
LEMMA LoopImplements ==
  ASSUME IsFiniteSet(Node), IInv, Sound, IsListed, Sound', next' = next, members' = members
  PROVE  IsListed' /\ List' = List
<1>0. PICK w : w = Walk
  OBVIOUS
<1>1. Listed(w)
  BY <1>0 DEF IsListed
<1>2. Listed(w)'
  BY <1>1, LoopLists
<1> QED BY <1>1, <1>2, ListIs

LEMMA StepImplements ==
  ASSUME IsFiniteSet(Node), IInv, IsListed, [Next]_vars
  PROVE  IsListed' /\ [Sequence!Next]_<<List, Sound>>
<1>1. CASE UNCHANGED vars
  <2>1. Walk' = Walk /\ UNCHANGED <<ok, twice, next, members>>
    BY <1>1 DEF vars, Walk
  <2> QED BY <2>1 DEF IsListed, List, Sound, Listed
<1>2. CASE Next /\ ~Sound'
  <2>1. IsListed' /\ Sound /\ Sound' = FALSE /\ List' = <<>>
    BY <1>2 DEF IsListed, Sound, List, Next
  <2> QED BY <2>1 DEF Sequence!Next, Sequence!Break, List
<1>3. CASE Next /\ Sound'
  <2>1. Sound /\ Sound' = TRUE /\ Sound = TRUE
    BY <1>3 DEF Next, Sound
  <2>2. ASSUME NEW n \in Node, Add(n) \/ AddTail(n) \/ Del(n) \/ Free(n)
        PROVE  IsListed' /\ [Sequence!Next]_<<List, Sound>>
    <3>1. /\ IsListed'
          /\ \/ n \notin ToSet(List) /\ List' = <<n>> \o List
             \/ n \notin ToSet(List) /\ List' = Append(List, n)
             \/ \E i \in DOMAIN List : List[i] = n /\ List' = RemoveAt(List, i)
             \/ List' = List
      BY <1>3, <2>1, <2>2, NodeImplements
    <3>2. Sequence!AddFirst(n) <=> n \notin ToSet(List) /\ List' = <<n>> \o List
      BY DEF Sequence!AddFirst, Sequence!ToSet, ToSet, List
    <3>3. Sequence!AddLast(n) <=> n \notin ToSet(List) /\ List' = Append(List, n)
      BY DEF Sequence!AddLast, Sequence!ToSet, ToSet, List
    <3>4. Sequence!TakeOut(n) <=> \E i \in DOMAIN List : List[i] = n /\ List' = RemoveAt(List, i)
      BY DEF Sequence!TakeOut, Sequence!RemoveAt, RemoveAt, List
    <3> QED BY <2>1, <3>1, <3>2, <3>3, <3>4 DEF Sequence!Next
  <2>3. ASSUME next' = next, members' = members
        PROVE  IsListed' /\ [Sequence!Next]_<<List, Sound>>
    BY <1>3, <2>1, <2>3, LoopImplements
  <2>4. ASSUME NEW kind \in {"each", "safe"}, Begin(kind)
        PROVE  next' = next /\ members' = members
    BY <2>4 DEF Begin, links
  <2>5. ASSUME NextEach \/ NextSafe \/ Leave
        PROVE  next' = next /\ members' = members
    BY <2>5 DEF NextEach, NextSafe, Leave, links
  <2> QED BY <1>3, <2>2, <2>3, <2>4, <2>5 DEF Next
<1> QED BY <1>1, <1>2, <1>3

THEOREM WalkIsTheList ==
  ASSUME IsFiniteSet(Node)
  PROVE  Spec => []IsListed
<1>1. Init => IsListed
  BY ListBegins DEF IsListed
<1>2. IInv /\ IsListed /\ [Next]_vars => IsListed'
  BY StepImplements
<1> QED BY <1>1, <1>2, Inductive, PTL DEF Spec

\* Adding and deleting nodes is growing a sequence at its ends and taking elements
\* out of it, however many nodes there are (kvs_list.c:4-34).
THEOREM ListImplementsSequence ==
  ASSUME IsFiniteSet(Node)
  PROVE  Spec => ImplementsSequence
<1>1. Init => Sequence!Init
  <2> SUFFICES ASSUME Init PROVE Sequence!Init
    OBVIOUS
  <2>1. Sound = TRUE /\ Walk = <<>>
    BY ListBegins DEF Init, Sound
  <2> QED BY <2>1 DEF Sequence!Init
<1>2. IInv /\ IsListed /\ [Next]_vars => [Sequence!Next]_<<IF Sound THEN Walk ELSE <<>>, Sound>>
  BY StepImplements DEF List
<1> QED BY <1>1, <1>2, Inductive, WalkIsTheList, PTL DEF Spec, ImplementsSequence, Sequence!Spec

-----------------------------------------------------------------------------
(***************************************************************************)
(* The loops over the list.  A loop goes next to the node q; whatever of   *)
(* the list it began with is still to come lies in the list from q on, in  *)
(* order and without a gap.  That no node comes twice in the list keeps    *)
(* the deletion of the node the loop is at from taking out one to come.    *)
(***************************************************************************)

Distinct(s) == \A i, j \in 1..Len(s) : s[i] = s[j] => i = j

\* From place p on, w goes on as s does behind its place v.
From(w, p, s, v) ==
  \A k \in Nat : v + k < Len(s) => p + k <= Len(w) /\ w[p + k] = s[(v + k) + 1]

GoesOn(w, q, s, v) == \E p \in 1..Len(w) + 1 : At(w, p) = q /\ From(w, p, s, v)

LEMMA GoesOnFirst ==
  ASSUME NEW w \in Seq(Node), NEW n \in Node, NEW q, NEW s \in Seq(Node), NEW v \in Nat,
         GoesOn(w, q, s, v)
  PROVE  GoesOn(<<n>> \o w, q, s, v)
<1> DEFINE x == <<n>> \o w
           l == Len(w)
<1>1. Len(x) = l + 1 /\ l \in Nat /\ \A i \in 1..l : x[i + 1] = w[i]
  <2>1. <<n>> \in Seq(Node) /\ Len(<<n>>) = 1
    OBVIOUS
  <2>2. /\ Len(x) = Len(<<n>>) + l
        /\ \A i \in 1..Len(<<n>>) + l : x[i] = IF i <= Len(<<n>>) THEN <<n>>[i] ELSE w[i - Len(<<n>>)]
    BY <2>1, ConcatProperties
  <2>3. l \in Nat
    OBVIOUS
  <2> HIDE DEF x, l
  <2>4. Len(x) = l + 1 /\ \A i \in 1..l + 1 : x[i] = IF i <= 1 THEN <<n>>[i] ELSE w[i - 1]
    BY <2>1, <2>2, <2>3
  <2>5. ASSUME NEW i \in 1..l PROVE x[i + 1] = w[i]
    <3>1. i + 1 \in 1..l + 1 /\ ~(i + 1 <= 1) /\ (i + 1) - 1 = i
      BY <2>3
    <3> QED BY <2>4, <3>1
  <2> QED BY <2>3, <2>4, <2>5
<1>2. PICK p \in 1..l + 1 : At(w, p) = q /\ From(w, p, s, v)
  BY DEF GoesOn
<1>3. Len(s) \in Nat
  OBVIOUS
<1> HIDE DEF x
<1>4. p + 1 \in 1..Len(x) + 1 /\ At(x, p + 1) = q
  <2>1. p \in 1..l <=> p + 1 \in 1..Len(x)
    BY <1>1
  <2>2. p + 1 \in 1..Len(x) + 1
    BY <1>1
  <2> HIDE DEF l
  <2> QED BY <1>1, <1>2, <2>1, <2>2 DEF At, l
<1>5. ASSUME NEW k \in Nat, v + k < Len(s)
      PROVE  (p + 1) + k <= Len(x) /\ x[(p + 1) + k] = s[(v + k) + 1]
  <2>1. p + k <= l /\ w[p + k] = s[(v + k) + 1]
    BY <1>2, <1>5 DEF From
  <2>2. p + k \in 1..l /\ (p + 1) + k = (p + k) + 1
    BY <1>1, <2>1
  <2> QED BY <1>1, <2>1, <2>2
<1> QED BY <1>4, <1>5 DEF GoesOn, From, x

LEMMA GoesOnLast ==
  ASSUME NEW w \in Seq(Node), NEW n \in Node, NEW q, NEW s \in Seq(Node), NEW v \in Nat,
         GoesOn(w, q, s, v), NEW r, r = q \/ (q = Anchor /\ r = n)
  PROVE  GoesOn(Append(w, n), r, s, v)
<1> DEFINE x == Append(w, n)
           l == Len(w)
<1>1. Len(x) = l + 1 /\ l \in Nat /\ x[l + 1] = n /\ \A i \in 1..l : x[i] = w[i]
  OBVIOUS
<1>2. PICK p \in 1..l + 1 : At(w, p) = q /\ From(w, p, s, v)
  BY DEF GoesOn
<1>3. Len(s) \in Nat /\ \A i \in 1..l : w[i] \in Node
  BY ElementOfSeq
<1> HIDE DEF x, l
<1>4. ASSUME NEW k \in Nat, v + k < Len(s)
      PROVE  p + k \in 1..l /\ w[p + k] = s[(v + k) + 1]
  <2>1. p + k <= l /\ w[p + k] = s[(v + k) + 1]
    BY <1>2, <1>4 DEF From, l
  <2> QED BY <1>1, <2>1
<1>5. CASE p \in 1..l
  <2>1. q # Anchor /\ r = q
    BY <1>2, <1>3, <1>5, ListAssumption DEF At, l
  <2>2. p \in 1..Len(x) /\ At(x, p) = q
    BY <1>1, <1>2, <1>5 DEF At, l
  <2>3. From(x, p, s, v)
    BY <1>1, <1>4 DEF From
  <2>4. p \in 1..Len(x) + 1
    BY <1>1
  <2> QED BY <2>1, <2>2, <2>3, <2>4 DEF GoesOn, x
<1>6. CASE p \notin 1..l
  <2>1. p = l + 1 /\ q = Anchor
    BY <1>1, <1>2, <1>6 DEF At, l
  <2>2. ASSUME NEW k \in Nat, v + k < Len(s) PROVE FALSE
    BY <1>1, <1>4, <2>1, <2>2
  <2>3. \A y : From(x, y, s, v)
    BY <2>2 DEF From
  <2>4. CASE r = n
    <3>1. l + 1 \in 1..Len(x) + 1 /\ At(x, l + 1) = n
      BY <1>1 DEF At
    <3> QED BY <2>3, <2>4, <3>1 DEF GoesOn, x
  <2>5. CASE r = q
    <3>1. (l + 1) + 1 \in 1..Len(x) + 1 /\ At(x, (l + 1) + 1) = Anchor
      BY <1>1 DEF At
    <3> QED BY <2>1, <2>3, <2>5, <3>1 DEF GoesOn, x
  <2> QED BY <2>4, <2>5
<1> QED BY <1>5, <1>6

\* A node is taken out that is neither next nor still to come.
LEMMA GoesOnWithout ==
  ASSUME NEW w \in Seq(Node), NEW o \in 1..Len(w), NEW q, NEW s \in Seq(Node), NEW v \in Nat,
         GoesOn(w, q, s, v), q # w[o], \A i \in v + 1..Len(s) : s[i] # w[o]
  PROVE  GoesOn(RemoveAt(w, o), q, s, v)
<1> DEFINE x == RemoveAt(w, o)
           l == Len(w)
<1>1. /\ l \in Nat /\ o \in 1..l /\ Len(x) = l - 1
      /\ \A i \in 1..o - 1 : x[i] = w[i]
      /\ \A i \in o..l - 1 : x[i] = w[i + 1]
  BY RemoveAtIs
<1>2. PICK p \in 1..l + 1 : At(w, p) = q /\ From(w, p, s, v)
  BY DEF GoesOn
<1>3. Len(s) \in Nat
  OBVIOUS
<1> HIDE DEF x, l
<1>4. ASSUME NEW k \in Nat, v + k < Len(s)
      PROVE  p + k \in 1..l /\ w[p + k] = s[(v + k) + 1] /\ p + k # o
  <2>1. p + k <= l /\ w[p + k] = s[(v + k) + 1]
    BY <1>2, <1>4 DEF From, l
  <2>2. (v + k) + 1 \in v + 1..Len(s)
    BY <1>3, <1>4
  <2>3. w[p + k] # w[o]
    BY <2>1, <2>2
  <2>4. p + k \in 1..l
    BY <1>1, <2>1
  <2> QED BY <2>1, <2>3, <2>4
<1>5. p # o
  BY <1>2 DEF At, l
<1>6. CASE p > o
  <2>1. p - 1 \in 1..Len(x) + 1 /\ p - 1 \in Int
    BY <1>1, <1>6
  <2>2. At(x, p - 1) = q
    <3>1. CASE p \in 1..l
      <4>1. p - 1 \in o..l - 1 /\ p - 1 \in 1..Len(x) /\ (p - 1) + 1 = p
        BY <1>1, <1>6, <3>1
      <4> QED BY <1>1, <1>2, <3>1, <4>1 DEF At, l
    <3>2. CASE p \notin 1..l
      <4>1. p - 1 \notin 1..Len(x)
        BY <1>1, <3>2
      <4> QED BY <1>2, <3>2, <4>1 DEF At, l
    <3> QED BY <3>1, <3>2
  <2>3. ASSUME NEW k \in Nat, v + k < Len(s)
        PROVE  (p - 1) + k <= Len(x) /\ x[(p - 1) + k] = s[(v + k) + 1]
    <3>1. p + k \in 1..l /\ w[p + k] = s[(v + k) + 1]
      BY <1>4, <2>3
    <3>2. (p - 1) + k \in o..l - 1 /\ ((p - 1) + k) + 1 = p + k /\ (p - 1) + k <= l - 1
      BY <1>1, <1>6, <3>1
    <3>3. x[(p - 1) + k] = w[p + k]
      BY <1>1, <3>2
    <3> QED BY <1>1, <3>1, <3>2, <3>3
  <2> QED BY <2>1, <2>2, <2>3 DEF GoesOn, From, x
<1>7. CASE p < o
  <2>1. ASSUME NEW k \in Nat, v + k < Len(s) PROVE p + k < o
    <3>1. SUFFICES ASSUME p + k >= o PROVE FALSE
      BY <1>1
    <3>2. o - p \in Nat /\ v + (o - p) < Len(s) /\ p + (o - p) = o
      BY <1>1, <1>3, <1>7, <2>1, <3>1
    <3> QED BY <1>4, <3>2
  <2>2. p \in 1..o - 1 /\ p \in 1..l /\ p \in 1..Len(x)
    BY <1>1, <1>7
  <2>3. At(x, p) = q /\ p \in 1..Len(x) + 1
    <3>1. x[p] = w[p]
      BY <1>1, <2>2
    <3> QED BY <1>1, <1>2, <2>2, <3>1 DEF At, l
  <2>4. ASSUME NEW k \in Nat, v + k < Len(s)
        PROVE  p + k <= Len(x) /\ x[p + k] = s[(v + k) + 1]
    <3>1. p + k \in 1..o - 1 /\ p + k <= Len(x)
      BY <1>1, <2>1, <2>4
    <3>2. x[p + k] = w[p + k]
      BY <1>1, <3>1
    <3> QED BY <1>4, <2>4, <3>1, <3>2
  <2> QED BY <2>3, <2>4 DEF GoesOn, From, x
<1> QED BY <1>1, <1>5, <1>6, <1>7

\* The loop goes to the node that is next.
LEMMA GoesOnNext ==
  ASSUME NEW nx, NEW w, Chain(nx, w), NEW q, NEW s \in Seq(Node), NEW v \in Nat,
         GoesOn(w, q, s, v)
  PROVE  /\ q = Anchor => Len(s) <= v
         /\ q # Anchor => /\ q \in Node /\ (v < Len(s) => s[v + 1] = q)
                          /\ GoesOn(w, nx[q], s, v + 1)
<1> DEFINE l == Len(w)
<1>1. w \in Seq(Node) /\ l \in Nat /\ Len(s) \in Nat /\ \A i \in 1..l : w[i] \in Node /\ w[i] # Anchor
  BY ElementOfSeq, LenProperties, ListAssumption DEF Chain
<1>2. PICK p \in 1..l + 1 : At(w, p) = q /\ From(w, p, s, v)
  BY DEF GoesOn
<1>3. ASSUME v < Len(s) PROVE p \in 1..l /\ w[p] = s[v + 1]
  <2>1. p + 0 <= l /\ w[p + 0] = s[(v + 0) + 1]
    <3>1. 0 \in Nat /\ v + 0 < Len(s)
      BY <1>1, <1>3
    <3> QED BY <1>2, <3>1 DEF From
  <2>2. p + 0 = p /\ (v + 0) + 1 = v + 1
    OBVIOUS
  <2> QED BY <1>1, <2>1, <2>2
<1>4. ASSUME q = Anchor PROVE Len(s) <= v
  <2>1. p \notin 1..l
    BY <1>1, <1>2, <1>4 DEF At
  <2> QED BY <1>1, <1>3, <2>1
<1>5. ASSUME q # Anchor
      PROVE  q \in Node /\ (v < Len(s) => s[v + 1] = q) /\ GoesOn(w, nx[q], s, v + 1)
  <2>1. p \in 1..l /\ q = w[p]
    BY <1>2, <1>5 DEF At
  <2>2. nx[q] = At(w, p + 1) /\ p + 1 \in 1..l + 1
    <3>1. p \in 0..l
      BY <1>1, <2>1
    <3>2. nx[At(w, p)] = At(w, p + 1)
      BY <3>1 DEF Chain
    <3> QED BY <1>1, <1>2, <2>1, <3>2
  <2>3. ASSUME NEW k \in Nat, (v + 1) + k < Len(s)
        PROVE  (p + 1) + k <= l /\ w[(p + 1) + k] = s[((v + 1) + k) + 1]
    <3>1. k + 1 \in Nat /\ v + (k + 1) < Len(s) /\ p + (k + 1) = (p + 1) + k /\ v + (k + 1) = (v + 1) + k
      BY <1>1, <2>3
    <3>2. p + (k + 1) <= l /\ w[p + (k + 1)] = s[(v + (k + 1)) + 1]
      BY <1>2, <3>1 DEF From
    <3> QED BY <3>1, <3>2
  <2>4. From(w, p + 1, s, v + 1)
    BY <2>3 DEF From
  <2>5. GoesOn(w, nx[q], s, v + 1)
    BY <2>2, <2>4 DEF GoesOn
  <2> QED BY <1>1, <1>3, <2>1, <2>5
<1> QED BY <1>4, <1>5

\* Where the loop goes next.
Goto == IF loop = "each" THEN next[cur] ELSE ahead

\* The nodes that the loop was at begin with those it had to be at, or they all do.
Visiting ==
  /\ began \in Seq(Node) /\ visited \in Seq(Node) /\ Distinct(began)
  /\ \A j \in 1..Len(visited) : j <= Len(began) => visited[j] = began[j]
  /\ cur = Anchor => Len(began) <= Len(visited)
  /\ cur # Anchor => Len(visited) > 0 /\ visited[Len(visited)] = cur

Heading(w) == cur # Anchor => GoesOn(w, Goto, began, Len(visited))

IsVisiting == Sound /\ tame /\ loop # "none" => Visiting /\ Heading(Walk)

\* What the body of a loop does to the node that is next.
LEMMA GotoStays ==
  ASSUME IsFiniteSet(Node), IInv, Sound, Sound', tame', loop \in {"each", "safe"}, cur # Anchor,
         NEW w, Listed(w), NEW n \in Node
  PROVE  /\ Add(n) \/ Del(n) \/ Free(n) => Goto' = Goto
         /\ AddTail(n) => Goto' = Goto \/ (Goto = Anchor /\ Goto' = n)
<1>1. ~twice /\ ok /\ next \in [Cell -> Cell \cup {Null}] /\ n \in Cell /\ Anchor \in Cell
  BY DEF Sound, IInv, TypeOK, Cell
<1>2. ASSUME Add(n) \/ Del(n) \/ Free(n) \/ AddTail(n)
      PROVE  UNCHANGED <<loop, cur, ahead>> /\ tame
  BY <1>2 DEF Add, Del, Free, AddTail, Insert, cursor
<1>3. ASSUME tame, loop = "each" PROVE cur \in alive /\ cur \in Cell
  BY <1>1, <1>3 DEF IInv, Placed, AtEach, Usable, TypeOK, Cell
<1>4. ASSUME Add(n) \/ Del(n) \/ Free(n) PROVE Goto' = Goto
  <2>1. CASE loop = "safe"
    BY <1>2, <1>4, <2>1 DEF Goto
  <2>2. CASE loop = "each"
    <3>1. cur \in alive /\ cur \in Cell
      BY <1>2, <1>3, <1>4, <2>2
    <3>2. CASE Add(n)
      <4>1. next' = [next EXCEPT ![Anchor] = n, ![n] = next[Anchor]] /\ n # cur
        BY <3>1, <3>2 DEF Add, Insert, Between
      <4>2. next'[cur] = next[cur]
        BY <1>1, <3>1, <4>1
      <4> QED BY <1>2, <1>4, <2>2, <4>2 DEF Goto
    <3>3. CASE Free(n)
      <4>1. next' = [next EXCEPT ![n] = Null] /\ n # cur
        BY <2>2, <3>3 DEF Free
      <4>2. next'[cur] = next[cur]
        BY <1>1, <3>1, <4>1
      <4> QED BY <1>2, <1>4, <2>2, <4>2 DEF Goto
    <3>4. CASE Del(n)
      <4>1. n = cur /\ n \in members
        BY <2>2, <3>4 DEF Del, Spared, Sound
      <4>2. PICK o \in 1..Len(w) : n = w[o]
        BY <4>1 DEF Listed
      <4>3. next' = [next EXCEPT ![At(w, o - 1)] = At(w, o + 1)]
        BY <1>1, <3>4, <4>2, DelLists
      <4>4. At(w, o - 1) # cur
        <5>1. CASE o - 1 \in 1..Len(w)
          <6>1. w[o - 1] # w[o]
            BY <5>1 DEF Listed, Chain
          <6> QED BY <4>1, <4>2, <5>1, <6>1 DEF At
        <5>2. CASE o - 1 \notin 1..Len(w)
          BY <5>2 DEF At
        <5> QED BY <5>1, <5>2
      <4>5. next'[cur] = next[cur]
        BY <1>1, <3>1, <4>3, <4>4
      <4> QED BY <1>2, <1>4, <2>2, <4>5 DEF Goto
    <3> QED BY <1>4, <3>2, <3>3, <3>4
  <2> QED BY <2>1, <2>2
<1>5. ASSUME AddTail(n) PROVE Goto' = Goto \/ (Goto = Anchor /\ Goto' = n)
  <2>1. CASE loop = "safe"
    BY <1>2, <1>5, <2>1 DEF Goto
  <2>2. CASE loop = "each"
    <3> DEFINE p == At(w, Len(w))
    <3>1. cur \in alive /\ cur \in Cell /\ n # cur
      BY <1>2, <1>3, <1>5, <2>2 DEF AddTail, Insert
    <3>2. next' = [next EXCEPT ![p] = n, ![n] = Anchor]
      BY <1>1, <1>5, AddTailLists
    <3>3. next[p] = Anchor
      <4>1. Len(w) \in 0..Len(w) /\ At(w, Len(w) + 1) = Anchor
        BY <1>1, Places
      <4> QED BY <1>1, <4>1, Places
    <3> HIDE DEF p
    <3>4. next'[cur] = next[cur] \/ (next[cur] = Anchor /\ next'[cur] = n)
      BY <1>1, <3>1, <3>2, <3>3
    <3> QED BY <1>2, <1>5, <2>2, <3>4 DEF Goto
  <2> QED BY <2>1, <2>2
<1> QED BY <1>4, <1>5

\* Whatever the body of a loop adds or takes out, what is still to come does come.
LEMMA BodyVisits ==
  ASSUME IsFiniteSet(Node), IInv, Sound, IsListed, IsVisiting, Sound', tame',
         loop \in {"each", "safe"}, NEW n \in Node,
         Add(n) \/ AddTail(n) \/ Del(n) \/ Free(n)
  PROVE  Visiting' /\ Heading(Walk)'
<1>1. UNCHANGED <<loop, cur, ahead, began, visited>> /\ tame
  BY DEF Add, Del, Free, AddTail, Insert, cursor
<1>2. Visiting /\ Heading(Walk)
  BY <1>1 DEF IsVisiting
<1>3. Visiting'
  BY <1>1, <1>2 DEF Visiting
<1>4. ASSUME cur # Anchor PROVE GoesOn(Walk, Goto, began, Len(visited))'
  <2>1. PICK w : w = Walk
    OBVIOUS
  <2>2. Listed(w) /\ ~twice /\ GoesOn(w, Goto, began, Len(visited))
    BY <1>2, <1>4, <2>1 DEF IsListed, Sound, Heading
  <2>3. w \in Seq(Node) /\ began \in Seq(Node) /\ Len(visited) \in Nat
    BY <1>2, <2>2, Places DEF Visiting
  <2>4. CASE Add(n)
    <3>1. Goto' = Goto
      BY <1>4, <2>2, <2>4, GotoStays
    <3>2. Walk' = <<n>> \o w
      BY <2>2, <2>4, AddLists, ListedIsWalk
    <3>3. GoesOn(<<n>> \o w, Goto, began, Len(visited))
      BY <2>2, <2>3, GoesOnFirst
    <3> QED BY <1>1, <3>1, <3>2, <3>3
  <2>5. CASE AddTail(n)
    <3>1. Goto' = Goto \/ (Goto = Anchor /\ Goto' = n)
      BY <1>4, <2>2, <2>5, GotoStays
    <3>2. Walk' = Append(w, n)
      BY <2>2, <2>5, AddTailLists, ListedIsWalk
    <3>3. GoesOn(Append(w, n), Goto', began, Len(visited))
      BY <2>2, <2>3, <3>1, GoesOnLast
    <3> QED BY <1>1, <3>2, <3>3
  <2>6. CASE Free(n)
    <3>1. Goto' = Goto
      BY <1>4, <2>2, <2>6, GotoStays
    <3>2. Walk' = w
      BY <2>2, <2>6, FreeLists, ListedIsWalk
    <3> QED BY <1>1, <2>2, <3>1, <3>2
  <2>7. CASE Del(n)
    <3>1. Goto' = Goto
      BY <1>4, <2>2, <2>7, GotoStays
    <3>2. n = cur /\ n \in members
      BY <2>7 DEF Del, Spared, Sound
    <3>3. PICK o \in 1..Len(w) : n = w[o]
      BY <2>2, <3>2 DEF Listed
    <3>4. Walk' = RemoveAt(w, o)
      BY <2>2, <2>7, <3>3, DelLists, ListedIsWalk
    <3>5. Goto # w[o]
      <4>1. CASE loop = "each"
        BY <2>2, <3>2, <3>3, <4>1, NextIsAnother DEF Goto, IInv
      <4>2. CASE loop = "safe"
        BY <1>1, <1>4, <3>2, <3>3, <4>2 DEF Goto, IInv, Placed, AtSafe, Sound
      <4> QED BY <4>1, <4>2
    <3>6. \A i \in Len(visited) + 1..Len(began) : began[i] # w[o]
      <4> SUFFICES ASSUME NEW i \in Len(visited) + 1..Len(began) PROVE began[i] # w[o]
        OBVIOUS
      <4>1. Len(visited) > 0 /\ visited[Len(visited)] = w[o]
        BY <1>2, <1>4, <3>2, <3>3 DEF Visiting
      <4>2. Len(visited) \in 1..Len(visited) /\ Len(visited) \in 1..Len(began) /\ i \in 1..Len(began) /\ i # Len(visited)
        BY <2>3, <4>1
      <4>3. began[Len(visited)] = w[o]
        BY <1>2, <4>1, <4>2 DEF Visiting
      <4> QED BY <1>2, <4>2, <4>3 DEF Visiting, Distinct
    <3>7. GoesOn(RemoveAt(w, o), Goto, began, Len(visited))
      BY <2>2, <2>3, <3>5, <3>6, GoesOnWithout
    <3> QED BY <1>1, <3>1, <3>4, <3>7
  <2> QED BY <2>4, <2>5, <2>6, <2>7
<1> QED BY <1>1, <1>3, <1>4 DEF Heading

\* A loop begins at the first node.
LEMMA BeginVisits ==
  ASSUME IsFiniteSet(Node), IInv, Sound, IsListed, NEW kind \in {"each", "safe"}, Begin(kind)
  PROVE  Visiting' /\ Heading(Walk)'
<1>1. PICK w : w = Walk
  OBVIOUS
<1>2. Listed(w) /\ ~twice
  BY <1>1 DEF IsListed, Sound
<1>3. /\ next' = next /\ members' = members /\ loop' = kind /\ cur' = next[Anchor]
      /\ ahead' = IF kind = "safe" THEN next[cur'] ELSE Anchor
      /\ began' = w /\ visited' = Entered(cur')
  BY <1>1 DEF Begin, links
<1>4. Walk' = w
  BY <1>2, <1>3, LoopLists, ListedIsWalk
<1>5. w \in Seq(Node) /\ Len(w) \in Nat /\ Distinct(w) /\ Chain(next, w)
  BY <1>2, Places DEF Listed, Chain, Distinct
<1>6. Goto' = next[cur']
  BY <1>3 DEF Goto
<1>7. GoesOn(w, next[Anchor], w, 0)
  <2>1. next[Anchor] = At(w, 1)
    <3>1. 0 \in 0..Len(w) /\ 0 + 1 = 1 /\ At(w, 0) = Anchor
      BY <1>5 DEF At
    <3>2. next[At(w, 0)] = At(w, 0 + 1)
      BY <1>5, <3>1 DEF Chain
    <3> QED BY <3>1, <3>2
  <2>2. ASSUME NEW k \in Nat, 0 + k < Len(w)
        PROVE  1 + k <= Len(w) /\ w[1 + k] = w[(0 + k) + 1]
    <3>1. 1 + k = (0 + k) + 1 /\ 1 + k <= Len(w)
      BY <1>5, <2>2
    <3> QED BY <3>1
  <2>3. 1 \in 1..Len(w) + 1
    BY <1>5
  <2> QED BY <2>1, <2>2, <2>3 DEF GoesOn, From
<1>8. CASE cur' = Anchor
  <2>1. visited' = <<>> /\ Len(w) <= 0
    BY <1>3, <1>5, <1>7, <1>8, GoesOnNext DEF Entered
  <2>2. Len(visited') = 0 /\ visited' \in Seq(Node)
    BY <2>1
  <2> QED BY <1>3, <1>5, <1>8, <2>1, <2>2 DEF Visiting, Heading
<1>9. CASE cur' # Anchor
  <2>1. /\ visited' = <<cur'>> /\ cur' \in Node /\ (0 < Len(w) => w[0 + 1] = cur')
        /\ GoesOn(w, next[cur'], w, 0 + 1)
    BY <1>3, <1>5, <1>7, <1>9, GoesOnNext DEF Entered
  <2>2. visited' \in Seq(Node) /\ Len(visited') = 1 /\ visited'[1] = cur' /\ 0 + 1 = 1
    BY <2>1
  <2>3. Heading(Walk)'
    BY <1>3, <1>4, <1>6, <2>1, <2>2 DEF Heading
  <2>4. \A j \in 1..Len(visited') : j <= Len(began') => visited'[j] = began'[j]
    BY <1>3, <1>5, <2>1, <2>2
  <2> QED BY <1>3, <1>5, <1>9, <2>2, <2>3, <2>4 DEF Visiting
<1> QED BY <1>8, <1>9

\* It goes on to the node that is next.
LEMMA NextVisits ==
  ASSUME IsFiniteSet(Node), IInv, Sound, IsListed, IsVisiting, Sound', tame',
         NextEach \/ NextSafe
  PROVE  Visiting' /\ Heading(Walk)'
<1>1. PICK w : w = Walk
  OBVIOUS
<1>2. Listed(w) /\ ~twice
  BY <1>1 DEF IsListed, Sound
<1>3. /\ UNCHANGED <<next, members, loop, began, tame>> /\ cur # Anchor /\ loop # "none"
      /\ cur' = Goto /\ visited' = visited \o Entered(cur') /\ Goto' = next[cur']
  BY DEF NextEach, NextSafe, links, Goto, Following, Sound
<1>4. Walk' = w
  BY <1>2, <1>3, LoopLists, ListedIsWalk
<1>5. w \in Seq(Node) /\ Chain(next, w)
  BY <1>2, Places DEF Listed
<1>6. Visiting /\ GoesOn(w, cur', began, Len(visited))
  BY <1>1, <1>3 DEF IsVisiting, Heading
<1>7. began \in Seq(Node) /\ visited \in Seq(Node) /\ Len(visited) \in Nat /\ Len(began) \in Nat
  BY <1>6 DEF Visiting
<1>8. CASE cur' = Anchor
  <2>1. visited' = visited /\ Len(began) <= Len(visited)
    <3>1. Len(began) <= Len(visited)
      BY <1>5, <1>6, <1>7, <1>8, GoesOnNext
    <3>2. visited' = visited \o <<>> /\ visited \o <<>> = visited
      BY <1>3, <1>7, <1>8 DEF Entered
    <3> QED BY <3>1, <3>2
  <2> QED BY <1>3, <1>6, <1>8, <2>1 DEF Visiting, Heading
<1>9. CASE cur' # Anchor
  <2>1. /\ visited' = visited \o <<cur'>> /\ cur' \in Node
        /\ (Len(visited) < Len(began) => began[Len(visited) + 1] = cur')
        /\ GoesOn(w, next[cur'], began, Len(visited) + 1)
    BY <1>3, <1>5, <1>6, <1>7, <1>9, GoesOnNext DEF Entered
  <2>2. /\ visited' \in Seq(Node) /\ Len(visited') = Len(visited) + 1
        /\ visited'[Len(visited) + 1] = cur'
        /\ \A j \in 1..Len(visited) : visited'[j] = visited[j]
    BY <1>7, <2>1
  <2>3. Heading(Walk)'
    BY <1>3, <1>4, <2>1, <2>2 DEF Heading
  <2>4. ASSUME NEW j \in 1..Len(visited'), j <= Len(began) PROVE visited'[j] = began[j]
    <3>1. CASE j \in 1..Len(visited)
      BY <1>6, <2>2, <2>4, <3>1 DEF Visiting
    <3>2. CASE j \notin 1..Len(visited)
      <4>1. j = Len(visited) + 1 /\ Len(visited) < Len(began)
        BY <1>7, <2>2, <2>4, <3>2
      <4> QED BY <2>1, <2>2, <4>1
    <3> QED BY <3>1, <3>2
  <2>5. Len(visited') > 0
    BY <1>7, <2>2
  <2> QED BY <1>3, <1>6, <1>9, <2>2, <2>3, <2>4, <2>5 DEF Visiting
<1> QED BY <1>8, <1>9

LEMMA StepVisits ==
  ASSUME IsFiniteSet(Node), IInv, IsListed, IsVisiting, [Next]_vars
  PROVE  IsVisiting'
<1> SUFFICES ASSUME Sound', tame', loop' # "none" PROVE Visiting' /\ Heading(Walk)'
  BY DEF IsVisiting
<1>1. CASE UNCHANGED vars
  <2>1. Sound /\ tame /\ loop # "none"
    BY <1>1 DEF vars, Sound
  <2>2. Visiting /\ Heading(Walk)
    BY <2>1 DEF IsVisiting
  <2>3. Visiting' /\ Walk' = Walk
    BY <1>1, <2>2 DEF vars, Visiting, Walk
  <2> QED BY <1>1, <2>2, <2>3 DEF vars, Heading, Goto
<1>2. CASE Next
  <2>1. Sound
    BY <1>2 DEF Next, Sound
  <2>2. ASSUME NEW n \in Node, Add(n) \/ AddTail(n) \/ Del(n) \/ Free(n)
        PROVE  Visiting' /\ Heading(Walk)'
    <3>1. loop' = loop
      BY <2>2 DEF Add, Del, Free, AddTail, Insert, cursor
    <3>2. loop \in {"each", "safe"}
      BY <3>1 DEF IInv, TypeOK
    <3> QED BY <2>1, <2>2, <3>2, BodyVisits
  <2>3. ASSUME NEW kind \in {"each", "safe"}, Begin(kind)
        PROVE  Visiting' /\ Heading(Walk)'
    BY <2>1, <2>3, BeginVisits
  <2>4. ASSUME NextEach \/ NextSafe PROVE Visiting' /\ Heading(Walk)'
    BY <2>1, <2>4, NextVisits
  <2>5. ~Leave
    BY DEF Leave
  <2> QED BY <1>2, <2>2, <2>3, <2>4, <2>5 DEF Next
<1> QED BY <1>1, <1>2

LEMMA VisitedAll ==
  ASSUME IsVisiting
  PROVE  VisitsAll
<1> SUFFICES ASSUME tame, ~twice, ok, loop # "none", cur = Anchor PROVE IsPrefix(began, visited)
  BY DEF VisitsAll
<1>1. Visiting
  BY DEF IsVisiting, Sound
<1> DEFINE b == Len(began)
<1>2. began \in Seq(Node) /\ visited \in Seq(Node) /\ b \in Nat /\ b <= Len(visited)
  BY <1>1 DEF Visiting
<1>3. SubSeq(began, 1, b) = SubSeq(visited, 1, b)
  <2>1. SubSeq(began, 1, b) = [i \in 1..b |-> began[i]]
    BY <1>2
  <2>2. SubSeq(visited, 1, b) = [i \in 1..b |-> visited[i]]
    BY <1>2
  <2>3. \A i \in 1..b : visited[i] = began[i]
    BY <1>1, <1>2 DEF Visiting
  <2> QED BY <2>1, <2>2, <2>3
<1> QED BY <1>2, <1>3 DEF IsPrefix

\* A loop is at every node of the list it began with, in order, if its body deletes
\* no other node than the one it is at (kvs_list.h:38-42).
THEOREM LoopsVisitAll ==
  ASSUME IsFiniteSet(Node)
  PROVE  Spec => []VisitsAll
<1>1. Init => IsVisiting
  BY DEF Init, IsVisiting
<1>2. IInv /\ IsListed /\ IsVisiting /\ [Next]_vars => IsVisiting'
  BY StepVisits
<1>3. IsVisiting => VisitsAll
  BY VisitedAll
<1> QED BY <1>1, <1>2, <1>3, Inductive, WalkIsTheList, PTL DEF Spec
==============================================================================
