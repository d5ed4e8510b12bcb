-------------------------- MODULE KvsMinheapProofs --------------------------
(***************************************************************************)
(* What is proved of KvsMinheap for every KVS_MIN_SIZE, every set of       *)
(* priorities and every behaviour of malloc and realloc.                   *)
(***************************************************************************)
EXTENDS KvsMinheap, FiniteSetTheorems, WellFoundedInduction, TLAPS

InOrder(i) == t[Parent(i)] <= t[i]

\* While an item rises, the order is broken at the item only, and its parent
\* could take its place above its children.
UpOrder == \A i \in 1..pos : /\ i # at => InOrder(i)
                             /\ at > 0 /\ Parent(i) = at => t[Parent(at)] <= t[i]

\* While an item sinks, the order is broken at its children only, and any of them
\* could take its place below its parent.
DownOrder == \A i \in Held(pos) \ {0} :
               /\ Parent(i) # at => InOrder(i)
               /\ at > 0 /\ Parent(i) = at => t[Parent(at)] <= t[i]

\* Where the loops are.
Inside == /\ pc = "up" => at <= pos /\ pos < slots
          /\ pc = "down" => at < pos /\ at < slots

Order == /\ HeapOrder
         /\ Sound /\ pc = "up" => UpOrder
         /\ Sound /\ pc = "down" => DownOrder

\* What the code takes for the size of the array is its size.
SizeKnown == ~resized => ok /\ nalloc = slots /\ pos <= slots

IInv == TypeOK /\ (ok => Inside) /\ Order /\ SizeKnown

-----------------------------------------------------------------------------
(* The tree *)

\* A parent comes before its children, which are the four behind Left.
LEMMA ParentIsAbove ==
  ASSUME NEW i \in Nat, i # 0
  PROVE  /\ Parent(i) \in Nat /\ Parent(i) < i
         /\ Left(Parent(i)) <= i /\ i <= Left(Parent(i)) + 3
BY DEF Parent, Left

\* The four behind Left(p) are the children of p.
LEMMA ChildrenHaveParent ==
  ASSUME NEW p \in Nat, NEW c \in Left(p)..Left(p) + 3
  PROVE  c \in Nat /\ c > p /\ c > 0 /\ Parent(c) = p
BY DEF Parent, Left

\* The child that the comparisons by pairs leave is a least one.
LEMMA BestChildIsLeast ==
  ASSUME TypeOK, NEW p \in Nat, Children(p) # {}, \A c \in Children(p) : c < slots
  PROVE  /\ BestChild(p) \in Children(p)
         /\ \A c \in Children(p) : t[BestChild(p)] <= t[c]
<1> DEFINE l == Left(p)
<1>1. l \in Nat /\ pos \in Nat /\ slots \in Nat /\ l < pos
  BY DEF TypeOK, Left, Children
<1>2. \A c \in {l, l + 1, l + 2, l + 3} : c < pos => c \in Children(p) /\ c < slots /\ t[c] \in Int
  <2> SUFFICES ASSUME NEW c \in {l, l + 1, l + 2, l + 3}, c < pos
               PROVE  c \in Children(p) /\ c < slots /\ t[c] \in Int
    OBVIOUS
  <2>1. c \in l..l + 3
    BY <1>1
  <2>2. c \in Children(p)
    BY <2>1 DEF Children
  <2>3. c \in 0..slots - 1
    BY <1>1, <2>1, <2>2
  <2> QED
    BY <2>2, <2>3 DEF TypeOK
<1>3. /\ Lesser(l) \in {l, l + 1} /\ Lesser(l) < pos /\ t[Lesser(l)] <= t[l]
      /\ l + 1 < pos => t[Lesser(l)] <= t[l + 1]
  BY <1>1, <1>2 DEF Lesser
<1>4. l + 2 < pos => /\ Lesser(l + 2) \in {l + 2, l + 3} /\ Lesser(l + 2) < pos
                     /\ t[Lesser(l + 2)] <= t[l + 2]
                     /\ l + 3 < pos => t[Lesser(l + 2)] <= t[l + 3]
  BY <1>1, <1>2 DEF Lesser
<1>5. /\ BestChild(p) \in {l, l + 1, l + 2, l + 3} /\ BestChild(p) < pos
      /\ \A c \in {l, l + 1, l + 2, l + 3} : c < pos => t[BestChild(p)] <= t[c]
  <2>1. CASE l + 2 < pos /\ t[Lesser(l + 2)] < t[Lesser(l)]
    BY <1>1, <1>2, <1>3, <1>4, <2>1 DEF BestChild
  <2>2. CASE ~(l + 2 < pos /\ t[Lesser(l + 2)] < t[Lesser(l)])
    <3>1. BestChild(p) = Lesser(l)
      BY <2>2 DEF BestChild
    <3>2. l + 2 < pos => t[Lesser(l)] <= t[Lesser(l + 2)]
      BY <1>1, <1>2, <1>3, <1>4, <2>2
    <3> QED
      BY <1>1, <1>2, <1>3, <1>4, <3>1, <3>2
  <2> QED
    BY <2>1, <2>2
<1>6. Children(p) \subseteq {l, l + 1, l + 2, l + 3} /\ \A c \in Children(p) : c < pos
  BY <1>1 DEF Children
<1> QED
  BY <1>2, <1>5, <1>6

-----------------------------------------------------------------------------
(* The root *)

\* A set of natural numbers has a least element.
LEMMA LeastNat ==
  ASSUME NEW S \in SUBSET Nat, S # {}
  PROVE  \E m \in S : \A k \in S : m <= k
<1> DEFINE R == OpToRel(<, Nat)
<1>1. IsWellFoundedOn(R, Nat)
  BY NatLessThanWellFounded
<1>2. PICK m \in S : \A k \in S : ~(<<k, m>> \in R)
  <2> HIDE DEF R
  <2> QED
    BY <1>1, WFMin
<1>3. ASSUME NEW k \in S, k < m
      PROVE  <<k, m>> \in R
  BY <1>3 DEF OpToRel
<1> HIDE DEF R
<1>4. \A k \in S : ~(k < m)
  BY <1>2, <1>3
<1> QED
  BY <1>4

\* In a heap no item is less than the root: a first one that is would be less
\* than its parent, which is not.
LEMMA RootIsLeast ==
  ASSUME TypeOK, Sound, pc = "idle", HeapOrder, NEW i \in Held(pos)
  PROVE  t[0] <= t[i]
<1> DEFINE Bad == {j \in Held(pos) : ~(t[0] <= t[j])}
<1>1. \A j \in Held(pos) : j \in Nat /\ j < pos /\ j < slots /\ t[j] \in Int
  BY DEF TypeOK, Held
<1>2. ASSUME Bad # {}
      PROVE  FALSE
  <2>1. PICK m \in Bad : \A k \in Bad : m <= k
    <3>1. Bad \in SUBSET Nat
      BY <1>1
    <3> QED
      BY <1>2, <3>1, LeastNat
  <2>2. m \in Nat /\ m < pos /\ m < slots /\ t[m] \in Int /\ m \in Held(pos)
    BY <1>1
  <2>3. m # 0
    BY <2>1, <2>2
  <2>4. Parent(m) \in Nat /\ Parent(m) < m /\ Parent(m) \in Held(pos)
    BY <2>2, <2>3, ParentIsAbove DEF Held, TypeOK
  <2>5. t[Parent(m)] <= t[m]
    BY <2>2, <2>3 DEF HeapOrder
  <2>6. t[0] <= t[Parent(m)]
    BY <2>1, <2>2, <2>4
  <2>7. t[0] \in Int /\ t[Parent(m)] \in Int
    BY <1>1, <2>2, <2>4 DEF TypeOK
  <2> QED
    BY <2>1, <2>2, <2>5, <2>6, <2>7
<1> QED
  BY <1>2

-----------------------------------------------------------------------------
(* The invariant *)

\* The array stays an array of integers when it is resized.
LEMMA CutType ==
  ASSUME TypeOK, NEW n \in Nat
  PROVE  Cut(t, n) \in [0..n - 1 -> Int]
<1>1. ASSUME NEW i \in 0..n - 1
      PROVE  (IF i < slots THEN t[i] ELSE Junk) \in Int
  BY HeapAssumption DEF TypeOK
<1> QED
  BY <1>1 DEF Cut

LEMMA InitIsGood == Init => IInv
<1> SUFFICES ASSUME Init
             PROVE  IInv
  OBVIOUS
<1>1. t \in [0..slots - 1 -> Int]
  <2>1. 0..slots - 1 = {}
    BY DEF Init
  <2> QED
    BY <2>1 DEF Init
<1>2. TypeOK
  BY <1>1 DEF Init, TypeOK, States
<1>3. Inside /\ SizeKnown
  BY DEF Init, Inside, SizeKnown
<1>4. Order
  BY DEF Init, Order, HeapOrder
<1> QED
  BY <1>2, <1>3, <1>4 DEF IInv

\* What New, AddFails and DelEmpty do, which leave the items where they are.
LEMMA QuietSteps ==
  ASSUME IInv,
         \/ \E fails \in Failures : New(fails)
         \/ \E x \in Prio : AddFails(x)
         \/ DelEmpty
  PROVE  IInv'
<1>1. ASSUME NEW fails \in Failures, New(fails)
      PROVE  IInv'
  <2>1. TypeOK'
    BY <1>1, HeapAssumption DEF IInv, TypeOK, New, Calls, States
  <2>2. Held(pos)' = {}
    BY <1>1 DEF New, Held
  <2> QED
    BY <1>1, <2>1, <2>2
       DEF IInv, TypeOK, New, Calls, Inside, Order, HeapOrder, SizeKnown, Sound
<1>2. ASSUME NEW x \in Prio, AddFails(x)
      PROVE  IInv'
  BY <1>2 DEF IInv, TypeOK, AddFails, Calls, Inside, Order, HeapOrder, SizeKnown, Sound,
              Held, States
<1>3. CASE DelEmpty
  BY <1>3 DEF IInv, TypeOK, DelEmpty, Calls, Inside, Order, HeapOrder, SizeKnown, Sound,
              Held, States
<1> QED
  BY <1>1, <1>2, <1>3

\* A new item lies behind the others, which keep their places.
LEMMA AddStep ==
  ASSUME IInv, NEW x \in Prio, Add(x)
  PROVE  IInv'
<1>1. TypeOK'
  <2>1. nalloc' \in Nat /\ slots' \in Nat
    BY DEF IInv, TypeOK, Add, SlotsIn, SizeofPointer
  <2>2. Cut(t, slots') \in [0..slots' - 1 -> Int]
    BY <2>1, CutType DEF IInv
  <2>3. t' \in [0..slots' - 1 -> Int]
    BY <2>2, HeapAssumption DEF Add
  <2> QED
    BY <2>1, <2>3 DEF IInv, TypeOK, Add, Calls, States
<1>2. ok' => ~Full /\ pos < slots /\ slots' = slots
  <2>1. pos \in Nat /\ nalloc \in Nat /\ slots \in Nat
    BY DEF IInv, TypeOK
  <2>2. CASE Full
    <3>1. slots' = (2 * nalloc) \div 8 /\ pos >= nalloc
      BY <2>2 DEF Add, SlotsIn, SizeofPointer, Full
    <3>2. ~(pos < slots')
      BY <2>1, <3>1
    <3> QED
      BY <3>2 DEF Add
  <2>3. CASE ~Full
    BY <2>3 DEF Add
  <2> QED
    BY <2>2, <2>3
<1>3. ok' => Inside'
  BY <1>2 DEF IInv, TypeOK, Add, Inside
<1>4. Order'
  <2> SUFFICES ASSUME Sound'
               PROVE  UpOrder'
    BY DEF Order, HeapOrder, Add
  <2>1. /\ Sound /\ ~Full /\ pos < slots /\ slots' = slots /\ pos' = pos /\ at' = pos
        /\ t' = [t EXCEPT ![pos] = x]
    <3>1. Cut(t, slots) = t
      BY DEF IInv, TypeOK, Cut
    <3> QED
      BY <1>2, <3>1 DEF Add, Sound, Calls
  <2>2. \A i \in 0..pos - 1 : t'[i] = t[i]
    BY <2>1 DEF IInv, TypeOK
  <2>3. \A i \in 1..pos - 1 : t[Parent(i)] <= t[i]
    BY <2>1 DEF IInv, TypeOK, Order, HeapOrder, Held, Add, Calls
  <2>4. \A i \in 1..pos : Parent(i) \in 0..pos - 1 /\ Parent(i) < i
    BY ParentIsAbove DEF IInv, TypeOK
  <2>5. ASSUME NEW i \in 1..pos
        PROVE  /\ i # pos => t'[Parent(i)] <= t'[i]
               /\ Parent(i) # pos
    BY <2>2, <2>3, <2>4 DEF IInv, TypeOK
  <2> QED
    BY <2>1, <2>5 DEF UpOrder, InOrder
<1>5. SizeKnown'
  <2>1. CASE Full
    BY <2>1 DEF Add, SizeKnown
  <2>2. CASE ~Full
    <3>1. /\ nalloc' = nalloc /\ slots' = slots /\ pos' = pos /\ ok' = (pos < slots)
          /\ resized' = resized
      BY <2>2 DEF Add, IInv, TypeOK
    <3>2. pos < nalloc
      BY <2>2 DEF Full, IInv, TypeOK
    <3> QED
      BY <3>1, <3>2 DEF SizeKnown, IInv, TypeOK
  <2> QED
    BY <2>1, <2>2
<1> QED
  BY <1>1, <1>3, <1>4, <1>5 DEF IInv

\* The item and its parent change places.
LEMMA UpStep ==
  ASSUME IInv, Up
  PROVE  IInv'
<1> DEFINE c == at
           p == Parent(at)
<1>1. /\ c \in Nat /\ c > 0 /\ c <= pos /\ pos < slots
      /\ p \in Nat /\ p < c /\ t[c] < t[p]
      /\ t \in [0..slots - 1 -> Int] /\ pos \in Nat /\ slots \in Nat
      /\ t' = [t EXCEPT ![c] = t[p], ![p] = t[c]] /\ at' = p
      /\ pos' = pos /\ slots' = slots
  BY ParentIsAbove DEF IInv, TypeOK, Inside, Up, Calls, Rises
<1>2. \A i \in 0..slots - 1 : t'[i] = IF i = c THEN t[p] ELSE IF i = p THEN t[c] ELSE t[i]
  BY <1>1
<1>3. TypeOK'
  BY <1>1 DEF IInv, TypeOK, Up
<1>4. Sound' => UpOrder'
  <2> SUFFICES ASSUME Sound, NEW i \in 1..pos
               PROVE  /\ i # p => t'[Parent(i)] <= t'[i]
                      /\ p > 0 /\ Parent(i) = p => t'[Parent(p)] <= t'[i]
    BY <1>1 DEF UpOrder, InOrder, Up, Sound
  <2>1. UpOrder
    BY DEF IInv, Order, Up, Calls
  <2>2. i \in Nat /\ Parent(i) \in Nat /\ Parent(i) < i /\ i < slots /\ i # 0
    BY <1>1, ParentIsAbove
  <2>3. /\ i # c => t[Parent(i)] <= t[i]
        /\ Parent(i) = c => t[p] <= t[i]
    BY <1>1, <2>1 DEF UpOrder, InOrder
  <2>4. p > 0 => /\ Parent(p) \in Nat /\ Parent(p) < p /\ t[Parent(p)] <= t[p]
    <3>1. p > 0 => p \in 1..pos /\ p # at
      BY <1>1
    <3> QED
      BY <1>1, <2>1, <3>1, ParentIsAbove DEF UpOrder, InOrder
  <2>5. t[c] \in Int /\ t[p] \in Int /\ t[i] \in Int /\ t[Parent(i)] \in Int
        /\ (p > 0 => t[Parent(p)] \in Int)
    BY <1>1, <2>2, <2>4
  <2> HIDE DEF c, p
  <2>6. i # p => t'[Parent(i)] <= t'[i]
    <3>1. CASE i = c
      <4>1. t'[i] = t[p] /\ t'[Parent(i)] = t[c]
        BY <1>1, <1>2, <3>1 DEF c, p
      <4> QED
        BY <1>1, <2>5, <4>1
    <3>2. CASE i # c /\ i # p
      <4>1. t'[i] = t[i]
        BY <1>1, <1>2, <2>2, <3>2
      <4>2. t'[Parent(i)] = IF Parent(i) = c THEN t[p] ELSE IF Parent(i) = p THEN t[c] ELSE t[Parent(i)]
        BY <1>1, <1>2, <2>2
      <4> QED
        BY <1>1, <2>3, <2>5, <3>2, <4>1, <4>2
    <3> QED
      BY <3>1, <3>2
  <2>7. p > 0 /\ Parent(i) = p => t'[Parent(p)] <= t'[i]
    <3> SUFFICES ASSUME p > 0, Parent(i) = p
                 PROVE  t'[Parent(p)] <= t'[i]
      OBVIOUS
    <3>1. t'[Parent(p)] = t[Parent(p)]
      BY <1>1, <1>2, <2>4
    <3>2. i # p /\ t'[i] = IF i = c THEN t[p] ELSE t[i]
      BY <1>1, <1>2, <2>2
    <3> QED
      BY <1>1, <2>3, <2>4, <2>5, <3>1, <3>2
  <2> QED
    BY <2>6, <2>7
<1>5. Inside' /\ (Sound' => UpOrder') => IInv'
  BY <1>3 DEF IInv, Order, HeapOrder, SizeKnown, Up, Calls
<1> QED
  BY <1>1, <1>4, <1>5 DEF Inside, Up, Calls

\* The item has found its place.
LEMMA AddEndsStep ==
  ASSUME IInv, AddEnds
  PROVE  IInv'
<1>1. TypeOK' /\ Inside' /\ SizeKnown'
  BY DEF IInv, TypeOK, AddEnds, Calls, States, Inside, SizeKnown
<1>2. Order'
  <2> SUFFICES ASSUME Sound, NEW i \in 1..pos
               PROVE  t[Parent(i)] <= t[i]
    BY DEF IInv, TypeOK, Order, HeapOrder, AddEnds, Sound, Held
  <2>1. UpOrder /\ at <= pos /\ pos < slots
    BY DEF IInv, Order, AddEnds, Calls, Inside
  <2>2. i # at => t[Parent(i)] <= t[i]
    BY <2>1 DEF UpOrder, InOrder
  <2>3. i = at => t[Parent(i)] <= t[i]
    <3> SUFFICES ASSUME i = at
                 PROVE  t[Parent(i)] <= t[i]
      OBVIOUS
    <3>1. i \in 0..slots - 1 /\ Parent(i) \in 0..slots - 1
      BY <2>1, ParentIsAbove DEF IInv, TypeOK
    <3>2. t[i] \in Int /\ t[Parent(i)] \in Int
      BY <3>1 DEF IInv, TypeOK
    <3> QED
      BY <3>1, <3>2 DEF AddEnds, Rises
  <2> QED
    BY <2>2, <2>3
<1> QED
  BY <1>1, <1>2 DEF IInv

\* The root gives way to the last item: the order is broken at the root only.
LEMMA DelStep ==
  ASSUME IInv, Del
  PROVE  IInv'
<1>1. /\ slots \in Nat /\ pos \in Nat /\ nalloc \in Nat /\ pos > 0
      /\ t \in [0..slots - 1 -> Int]
      /\ slots' \in Nat /\ nalloc' \in Nat /\ pos' = pos
  BY DEF IInv, TypeOK, Del, SlotsIn, SizeofPointer
<1>2. \A i \in Nat : Read(i) \in Int /\ (i < slots => Read(i) = t[i])
  <2> SUFFICES ASSUME NEW i \in Nat
               PROVE  Read(i) \in Int /\ (i < slots => Read(i) = t[i])
    OBVIOUS
  <2>1. i < slots => t[i] \in Int
    BY <1>1
  <2> QED
    BY <2>1, HeapAssumption DEF Read
<1>3. t' \in [0..slots' - 1 -> Int]
  <2>1. \A i \in 0..slots' - 1 : Read(IF i = 0 THEN pos - 1 ELSE i) \in Int
    BY <1>1, <1>2
  <2> QED
    BY <2>1 DEF Del, Replaced
<1>4. TypeOK'
  BY <1>1, <1>3 DEF IInv, TypeOK, Del, Calls, States
<1>5. ok' => Inside'
  BY <1>1 DEF Del, Inside
<1>6. SizeKnown'
  <2>1. CASE Shrinks
    BY <2>1 DEF Del, SizeKnown
  <2>2. CASE ~Shrinks
    <3>1. nalloc' = nalloc /\ slots' = slots /\ resized' = resized /\ ok' = (pos <= slots /\ slots > 0)
      BY <2>2 DEF Del, IInv, TypeOK
    <3>2. ~resized => nalloc = slots /\ pos <= slots /\ slots > 0
      BY <1>1 DEF IInv, SizeKnown
    <3> QED
      BY <1>1, <3>1, <3>2 DEF SizeKnown
  <2> QED
    BY <2>1, <2>2
<1>7. Order'
  <2> SUFFICES ASSUME Sound', NEW i \in Nat, i > 0, i < pos, i < slots', Parent(i) # 0
               PROVE  t'[Parent(i)] <= t'[i]
    BY <1>1 DEF Order, HeapOrder, DownOrder, InOrder, Held, Del
  <2>1. pos <= slots /\ Sound /\ pc = "idle"
    BY DEF Del, Sound, Calls
  <2>2. Parent(i) \in Nat /\ Parent(i) < i
    BY ParentIsAbove
  <2>3. t'[i] = t[i] /\ t'[Parent(i)] = t[Parent(i)]
    BY <1>1, <1>2, <2>1, <2>2 DEF Del, Replaced
  <2>4. t[Parent(i)] <= t[i]
    BY <1>1, <2>1 DEF IInv, Order, HeapOrder, Held
  <2> QED
    BY <2>3, <2>4
<1> QED
  BY <1>4, <1>5, <1>6, <1>7 DEF IInv

\* After a failed realloc nothing is promised.
LEMMA DelFailsStep ==
  ASSUME IInv, DelFails
  PROVE  IInv'
<1>1. slots \in Nat /\ pos \in Nat /\ nalloc \in Nat /\ t \in [0..slots - 1 -> Int] /\ pos > 0
  BY DEF IInv, TypeOK, DelFails
<1>2. \A i \in Nat : Read(i) \in Int
  <2> SUFFICES ASSUME NEW i \in Nat
               PROVE  Read(i) \in Int
    OBVIOUS
  <2>1. i < slots => t[i] \in Int
    BY <1>1
  <2> QED
    BY <2>1, HeapAssumption DEF Read
<1>3. t' \in [0..slots - 1 -> Int]
  <2>1. \A i \in 0..slots - 1 : Read(IF i = 0 THEN pos - 1 ELSE i) \in Int
    BY <1>1, <1>2
  <2> QED
    BY <2>1 DEF DelFails, Replaced
<1>4. TypeOK'
  BY <1>1, <1>3 DEF IInv, TypeOK, DelFails
<1> QED
  BY <1>4 DEF IInv, DelFails, Calls, Inside, Order, HeapOrder, SizeKnown, Sound

\* The item and its best child change places.
LEMMA DownStep ==
  ASSUME IInv, Down
  PROVE  IInv'
<1> DEFINE p == at
           c == BestChild(at)
<1>1. /\ p \in Nat /\ pos \in Nat /\ slots \in Nat /\ t \in [0..slots - 1 -> Int]
      /\ p < pos /\ p < slots /\ t[c] < t[p]
      /\ t' = [t EXCEPT ![p] = t[c], ![c] = t[p]] /\ at' = c
      /\ pos' = pos /\ slots' = slots
  BY DEF IInv, TypeOK, Inside, Down, Calls, Sinks
<1>2. c \in Children(p) /\ \A i \in Children(p) : t[c] <= t[i]
  BY <1>1, BestChildIsLeast DEF IInv, Down, InBlock, Sinks
<1>3. c \in Nat /\ c > p /\ c > 0 /\ Parent(c) = p /\ c < pos /\ c < slots
  <2>1. c \in Left(p)..Left(p) + 3 /\ c < pos /\ c < slots
    BY <1>2 DEF Children, Down, InBlock
  <2> HIDE DEF c, p
  <2> QED
    BY <1>1, <2>1, ChildrenHaveParent
<1>4. \A i \in 0..slots - 1 : t'[i] = IF i = c THEN t[p] ELSE IF i = p THEN t[c] ELSE t[i]
  <2> HIDE DEF c, p
  <2> QED
    BY <1>1, <1>3
<1>5. TypeOK'
  <2>1. t' \in [0..slots - 1 -> Int]
    <3> HIDE DEF c, p
    <3> QED
      BY <1>1, <1>3
  <2> QED
    BY <1>1, <1>3, <2>1 DEF IInv, TypeOK, Down
<1>6. Sound' => DownOrder'
  <2> SUFFICES ASSUME Sound, NEW i \in Nat, i > 0, i < pos, i < slots
               PROVE  /\ Parent(i) # c => t'[Parent(i)] <= t'[i]
                      /\ Parent(i) = c => t'[Parent(c)] <= t'[i]
    <3>1. Sound' = Sound /\ Held(pos)' = Held(pos)
      BY <1>1 DEF Down, Sound, Held
    <3>2. \A i \in Held(pos) \ {0} : i \in Nat /\ i > 0 /\ i < pos /\ i < slots
      BY <1>1 DEF Held
    <3> QED
      BY <1>1, <3>1, <3>2 DEF DownOrder, InOrder
  <2>1. DownOrder
    BY DEF IInv, Order, Down, Calls
  <2>2. Parent(i) \in Nat /\ Parent(i) < i /\ i \in Left(Parent(i))..Left(Parent(i)) + 3
    BY ParentIsAbove DEF Left
  <2>3. /\ Parent(i) # p => t[Parent(i)] <= t[i]
        /\ p > 0 /\ Parent(i) = p => t[Parent(p)] <= t[i]
    BY <1>1, <2>1 DEF DownOrder, InOrder, Held
  <2>4. Parent(i) = p => t[c] <= t[i]
    BY <1>2, <2>2 DEF Children
  <2>5. p > 0 => t[Parent(p)] <= t[c]
    <3>1. c \in Held(pos) \ {0}
      BY <1>1, <1>3 DEF Held
    <3> QED
      BY <1>3, <2>1, <3>1 DEF DownOrder
  <2>6. t[c] \in Int /\ t[p] \in Int /\ t[i] \in Int /\ t[Parent(i)] \in Int
    <3> HIDE DEF c, p
    <3> QED
      BY <1>1, <1>3, <2>2
  <2> HIDE DEF c, p
  <2>7. t'[i] = IF i = c THEN t[p] ELSE IF i = p THEN t[c] ELSE t[i]
    BY <1>1, <1>4
  <2>8. t'[Parent(i)] = IF Parent(i) = c THEN t[p] ELSE IF Parent(i) = p THEN t[c] ELSE t[Parent(i)]
    BY <1>1, <1>4, <2>2
  <2>9. Parent(i) # c => t'[Parent(i)] <= t'[i]
    <3>1. CASE i = c
      BY <1>1, <1>3, <2>6, <2>7, <2>8, <3>1
    <3>2. CASE i = p
      BY <1>1, <1>3, <2>2, <2>5, <2>7, <2>8, <3>2
    <3>3. CASE i # c /\ i # p /\ Parent(i) = p
      BY <1>3, <2>4, <2>7, <2>8, <3>3
    <3>4. CASE i # c /\ i # p /\ Parent(i) # p
      BY <2>3, <2>7, <2>8, <3>4
    <3> QED
      BY <3>1, <3>2, <3>3, <3>4
  <2>10. Parent(i) = c => t'[Parent(c)] <= t'[i]
    <3> SUFFICES ASSUME Parent(i) = c
                 PROVE  t'[Parent(c)] <= t'[i]
      OBVIOUS
    <3>1. i # c /\ i # p
      BY <1>1, <1>3, <2>2
    <3>2. t'[Parent(c)] = t[c]
      BY <1>1, <1>3, <1>4
    <3> QED
      BY <1>3, <2>3, <2>7, <3>1, <3>2
  <2> QED
    BY <2>9, <2>10
<1>7. Inside'
  BY <1>1, <1>3 DEF Inside, Down, Calls
<1>8. Order' /\ SizeKnown'
  BY <1>6 DEF IInv, Order, HeapOrder, SizeKnown, Down, Calls
<1> QED
  BY <1>5, <1>7, <1>8 DEF IInv

\* The item has found its place, or a child was cut off.
LEMMA DelEndsStep ==
  ASSUME IInv, DelEnds
  PROVE  IInv'
<1>1. /\ at \in Nat /\ pos \in Nat /\ slots \in Nat /\ t \in [0..slots - 1 -> Int]
      /\ at < pos /\ at < slots /\ t' = t /\ pos' = pos - 1 /\ slots' = slots
  BY DEF IInv, TypeOK, Inside, DelEnds, Calls
<1>2. TypeOK'
  <2>1. InBlock \in BOOLEAN
    BY DEF InBlock
  <2> QED
    BY <1>1, <2>1 DEF IInv, TypeOK, DelEnds, States
<1>3. Inside'
  BY DEF Inside, DelEnds
<1>4. SizeKnown'
  <2>1. ~resized => InBlock
    BY <1>1 DEF IInv, SizeKnown, InBlock, Children, Left
  <2> QED
    BY <1>1, <2>1 DEF IInv, SizeKnown, DelEnds
<1>5. Order'
  <2> SUFFICES ASSUME Sound', NEW i \in Nat, i > 0, i < pos - 1, i < slots
               PROVE  t[Parent(i)] <= t[i]
    BY <1>1 DEF Order, HeapOrder, Held, DelEnds
  <2>1. Sound /\ DownOrder /\ InBlock /\ ~Sinks(at)
    BY DEF IInv, Order, DelEnds, Sound, Calls
  <2>2. CASE Parent(i) # at
    BY <1>1, <2>1, <2>2 DEF DownOrder, InOrder, Held
  <2>3. CASE Parent(i) = at
    <3>1. i \in Children(at)
      BY <1>1, <2>3, ParentIsAbove DEF Children, Left
    <3>2. /\ BestChild(at) \in Children(at)
          /\ t[BestChild(at)] <= t[i]
      BY <1>1, <2>1, <3>1, BestChildIsLeast DEF IInv, InBlock
    <3>3. BestChild(at) \in 0..slots - 1
      <4>1. BestChild(at) \in Left(at)..Left(at) + 3 /\ BestChild(at) < slots
        BY <2>1, <3>2 DEF InBlock, Children
      <4> QED
        BY <1>1, <4>1, ChildrenHaveParent
    <3>4. t[at] <= t[BestChild(at)]
      <4>1. ~(t[BestChild(at)] < t[at])
        BY <2>1, <3>1 DEF Sinks
      <4>2. t[BestChild(at)] \in Int /\ t[at] \in Int
        BY <1>1, <3>3
      <4> QED
        BY <4>1, <4>2
    <3>5. t[BestChild(at)] \in Int /\ t[at] \in Int /\ t[i] \in Int
      BY <1>1, <3>3
    <3> QED
      BY <2>3, <3>2, <3>4, <3>5
  <2> QED
    BY <2>2, <2>3
<1> QED
  BY <1>2, <1>3, <1>4, <1>5 DEF IInv

LEMMA FreeStep ==
  ASSUME IInv, Free
  PROVE  IInv'
<1>1. TypeOK' /\ Inside' /\ Order'
  BY DEF IInv, TypeOK, Free, States, Inside, Order, HeapOrder
<1>2. SizeKnown'
  <2>1. ~resized => (pos <= slots) /\ nalloc = slots
    BY DEF IInv, SizeKnown
  <2>2. resized' = resized /\ nalloc' = nalloc /\ slots' = slots /\ pos' = 0 /\ slots \in Nat
    BY DEF Free, IInv, TypeOK
  <2>3. (pos <= slots) => ok'
    BY DEF Free
  <2> QED
    BY <2>1, <2>2, <2>3 DEF SizeKnown
<1> QED
  BY <1>1, <1>2 DEF IInv

\* Every step keeps the invariant.
LEMMA Keeps ==
  ASSUME IInv, [Next]_vars
  PROVE  IInv'
<1>1. CASE UNCHANGED vars
  BY <1>1 DEF vars, IInv, TypeOK, Inside, Order, HeapOrder, UpOrder, DownOrder, InOrder,
              SizeKnown, Sound, Held
<1>2. CASE Next
  BY <1>2, QuietSteps, AddStep, UpStep, AddEndsStep, DelStep, DelFailsStep, DownStep,
     DelEndsStep, FreeStep DEF Next
<1> QED
  BY <1>1, <1>2

LEMMA Inductive == Spec => []IInv
<1>1. IInv /\ [Next]_vars => IInv'
  BY Keeps
<1> QED
  BY InitIsGood, <1>1, PTL DEF Spec

-----------------------------------------------------------------------------
(* The theorems *)

\* The counters stay natural numbers and the array an array of items, whatever is
\* added and deleted and whatever realloc does.
THEOREM TypeCorrect == Spec => []TypeOK
<1>1. IInv => TypeOK
  BY DEF IInv
<1> QED
  BY <1>1, Inductive, PTL

\* Between two calls no item in the block is less than its parent.
THEOREM OrderIsKept == Spec => []HeapOrder
<1>1. IInv => HeapOrder
  BY DEF IInv, Order
<1> QED
  BY <1>1, Inductive, PTL

\* The array is left only after its size was changed: with KVS_MIN_SIZE items or
\* fewer and no deletion that shrinks it, every access is inside.
THEOREM FaultsAreEarned == Spec => []FaultNeedsResize
<1>1. IInv => FaultNeedsResize
  BY DEF IInv, SizeKnown, FaultNeedsResize
<1> QED
  BY <1>1, Inductive, PTL

\* kvs_minheap_del gives back an item that is not greater than any other.
THEOREM LeastIsTaken == Spec => LeastGoesFirst
<1> DEFINE A == Sound /\ pc = "idle" /\ pc' = "down" => \A i \in Held(pos) : res'.item <= t[i]
<1>1. IInv /\ [Next]_vars => [A]_vars
  <2> SUFFICES ASSUME IInv, Next, Sound, pc = "idle", pc' = "down", NEW i \in Held(pos)
               PROVE  res'.item <= t[i]
    BY DEF A
  <2>1. Del
    BY DEF Next, New, Add, AddFails, Up, AddEnds, DelEmpty, DelFails, Down, DelEnds, Free, Calls
  <2>2. res'.item = t[0]
    BY <2>1 DEF Del, Result, Read, Held, IInv, TypeOK
  <2> QED
    BY <2>2, RootIsLeast DEF IInv, Order
<1> QED
  BY <1>1, Inductive, PTL DEF Spec, LeastGoesFirst

-----------------------------------------------------------------------------
(***************************************************************************)
(* The bag.  The loops exchange two of the items that are counted, and no  *)
(* others: kvs_minheap_del leaves a copy of the item that sinks behind the *)
(* last one, and the item is not less than its copy, so that it does not   *)
(* sink there.                                                             *)
(***************************************************************************)
Count(f, S, y) == Cardinality({i \in S : f[i] = y})

One(u, v) == IF u = v THEN 1 ELSE 0

Copy == Sound /\ pc = "down" /\ pos - 1 < slots => t[pos - 1] = t[at]

Items == Whole => \A i \in Counted : t[i] \in Prio

Seen == Bag(IF Whole THEN Counted ELSE {})

BInv == /\ IInv /\ Copy /\ Items
        /\ torn => resized
        /\ pc = "none" => pos = 0

\* What a call is to the users of the queue.
Step == \/ Seen' = Seen /\ UNCHANGED <<res, resized>>
        \/ \E x \in Prio : Queue!Add(x) \/ Queue!AddFails(x) \/ Queue!Del(x)
        \/ Queue!DelEmpty \/ Queue!Free

\* What a call leaves: the invariant, and a bag if there was one before.
Done == /\ Copy' /\ Items'
        /\ torn' => resized'
        /\ pc' = "none" => pos' = 0
        /\ Whole' => Whole /\ Step

\* An element more, or not.
LEMMA OneMore ==
  ASSUME NEW M, IsFiniteSet(M), NEW a, a \notin M, NEW u, NEW v
  PROVE  LET N == M \cup (IF u = v THEN {a} ELSE {}) IN
         IsFiniteSet(N) /\ Cardinality(N) = Cardinality(M) + One(u, v) /\ Cardinality(M) \in Nat
<1>1. Cardinality(M) \in Nat
  BY FS_CardinalityType
<1>2. CASE u = v
  <2>1. IsFiniteSet(M \cup {a}) /\ Cardinality(M \cup {a}) = Cardinality(M) + 1
    BY FS_AddElement
  <2> QED
    BY <1>1, <1>2, <2>1 DEF One
<1>3. CASE u # v
  <2>1. M \cup {} = M
    OBVIOUS
  <2> QED
    BY <1>1, <1>3, <2>1 DEF One
<1> QED
  BY <1>2, <1>3

\* Two that change places.
LEMMA SwapCounts ==
  ASSUME NEW S, IsFiniteSet(S), NEW i \in S, NEW j \in S, i # j, NEW f, NEW g,
         g[i] = f[j], g[j] = f[i], \A k \in S \ {i, j} : g[k] = f[k], NEW y
  PROVE  Count(g, S, y) = Count(f, S, y)
<1> DEFINE M == {k \in S \ {i, j} : f[k] = y}
           A == M \cup (IF f[i] = y THEN {i} ELSE {})
           B == M \cup (IF f[j] = y THEN {i} ELSE {})
<1>1. IsFiniteSet(M) /\ i \notin M /\ j \notin M
  <2>1. M \in SUBSET S
    OBVIOUS
  <2> QED
    BY <2>1, FS_Subset
<1>2. {k \in S : f[k] = y} = A \cup (IF f[j] = y THEN {j} ELSE {})
  OBVIOUS
<1>3. {k \in S : g[k] = y} = B \cup (IF f[i] = y THEN {j} ELSE {})
  OBVIOUS
<1>4. j \notin A /\ j \notin B
  OBVIOUS
<1> DEFINE P == f[i]
           Q == f[j]
<1>5. IsFiniteSet(A) /\ Cardinality(A) = Cardinality(M) + One(P, y) /\ Cardinality(M) \in Nat
  <2> HIDE DEF M, P
  <2>1. A = M \cup (IF P = y THEN {i} ELSE {})
    BY DEF P
  <2> HIDE DEF A
  <2> QED
    BY <1>1, <2>1, OneMore
<1>6. IsFiniteSet(B) /\ Cardinality(B) = Cardinality(M) + One(Q, y)
  <2> HIDE DEF M, Q
  <2>1. B = M \cup (IF Q = y THEN {i} ELSE {})
    BY DEF Q
  <2> HIDE DEF B
  <2> QED
    BY <1>1, <2>1, OneMore
<1> DEFINE F == {k \in S : f[k] = y}
           G == {k \in S : g[k] = y}
<1>7. Cardinality(F) = Cardinality(A) + One(Q, y)
  <2>1. F = A \cup (IF Q = y THEN {j} ELSE {})
    BY <1>2
  <2> HIDE DEF A, F, Q
  <2> QED
    BY <1>4, <1>5, <2>1, OneMore
<1>8. Cardinality(G) = Cardinality(B) + One(P, y)
  <2>1. G = B \cup (IF P = y THEN {j} ELSE {})
    BY <1>3
  <2> HIDE DEF B, G, P
  <2> QED
    BY <1>4, <1>6, <2>1, OneMore
<1>9. One(P, y) \in Nat /\ One(Q, y) \in Nat
  BY DEF One
<1>10. Count(f, S, y) = Cardinality(F) /\ Count(g, S, y) = Cardinality(G)
  BY DEF Count
<1> HIDE DEF M, A, B, F, G, P, Q
<1> QED
  BY <1>5, <1>6, <1>7, <1>8, <1>9, <1>10

\* One behind the others.
LEMMA OneCounts ==
  ASSUME NEW S, IsFiniteSet(S), NEW a, a \notin S, NEW f, NEW y
  PROVE  Count(f, S \cup {a}, y) = Count(f, S, y) + One(f[a], y) /\ Count(f, S, y) \in Nat
<1> DEFINE M == {k \in S : f[k] = y}
           P == f[a]
           G == {k \in S \cup {a} : f[k] = y}
<1>1. IsFiniteSet(M) /\ a \notin M
  <2>1. M \in SUBSET S
    OBVIOUS
  <2> QED
    BY <2>1, FS_Subset
<1>2. G = M \cup (IF P = y THEN {a} ELSE {})
  OBVIOUS
<1>3. Count(f, S, y) = Cardinality(M) /\ Count(f, S \cup {a}, y) = Cardinality(G)
  BY DEF Count
<1> HIDE DEF M, P, G
<1> DEFINE N == M \cup (IF P = y THEN {a} ELSE {})
<1>4. IsFiniteSet(N) /\ Cardinality(N) = Cardinality(M) + One(P, y) /\ Cardinality(M) \in Nat
  BY <1>1, OneMore
<1> QED
  BY <1>2, <1>3, <1>4 DEF P

\* Where two arrays agree, they hold as many.
LEMMA SameCounts ==
  ASSUME NEW S, NEW f, NEW g, \A k \in S : g[k] = f[k], NEW y
  PROVE  Count(g, S, y) = Count(f, S, y)
<1>1. {k \in S : g[k] = y} = {k \in S : f[k] = y}
  OBVIOUS
<1> QED
  BY <1>1 DEF Count

\* The first is taken away and the last takes its place.
LEMMA DelCounts ==
  ASSUME NEW n \in Nat, n > 0, NEW f, NEW g, n > 1 => g[0] = f[n - 1],
         \A k \in 1..n - 2 : g[k] = f[k], NEW y
  PROVE  /\ Count(f, 0..n - 1, y) = Count(g, 0..n - 2, y) + One(f[0], y)
         /\ Count(g, 0..n - 2, y) \in Nat
<1> DEFINE S == 1..n - 2
<1>1. IsFiniteSet(S) /\ 0 \notin S
  BY FS_Interval
<1>2. CASE n = 1
  <2>1. 0..n - 1 = {} \cup {0} /\ 0..n - 2 = {}
    BY <1>2
  <2> DEFINE E == {}
  <2>2. IsFiniteSet(E) /\ 0 \notin E
    BY FS_EmptySet
  <2>3. Count(f, E, y) = Count(g, E, y)
    BY DEF Count
  <2> HIDE DEF E
  <2>4. Count(f, E \cup {0}, y) = Count(f, E, y) + One(f[0], y) /\ Count(f, E, y) \in Nat
    BY <2>2, OneCounts
  <2> QED
    BY <2>1, <2>3, <2>4 DEF E
<1>3. CASE n > 1
  <2> DEFINE o == 0
             l == n - 1
             U == S \cup {o}
             V == S \cup {l}
  <2>1. 0..n - 2 = U /\ 0..n - 1 = V \cup {o} /\ l \notin S /\ o \notin V /\ o \notin S
    BY <1>3
  <2>2. IsFiniteSet(V)
    BY <1>1, FS_AddElement
  <2>3. g[o] = f[l] /\ o = 0 /\ \A k \in S : g[k] = f[k]
    BY <1>3
  <2> HIDE DEF S, l, o, V, U
  <2>4. Count(g, U, y) = Count(f, S, y) + One(g[o], y) /\ Count(f, S, y) \in Nat
    <3>1. IsFiniteSet(S) /\ o \notin S
      BY <1>1, <2>1
    <3>2. Count(g, S \cup {o}, y) = Count(g, S, y) + One(g[o], y) /\ Count(g, S, y) \in Nat
      BY <3>1, OneCounts
    <3>3. Count(g, S, y) = Count(f, S, y)
      BY <2>3, SameCounts
    <3> QED
      BY <3>2, <3>3 DEF U
  <2>5. Count(f, V, y) = Count(f, S, y) + One(f[l], y)
    <3>1. IsFiniteSet(S) /\ l \notin S
      BY <1>1, <2>1
    <3>2. Count(f, S \cup {l}, y) = Count(f, S, y) + One(f[l], y) /\ Count(f, S, y) \in Nat
      BY <3>1, OneCounts
    <3> QED
      BY <3>2 DEF V
  <2>6. Count(f, V \cup {o}, y) = Count(f, V, y) + One(f[o], y) /\ Count(f, V, y) \in Nat
    <3>1. IsFiniteSet(V) /\ o \notin V
      BY <2>1, <2>2
    <3> QED
      BY <3>1, OneCounts
  <2>7. One(f[l], y) \in Nat
    BY DEF One
  <2>8. Count(g, U, y) = Count(f, V, y) /\ Count(g, U, y) \in Nat
    BY <2>3, <2>4, <2>5, <2>7
  <2> QED
    BY <2>1, <2>3, <2>6, <2>8
<1> QED
  BY <1>2, <1>3

\* The items that are counted, before and after a step.
LEMMA CountedIs ==
  /\ pc = "up" => Counted = 0..pos
  /\ pc = "down" => Counted = 0..pos - 2
  /\ pc \notin {"up", "down"} => Counted = 0..pos - 1
  /\ pc' = "up" => Counted' = 0..pos'
  /\ pc' = "down" => Counted' = 0..pos' - 2
  /\ pc' \notin {"up", "down"} => Counted' = 0..pos' - 1
BY DEF Counted

\* The bag, before and after a step.
LEMMA SeenIs ==
  /\ Whole => Seen = [x \in Prio |-> Count(t, Counted, x)]
  /\ Whole' => Seen' = [x \in Prio |-> Count(t', Counted', x)]
  /\ ~Whole => Seen = Queue!Empty
  /\ ~Whole' => Seen' = Queue!Empty
<1>1. \A f, x : Cardinality({i \in {} : f[i] = x}) = 0
  <2>1. \A f, x : {i \in {} : f[i] = x} = {}
    OBVIOUS
  <2> QED
    BY <2>1, FS_EmptySet
<1> QED
  BY <1>1 DEF Seen, Bag, Count, Queue!Empty

\* Nothing is in an empty array.
LEMMA NothingCounts ==
  ASSUME NEW f, NEW n \in Nat, n = 0, NEW x
  PROVE  Count(f, 0..n - 1, x) = 0
<1>1. {i \in 0..n - 1 : f[i] = x} = {}
  OBVIOUS
<1> QED
  BY <1>1, FS_EmptySet DEF Count

\* A bag that is no bag any more is one whose array changed its size.
NeverCut == ~resized => Whole

LEMMA NeverResized ==
  ASSUME BInv
  PROVE  NeverCut
<1> SUFFICES ASSUME ~resized
             PROVE  Whole
  BY DEF NeverCut
<1>1. /\ ok /\ nalloc = slots /\ pos <= slots /\ pos \in Nat /\ slots \in Nat /\ ~torn
      /\ pc = "up" => pos < slots
  BY DEF BInv, IInv, SizeKnown, Inside, TypeOK
<1>2. \A i \in Counted : i < slots
  BY <1>1, CountedIs
<1> QED
  BY <1>1, <1>2 DEF Whole, Sound

\* There is no array before the first call.
LEMMA NewIsDone ==
  ASSUME BInv, NEW fails \in Failures, New(fails)
  PROVE  Done
<1>1. /\ pc = "none" /\ pc' = "idle" /\ pos = 0 /\ pos' = 0 /\ ok' = ok /\ torn' = torn
      /\ res' = res /\ resized' = resized
  BY DEF BInv, New, Calls
<1>2. Counted = 0..pos - 1 /\ Counted' = 0..pos' - 1
  BY <1>1, CountedIs
<1>3. Counted = {} /\ Counted' = {}
  BY <1>1, <1>2
<1>4. Whole' => Whole /\ Seen' = Seen
  <2>1. Whole' => Whole
    BY <1>1, <1>3 DEF Whole, Sound
  <2>2. ASSUME NEW x
        PROVE  Count(t', Counted', x) = Count(t, Counted, x)
    BY <1>1, <1>2, NothingCounts
  <2> QED
    BY <2>1, <2>2, SeenIs
<1>5. Copy' /\ Items'
  BY <1>1, <1>3 DEF Copy, Items
<1> QED
  BY <1>1, <1>4, <1>5 DEF Done, Step, BInv

\* An item that is refused.
LEMMA AddFailsIsDone ==
  ASSUME BInv, NEW x \in Prio, AddFails(x)
  PROVE  Done
<1>1. /\ pc = "idle" /\ pc' = "idle" /\ pos' = pos /\ ok' = ok /\ torn' = torn /\ slots' = slots /\ t' = t
      /\ res' = Result("add", -1, x) /\ resized'
  BY DEF AddFails, Calls
<1>2. Counted' = Counted
  BY <1>1, CountedIs
<1>3. Whole' = Whole /\ Seen' = Seen
  BY <1>1, <1>2 DEF Whole, Sound, Seen, Bag
<1>4. Copy' /\ Items'
  BY <1>1, <1>2, <1>3 DEF Copy, Items, BInv
<1>5. Whole' => Queue!AddFails(x)
  BY <1>1, <1>3 DEF Queue!AddFails, Seen, Queue!Result, Result
<1> QED
  BY <1>1, <1>3, <1>4, <1>5 DEF Done, Step

\* Nothing to take.
LEMMA DelEmptyIsDone ==
  ASSUME BInv, DelEmpty
  PROVE  Done
<1>1. /\ pc = "idle" /\ pc' = "idle" /\ pos' = pos /\ ok' = ok /\ torn' = torn /\ slots' = slots /\ t' = t
      /\ res' = Result("del", -1, NoItem) /\ resized' = resized /\ pos = 0 /\ pos \in Nat
  BY DEF DelEmpty, Calls, BInv, IInv, TypeOK
<1>2. Counted' = Counted /\ Counted = 0..pos - 1
  BY <1>1, CountedIs
<1>3. Whole' = Whole /\ Seen' = Seen
  BY <1>1, <1>2 DEF Whole, Sound, Seen, Bag
<1>4. Copy' /\ Items'
  BY <1>1, <1>2, <1>3 DEF Copy, Items, BInv
<1>5. Whole => Seen = Queue!Empty
  <2>1. \A x \in Prio : Count(t, Counted, x) = 0
    BY <1>1, <1>2, NothingCounts
  <2> QED
    BY <2>1, SeenIs DEF Queue!Empty
<1>6. Whole' => Queue!DelEmpty
  BY <1>1, <1>3, <1>5 DEF Queue!DelEmpty, Seen, Queue!Result, Result, Queue!NoItem, NoItem
<1> QED
  BY <1>1, <1>3, <1>4, <1>6 DEF Done, Step, BInv

\* All items are given back.
LEMMA FreeIsDone ==
  ASSUME BInv, Free
  PROVE  Done
<1>1. /\ pc = "idle" /\ pc' = "freed" /\ pos' = 0 /\ ok' = (pos <= slots) /\ torn' = torn /\ ok
      /\ res' = Result("free", 0, NoItem) /\ resized' = resized /\ pos \in Nat /\ slots \in Nat
  BY DEF Free, Calls, BInv, IInv, TypeOK
<1>2. Counted = 0..pos - 1 /\ Counted' = 0..pos' - 1
  BY <1>1, CountedIs
<1>3. Whole' => Whole
  <2>1. Whole' => pos <= slots /\ ~torn
    BY <1>1 DEF Whole, Sound
  <2>2. pos <= slots => \A i \in Counted : i < slots
    BY <1>1, <1>2
  <2> QED
    BY <1>1, <2>1, <2>2 DEF Whole, Sound
<1>4. Copy' /\ Items'
  BY <1>1, <1>2 DEF Copy, Items
<1>5. Whole' => Seen' = Queue!Empty
  <2>1. \A x \in Prio : Count(t', Counted', x) = 0
    BY <1>1, <1>2, NothingCounts
  <2> QED
    BY <2>1, SeenIs DEF Queue!Empty
<1>6. Whole' => Queue!Free
  BY <1>1, <1>5 DEF Queue!Free, Seen, Queue!Result, Result, Queue!NoItem, NoItem
<1> QED
  BY <1>1, <1>3, <1>4, <1>6 DEF Done, Step, BInv

\* What was left half done.
LEMMA DelFailsIsDone ==
  ASSUME BInv, DelFails
  PROVE  Done
<1>1. pc' = "idle" /\ torn' /\ resized'
  BY DEF DelFails, Calls
<1>2. ~Whole'
  BY <1>1 DEF Whole, Sound
<1> QED
  BY <1>1, <1>2 DEF Done, Copy, Items

\* The item that rose is counted with the others from now on as before.
LEMMA AddEndsIsDone ==
  ASSUME BInv, AddEnds
  PROVE  Done
<1>1. /\ pc = "up" /\ pc' = "idle" /\ pos' = pos + 1 /\ pos \in Nat /\ ok' = ok /\ torn' = torn
      /\ slots' = slots /\ t' = t /\ res' = res /\ resized' = resized
  BY DEF AddEnds, Calls, BInv, IInv, TypeOK
<1>2. Counted' = Counted
  <2>1. Counted = 0..pos /\ Counted' = 0..pos' - 1
    BY <1>1, CountedIs
  <2> QED
    BY <1>1, <2>1
<1>3. Whole' = Whole /\ Seen' = Seen
  BY <1>1, <1>2 DEF Whole, Sound, Seen, Bag
<1>4. Copy' /\ Items'
  BY <1>1, <1>2, <1>3 DEF Copy, Items, BInv
<1> QED
  BY <1>1, <1>3, <1>4 DEF Done, Step, BInv

\* The copy behind the last item is given up.
LEMMA DelEndsIsDone ==
  ASSUME BInv, DelEnds
  PROVE  Done
<1>1. /\ pc = "down" /\ pc' = "idle" /\ pos' = pos - 1 /\ pos \in Nat /\ ok /\ torn' = torn
      /\ slots' = slots /\ t' = t /\ res' = res /\ resized' = resized
  BY DEF DelEnds, Calls, BInv, IInv, TypeOK
<1>2. Counted' = Counted
  <2>1. Counted = 0..pos - 2 /\ Counted' = 0..pos' - 1
    BY <1>1, CountedIs
  <2> QED
    BY <1>1, <2>1
<1>3. Whole' => Whole /\ Seen' = Seen
  BY <1>1, <1>2 DEF Whole, Sound, Seen, Bag
<1>4. Copy' /\ Items'
  BY <1>1, <1>2, <1>3 DEF Copy, Items, BInv
<1> QED
  BY <1>1, <1>3, <1>4 DEF Done, Step, BInv

\* The exchanges of the loops leave the bag.
LEMMA ExchangeKeepsBag ==
  ASSUME BInv, NEW i \in Counted, NEW j \in Counted, i # j,
         t' = [t EXCEPT ![i] = t[j], ![j] = t[i]], slots' = slots, Whole, Counted' = Counted,
         ok' = ok, torn' = torn
  PROVE  Whole' /\ Seen' = Seen /\ Items'
<1>1. pos \in Nat /\ slots \in Nat /\ t \in [0..slots - 1 -> Int] /\ \A k \in Counted : k < slots
  BY DEF BInv, IInv, TypeOK, Whole
<1>2. IsFiniteSet(Counted) /\ \A k \in Counted : k \in 0..slots - 1
  <2>1. Counted \in {0..pos, 0..pos - 2, 0..pos - 1}
    BY DEF Counted
  <2>2. IsFiniteSet(0..pos) /\ IsFiniteSet(0..pos - 2) /\ IsFiniteSet(0..pos - 1)
    BY <1>1, FS_Interval
  <2> QED
    BY <1>1, <2>1, <2>2
<1>3. t'[i] = t[j] /\ t'[j] = t[i] /\ \A k \in Counted \ {i, j} : t'[k] = t[k]
  BY <1>1, <1>2
<1>4. Whole'
  BY DEF Whole, Sound
<1>5. Seen' = Seen
  <2>1. ASSUME NEW x \in Prio
        PROVE  Count(t', Counted, x) = Count(t, Counted, x)
    <3> DEFINE S == Counted
               f == t
               g == t'
    <3>1. /\ IsFiniteSet(S) /\ i \in S /\ j \in S /\ i # j
          /\ g[i] = f[j] /\ g[j] = f[i] /\ \A k \in S \ {i, j} : g[k] = f[k]
      BY <1>2, <1>3
    <3> HIDE DEF S, f, g
    <3>2. Count(g, S, x) = Count(f, S, x)
      BY <3>1, SwapCounts
    <3> QED
      BY <3>2 DEF S, f, g
  <2> QED
    BY <1>4, <2>1, SeenIs
<1>6. Items'
  BY <1>3, <1>4 DEF Items, BInv
<1> QED
  BY <1>4, <1>5, <1>6

\* An item rises.
LEMMA UpIsDone ==
  ASSUME BInv, Up
  PROVE  Done
<1> DEFINE p == Parent(at)
<1>1. /\ pc = "up" /\ pc' = "up" /\ pos' = pos /\ pos \in Nat /\ ok' = ok /\ torn' = torn
      /\ slots' = slots /\ res' = res /\ resized' = resized
      /\ t' = [t EXCEPT ![at] = t[p], ![p] = t[at]] /\ at > 0 /\ at \in Nat /\ at <= pos /\ pos < slots
      /\ slots \in Nat
  BY DEF Up, Calls, Rises, BInv, IInv, TypeOK, Inside
<1>2. p \in Nat /\ p < at
  BY <1>1, ParentIsAbove
<1> HIDE DEF p
<1>3. Counted' = Counted /\ Counted = 0..pos
  BY <1>1, CountedIs
<1>4. at \in Counted /\ p \in Counted /\ at # p
  BY <1>1, <1>2, <1>3
<1>5. Whole' => Whole
  BY <1>1, <1>3 DEF Whole, Sound
<1>6. Whole => Whole' /\ Seen' = Seen /\ Items'
  BY <1>1, <1>3, <1>4, ExchangeKeepsBag
<1>7. Copy' /\ Items'
  BY <1>1, <1>5, <1>6 DEF Copy, Items
<1> QED
  BY <1>1, <1>5, <1>6, <1>7 DEF Done, Step, BInv

\* An item sinks, but not to the slot of its copy.
LEMMA DownIsDone ==
  ASSUME BInv, Down
  PROVE  Done
<1> DEFINE p == at
           c == BestChild(at)
<1>1. /\ pc = "down" /\ pc' = "down" /\ pos' = pos /\ pos \in Nat /\ ok' = ok /\ torn' = torn
      /\ slots' = slots /\ res' = res /\ resized' = resized /\ t \in [0..slots - 1 -> Int]
      /\ t' = [t EXCEPT ![p] = t[c], ![c] = t[p]] /\ at' = c /\ p \in Nat /\ slots \in Nat
      /\ t[c] < t[p] /\ p < slots
  BY DEF Down, Calls, Sinks, BInv, IInv, TypeOK, Inside
<1>2. c \in Nat /\ c > p /\ c < pos /\ c < slots
  <2>1. c \in Children(p)
    BY <1>1, BestChildIsLeast DEF BInv, IInv, Down, InBlock, Sinks
  <2>2. c \in Left(p)..Left(p) + 3 /\ c < pos /\ c < slots
    BY <2>1 DEF Children, Down, InBlock
  <2> HIDE DEF c, p
  <2> QED
    BY <1>1, <2>2, ChildrenHaveParent
<1>3. Sound /\ pos - 1 < slots => t[pos - 1] = t[p]
  BY <1>1 DEF BInv, Copy
<1> HIDE DEF p, c
<1>4. Sound => c # pos - 1
  <2>1. t[c] \in Int /\ t[p] \in Int
    BY <1>1, <1>2
  <2> QED
    BY <1>1, <1>2, <1>3, <2>1
<1>5. Counted' = Counted /\ Counted = 0..pos - 2
  BY <1>1, CountedIs
<1>6. Sound => c \in Counted /\ p \in Counted /\ p # c
  BY <1>1, <1>2, <1>4, <1>5
<1>7. Whole' => Whole
  BY <1>1, <1>5 DEF Whole, Sound
<1>8. Whole => Whole' /\ Seen' = Seen /\ Items'
  <2> SUFFICES ASSUME Whole
               PROVE  Whole' /\ Seen' = Seen /\ Items'
    OBVIOUS
  <2>1. c \in Counted /\ p \in Counted /\ p # c
    BY <1>6 DEF Whole
  <2> QED
    BY <1>1, <1>5, <2>1, ExchangeKeepsBag
<1>9. Copy'
  <2> SUFFICES ASSUME Sound, pos - 1 < slots
               PROVE  t'[pos - 1] = t'[c]
    BY <1>1 DEF Copy, Sound
  <2>1. pos - 1 \in 0..slots - 1 /\ pos - 1 # p /\ pos - 1 # c /\ c \in 0..slots - 1
    BY <1>1, <1>2, <1>4
  <2>2. t'[pos - 1] = t[pos - 1] /\ t'[c] = t[p]
    BY <1>1, <2>1
  <2> QED
    BY <1>3, <2>2
<1>10. Items'
  BY <1>7, <1>8 DEF Items
<1> QED
  BY <1>1, <1>7, <1>8, <1>9, <1>10 DEF Done, Step, BInv

\* An item more.
LEMMA AddIsDone ==
  ASSUME BInv, NEW x \in Prio, Add(x)
  PROVE  Done
<1>1. /\ pc = "idle" /\ pc' = "up" /\ pos' = pos /\ ok /\ torn' = torn /\ ok' = (pos < slots')
      /\ res' = Result("add", 0, x) /\ pos \in Nat /\ nalloc \in Nat /\ slots \in Nat
      /\ t \in [0..slots - 1 -> Int] /\ (resized => resized')
  BY DEF Add, Calls, BInv, IInv, TypeOK
<1>2. Counted = 0..pos - 1 /\ Counted' = 0..pos
  BY <1>1, CountedIs
<1>3. ok' => pos < slots /\ slots' = slots /\ t' = [t EXCEPT ![pos] = x]
  <2>1. CASE Full
    <3>1. slots' = (2 * nalloc) \div 8 /\ pos >= nalloc
      BY <2>1 DEF Add, SlotsIn, SizeofPointer, Full
    <3>2. ~(pos < slots')
      BY <1>1, <3>1
    <3> QED
      BY <1>1, <3>2
  <2>2. CASE ~Full
    <3>1. slots' = slots
      BY <2>2 DEF Add
    <3>2. Cut(t, slots) = t
      BY <1>1 DEF Cut
    <3> QED
      BY <1>1, <3>1, <3>2 DEF Add
  <2> QED
    BY <2>1, <2>2
<1>4. Whole' => Whole /\ ok' /\ Sound
  <2>1. Whole' => ok' /\ ~torn
    BY <1>1 DEF Whole, Sound
  <2>2. ok' => \A i \in Counted : i < slots
    BY <1>1, <1>2, <1>3
  <2> QED
    BY <1>1, <2>1, <2>2 DEF Whole, Sound
<1>5. ok' => t'[pos] = x /\ \A i \in Counted : t'[i] = t[i]
  BY <1>1, <1>2, <1>3
<1>6. Counted' = Counted \cup {pos} /\ pos \notin Counted /\ IsFiniteSet(Counted)
  <2>1. IsFiniteSet(0..pos - 1)
    BY <1>1, FS_Interval
  <2> QED
    BY <1>1, <1>2, <2>1
<1>7. Items'
  BY <1>4, <1>5, <1>6 DEF Items, BInv
<1>8. Whole' => Queue!Add(x)
  <2> SUFFICES ASSUME Whole'
               PROVE  Queue!Add(x)
    OBVIOUS
  <2>1. Whole /\ ok'
    BY <1>4
  <2>2. ASSUME NEW y \in Prio
        PROVE  /\ Count(t', Counted', y) = Count(t, Counted, y) + One(x, y)
               /\ Count(t, Counted, y) \in Nat
    <3> DEFINE S == Counted
               f == t
               g == t'
    <3>1. IsFiniteSet(S) /\ pos \notin S /\ Counted' = S \cup {pos} /\ g[pos] = x
      BY <1>5, <1>6, <2>1
    <3>2. \A i \in S : g[i] = f[i]
      BY <1>5, <2>1
    <3> HIDE DEF S, f, g
    <3>3. Count(g, S \cup {pos}, y) = Count(g, S, y) + One(g[pos], y) /\ Count(g, S, y) \in Nat
      BY <3>1, OneCounts
    <3>4. Count(g, S, y) = Count(f, S, y)
      BY <3>2, SameCounts
    <3> QED
      BY <3>1, <3>3, <3>4 DEF S, f, g
  <2>3. Seen = [y \in Prio |-> Count(t, Counted, y)] /\ Seen' = [y \in Prio |-> Count(t', Counted', y)]
    BY <2>1, SeenIs
  <2>4. Seen' = [Seen EXCEPT ![x] = @ + 1]
    <3>1. \A y \in Prio : Count(t', Counted', y) = IF y = x THEN Count(t, Counted, y) + 1 ELSE Count(t, Counted, y)
      BY <2>2 DEF One
    <3> QED
      BY <2>3, <3>1
  <2> QED
    BY <1>1, <2>4 DEF Queue!Add, Seen, Queue!Result, Result
<1>9. Copy'
  BY <1>1 DEF Copy
<1> QED
  BY <1>1, <1>4, <1>7, <1>8, <1>9 DEF Done, Step, BInv

\* The least item is taken.
LEMMA DelIsDone ==
  ASSUME BInv, Del
  PROVE  Done
<1>1. /\ pc = "idle" /\ pc' = "down" /\ pos' = pos /\ ok /\ torn' = torn /\ pos > 0 /\ at' = 0
      /\ res' = Result("del", 0, Read(0))
      /\ pos \in Nat /\ slots \in Nat /\ slots' \in Nat /\ (resized => resized')
      /\ t \in [0..slots - 1 -> Int]
  BY DEF Del, Calls, BInv, IInv, TypeOK, SlotsIn, SizeofPointer
<1>11. ok' => pos <= slots /\ slots' > 0
  BY DEF Del
<1> DEFINE n == slots'
<1>13. pos \in Nat /\ pos > 0 /\ n \in Nat /\ n = slots' /\ (ok' => n > 0)
  BY <1>1, <1>11
<1>12. t' = Replaced(n)
  BY DEF Del
<1>14. n \in Nat
  BY <1>1
<1>15. pos \in Nat /\ pos > 0
  BY <1>1
<1> HIDE DEF n
<1>16. \A k \in Int : 0 <= k /\ k < n => k \in 0..n - 1
  BY <1>14
<1>2. Counted = 0..pos - 1 /\ Counted' = 0..pos - 2
  BY <1>1, CountedIs
<1>3. Whole' => Whole /\ ok'
  <2>1. Whole' => ok' /\ ~torn
    BY <1>1 DEF Whole, Sound
  <2>2. ok' => \A i \in Counted : i < slots
    BY <1>1, <1>2, <1>11
  <2> QED
    BY <1>1, <2>1, <2>2 DEF Whole, Sound
<1>4. ok' => \A i \in 0..n - 1 : i < pos => t'[i] = t[IF i = 0 THEN pos - 1 ELSE i]
  <2> SUFFICES ASSUME ok', NEW i \in 0..n - 1, i < pos
               PROVE  t'[i] = t[IF i = 0 THEN pos - 1 ELSE i]
    OBVIOUS
  <2> DEFINE j == IF i = 0 THEN pos - 1 ELSE i
  <2>1. t'[i] = Read(j)
    BY <1>12 DEF Replaced
  <2>2. j < slots
    BY <1>1, <1>11
  <2> QED
    BY <2>1, <2>2 DEF Read
<1>5. Copy'
  <2> SUFFICES ASSUME ok', pos - 1 < n
               PROVE  t'[pos - 1] = t'[0]
    BY <1>1, <1>13 DEF Copy, Sound
  <2>1. t'[0] = t[pos - 1]
    <3>2. 0 < n
      <4>1. ok'
        OBVIOUS
      <4> QED
        BY <4>1, <1>11 DEF n
    <3>1. 0 \in 0..n - 1
      BY <1>16, <3>2
    <3>3. 0 < pos
      BY <1>15
    <3> QED
      BY <1>4, <3>1, <3>3
  <2>2. pos - 1 # 0 => t'[pos - 1] = t[pos - 1]
    <3>2. pos - 1 \in Int /\ 0 <= pos - 1
      BY <1>15
    <3>3. pos - 1 < pos
      BY <1>15
    <3>1. pos - 1 \in 0..n - 1
      BY <1>16, <3>2
    <3> QED
      BY <1>4, <3>1, <3>3
  <2> QED
    BY <2>1, <2>2
<1>6. Whole' => /\ pos > 1 => t'[0] = t[pos - 1]
                /\ \A i \in 1..pos - 2 : t'[i] = t[i]
  <2> SUFFICES ASSUME Whole'
               PROVE  /\ pos > 1 => t'[0] = t[pos - 1]
                      /\ \A i \in 1..pos - 2 : t'[i] = t[i]
    OBVIOUS
  <2>1. ok' /\ \A i \in 0..pos - 2 : i < n
    BY <1>2, <1>3, <1>13 DEF Whole
  <2>2. ASSUME NEW i \in 0..pos - 2
        PROVE  i \in 0..n - 1 /\ i < pos
    <3>1. i < n
      BY <2>1
    <3>2. i \in Int /\ 0 <= i /\ i < pos
      BY <1>15
    <3>3. i \in 0..n - 1
      BY <1>16, <3>1, <3>2
    <3> QED
      BY <3>2, <3>3
  <2>3. \A i \in 0..pos - 2 : t'[i] = t[IF i = 0 THEN pos - 1 ELSE i]
    BY <1>4, <2>1, <2>2
  <2> QED
    BY <1>1, <2>3
<1>7. Whole => \A i \in 0..pos - 1 : t[i] \in Prio
  BY <1>2 DEF Items, BInv
<1>8. Items'
  <2> SUFFICES ASSUME Whole', NEW i \in 0..pos - 2
               PROVE  t'[i] \in Prio
    BY <1>2 DEF Items
  <2>1. t'[i] \in {t[pos - 1], t[i]} /\ pos - 1 \in 0..pos - 1 /\ i \in 0..pos - 1
    BY <1>1, <1>6
  <2> QED
    BY <1>3, <1>7, <2>1
<1>9. Whole' => Queue!Del(t[0])
  <2> SUFFICES ASSUME Whole'
               PROVE  Queue!Del(t[0])
    OBVIOUS
  <2>1. Whole /\ ok' /\ t[0] \in Prio
    <3>1. 0 \in 0..pos - 1
      BY <1>1
    <3> QED
      BY <1>3, <1>7, <3>1
  <2>2. ASSUME NEW y \in Prio
        PROVE  /\ Count(t, Counted, y) = Count(t', Counted', y) + One(t[0], y)
               /\ Count(t', Counted', y) \in Nat
    <3> DEFINE f == t
               g == t'
    <3>1. (pos > 1 => g[0] = f[pos - 1]) /\ \A k \in 1..pos - 2 : g[k] = f[k]
      BY <1>6
    <3> HIDE DEF f, g
    <3>2. pos \in Nat /\ pos > 0
      BY <1>1
    <3>3. /\ Count(f, 0..pos - 1, y) = Count(g, 0..pos - 2, y) + One(f[0], y)
          /\ Count(g, 0..pos - 2, y) \in Nat
      BY <3>1, <3>2, DelCounts
    <3> QED
      BY <1>2, <3>3 DEF f, g
  <2>3. Seen = [y \in Prio |-> Count(t, Counted, y)] /\ Seen' = [y \in Prio |-> Count(t', Counted', y)]
    BY <2>1, SeenIs
  <2>4. Seen' = [Seen EXCEPT ![t[0]] = @ - 1]
    <3>1. \A y \in Prio : Count(t', Counted', y) = IF y = t[0] THEN Count(t, Counted, y) - 1 ELSE Count(t, Counted, y)
      BY <2>2 DEF One
    <3> QED
      BY <2>1, <2>3, <3>1
  <2>5. Seen[t[0]] > 0
    BY <2>1, <2>2, <2>3 DEF One
  <2>6. ASSUME NEW y \in Prio, Seen[y] > 0
        PROVE  t[0] <= y
    <3>1. Count(t, Counted, y) # 0
      BY <2>3, <2>6
    <3>2. {i \in Counted : t[i] = y} # {}
      BY <3>1, FS_EmptySet DEF Count
    <3>3. PICK i \in Counted : t[i] = y
      BY <3>2
    <3>4. i \in Held(pos)
      BY <1>1, <1>2, <2>1 DEF Held, Whole
    <3> QED
      BY <1>1, <2>1, <3>3, <3>4, RootIsLeast DEF BInv, IInv, Order, Whole
  <2>7. res' = Result("del", 0, t[0])
    <3>1. 0 < slots
      BY <1>1, <1>11, <2>1
    <3> QED
      BY <1>1, <3>1 DEF Read
  <2> QED
    BY <2>4, <2>5, <2>6, <2>7 DEF Queue!Del, Queue!Least, Seen, Queue!Result, Result
<1>10. Whole' => Step
  <2>1. Whole' => t[0] \in Prio
    <3>1. 0 \in 0..pos - 1
      BY <1>1
    <3> QED
      BY <1>3, <1>7, <3>1
  <2> QED
    BY <1>9, <2>1 DEF Step
<1> QED
  BY <1>1, <1>3, <1>5, <1>8, <1>10 DEF Done, BInv

\* Every step.
LEMMA StepIsDone ==
  ASSUME BInv, Next
  PROVE  Done
<1>1. CASE \E fails \in Failures : New(fails)
  BY <1>1, NewIsDone
<1>2. CASE \E x \in Prio : Add(x)
  BY <1>2, AddIsDone
<1>3. CASE \E x \in Prio : AddFails(x)
  BY <1>3, AddFailsIsDone
<1>4. CASE Up \/ AddEnds
  BY <1>4, UpIsDone, AddEndsIsDone
<1>5. CASE Del \/ DelEmpty
  BY <1>5, DelIsDone, DelEmptyIsDone
<1>6. CASE DelFails \/ Free
  BY <1>6, DelFailsIsDone, FreeIsDone
<1>7. CASE Down \/ DelEnds
  BY <1>7, DownIsDone, DelEndsIsDone
<1> QED
  BY <1>1, <1>2, <1>3, <1>4, <1>5, <1>6, <1>7 DEF Next

LEMMA BagBegins ==
  ASSUME Init
  PROVE  BInv /\ Queue!Init
<1>1. IInv
  BY InitIsGood
<1>2. pos = 0 /\ pos \in Nat /\ pc = "none" /\ ok /\ ~torn /\ ~resized /\ res = Result("none", 0, NoItem)
  BY DEF Init
<1>3. Counted = 0..pos - 1
  BY <1>2, CountedIs
<1>4. Whole /\ Items
  BY <1>2, <1>3 DEF Whole, Sound, Items
<1>5. Seen = Queue!Empty
  <2>1. \A x \in Prio : Count(t, Counted, x) = 0
    BY <1>2, <1>3, NothingCounts
  <2> QED
    BY <1>4, <2>1, SeenIs DEF Queue!Empty
<1>6. Queue!Init
  BY <1>2, <1>4, <1>5 DEF Queue!Init, Seen, Queue!Result, Result, Queue!NoItem, NoItem
<1>7. BInv
  BY <1>1, <1>2, <1>4 DEF BInv, Copy
<1> QED
  BY <1>6, <1>7

LEMMA BagKeeps ==
  ASSUME BInv, [Next]_vars
  PROVE  BInv'
<1>1. IInv'
  BY Keeps DEF BInv
<1>2. CASE Next
  BY <1>1, <1>2, StepIsDone DEF Done, BInv
<1>3. CASE UNCHANGED vars
  BY <1>1, <1>3 DEF vars, BInv, Copy, Items, Whole, Sound, Counted
<1> QED
  BY <1>2, <1>3

\* A step of the code is a step of the queue or none.
LEMMA StepOfQueue ==
  ASSUME BInv, NeverCut, BInv', NeverCut', [Next]_vars
  PROVE  [Queue!Next]_<<Bag(IF Whole THEN Counted ELSE {}), Whole, resized,
                        IF Whole THEN res ELSE Result("none", 0, NoItem)>>
<1> DEFINE Told == IF Whole THEN res ELSE Result("none", 0, NoItem)
<1> SUFFICES Queue!Next \/ (Seen' = Seen /\ Whole' = Whole /\ resized' = resized /\ Told' = Told)
  BY DEF Seen
<1>1. CASE UNCHANGED vars
  BY <1>1 DEF vars, Seen, Bag, Whole, Sound, Counted
<1>2. CASE Next
  <2>1. Whole' => Whole /\ Step
    BY <1>2, StepIsDone DEF Done
  <2>2. CASE ~Whole
    <3>1. ~Whole' /\ resized /\ resized'
      BY <2>1, <2>2 DEF NeverCut
    <3>2. resized' = resized
      BY <3>1 DEF BInv, IInv, TypeOK
    <3>3. Whole' = Whole
      BY <2>2, <3>1 DEF Whole
    <3>4. Told' = Told
      BY <2>2, <3>1 DEF Result, NoItem
    <3> QED
      BY <2>2, <3>1, <3>2, <3>3, <3>4, SeenIs
  <2>3. CASE Whole /\ ~Whole'
    <3>1. resized' /\ Whole' = FALSE /\ Seen' = Queue!Empty
      BY <2>3, SeenIs DEF NeverCut, Whole
    <3>2. Queue!Break
      BY <2>3, <3>1 DEF Queue!Break, Seen, Queue!Result, Result, Queue!NoItem, NoItem
    <3> QED
      BY <2>3, <3>2 DEF Queue!Next
  <2>4. CASE Whole /\ Whole'
    <3>1. Step /\ Whole' = Whole
      BY <2>1, <2>4 DEF Whole
    <3>2. CASE Seen' = Seen /\ UNCHANGED <<res, resized>>
      <4>1. Told' = Told
        BY <2>4, <3>2
      <4> QED
        BY <3>1, <3>2, <4>1
    <3>3. CASE \/ \E x \in Prio : Queue!Add(x) \/ Queue!AddFails(x) \/ Queue!Del(x)
               \/ Queue!DelEmpty \/ Queue!Free
      BY <2>4, <3>1, <3>3 DEF Queue!Next
    <3> QED
      BY <3>1, <3>2, <3>3 DEF Step
  <2> QED
    BY <2>2, <2>3, <2>4
<1> QED
  BY <1>1, <1>2

\* To its users the heap is a bag from which the least item is taken, until a change
\* of the array's size damages it (kvs_minheap4.h).
THEOREM HeapImplementsQueue == Spec => ImplementsQueue
<1>1. Init => BInv /\ Queue!Init
  BY BagBegins
<1>2. BInv /\ [Next]_vars => BInv'
  BY BagKeeps
<1>3. BInv => NeverCut
  BY NeverResized
<1>4. BInv /\ NeverCut /\ BInv' /\ NeverCut' /\ [Next]_vars
        => [Queue!Next]_<<Bag(IF Whole THEN Counted ELSE {}), Whole, resized,
                          IF Whole THEN res ELSE Result("none", 0, NoItem)>>
  BY StepOfQueue
<1> QED
  BY <1>1, <1>2, <1>3, <1>4, PTL DEF Spec, ImplementsQueue, Queue!Spec
=============================================================================
