----------------------------- MODULE KvsMinheap -----------------------------
(***************************************************************************)
(* The 4-ary min-heap of kvs_minheap4.c.  kvs_minheap_add and              *)
(* kvs_minheap_del begin with one step that reads and writes the array's   *)
(* ends and resizes it, and go on with one step for each turn of their     *)
(* loops.  An item is the number that cmp compares.                        *)
(*                                                                         *)
(* `nalloc` is what the code takes for the number of elements in the       *)
(* array, `slots` the number there is room for: realloc is given nalloc as *)
(* a number of bytes.  The first access outside the block ends the         *)
(* behaviour with `ok` FALSE.                                              *)
(***************************************************************************)
EXTENDS Integers, FiniteSets

CONSTANTS MinSize,   \* KVS_MIN_SIZE, 8 in kvs_minheap4.h
          Prio, Junk, \* what items compare by, and memory nobody wrote
          AllocFails \* whether malloc and realloc may return NULL

ASSUME HeapAssumption == /\ MinSize \in Nat \ {0} /\ Prio \subseteq Int /\ Junk \in Int
                         /\ AllocFails \in BOOLEAN

VARIABLES t, slots, pos, nalloc,  \* the array, its real size, kvs_minheap_t
          pc,       \* "none" and "freed": no heap; "idle"; the loops "up", "down"
          at,       \* c of kvs_minheap_add, p of kvs_minheap_del
          ok,       \* no access outside the block
          resized,  \* history: realloc was called
          torn,     \* history: kvs_minheap_del was left half done
          res       \* the last call and what it gives back

vars == <<t, slots, pos, nalloc, pc, at, ok, resized, torn, res>>

Result(op, rv, item) == [op |-> op, rv |-> rv, item |-> item]
NoItem == 0

SizeofPointer == 8
SlotsIn(bytes) == bytes \div SizeofPointer

Parent(i) == (i - 1) \div 4
Left(i) == 4 * i + 1

\* realloc: the array as far as the new block holds it.
Cut(f, n) == [i \in 0..n - 1 |-> IF i < slots THEN f[i] ELSE Junk]

Failures == IF AllocFails THEN BOOLEAN ELSE {FALSE}

Calls(state) == ok /\ pc = state

\* The result of kvs_minheap_init is not looked at by kvs_minheap_new: without
\* an array, pos and nalloc are what malloc left, taken to be 0.
New(fails) ==
  /\ Calls("none")
  /\ slots' = IF fails THEN 0 ELSE MinSize
  /\ nalloc' = slots'
  /\ t' = [i \in 0..slots' - 1 |-> Junk]
  /\ pos' = 0 /\ pc' = "idle"
  /\ UNCHANGED <<at, ok, resized, torn, res>>

-----------------------------------------------------------------------------
(* kvs_minheap_add *)

Full == pos >= nalloc

\* realloc failed: nalloc is doubled nevertheless.
AddFails(x) ==
  /\ Calls("idle") /\ Full /\ AllocFails
  /\ nalloc' = 2 * nalloc /\ resized' = TRUE
  /\ res' = Result("add", -1, x)
  /\ UNCHANGED <<t, slots, pos, pc, at, ok, torn>>

\* The item goes behind the last one.
Add(x) ==
  /\ Calls("idle")
  /\ nalloc' = IF Full THEN 2 * nalloc ELSE nalloc
  /\ slots'  = IF Full THEN SlotsIn(2 * nalloc) ELSE slots
  /\ ok' = (pos < slots')
  /\ t' = [Cut(t, slots') EXCEPT ![pos] = x]
  /\ pc' = "up" /\ at' = pos
  /\ resized' = (resized \/ Full)
  /\ res' = Result("add", 0, x)
  /\ UNCHANGED <<pos, torn>>

Rises(c) == c > 0 /\ t[c] < t[Parent(c)]

\* One turn of the loop: the item and its parent change places.
Up == /\ Calls("up") /\ Rises(at)
      /\ t' = [t EXCEPT ![at] = t[Parent(at)], ![Parent(at)] = t[at]]
      /\ at' = Parent(at)
      /\ UNCHANGED <<slots, pos, nalloc, pc, ok, resized, torn, res>>

AddEnds == /\ Calls("up") /\ ~Rises(at)
           /\ pos' = pos + 1 /\ pc' = "idle"
           /\ UNCHANGED <<t, slots, nalloc, at, ok, resized, torn, res>>

-----------------------------------------------------------------------------
(* kvs_minheap_del *)

DelEmpty == /\ Calls("idle") /\ pos <= 0
            /\ res' = Result("del", -1, NoItem)
            /\ UNCHANGED <<t, slots, pos, nalloc, pc, at, ok, resized, torn>>

Shrinks == pos - 1 <= nalloc \div 2

\* What a read finds, outside the block too.
Read(i) == IF i < slots THEN t[i] ELSE Junk

\* Mutant of Replaced: off by one.
ReplacedByNext(n) == [i \in 0..n - 1 |-> Read(IF i = 0 THEN pos ELSE i)]

\* The root is given to the caller, the last item takes its place.
Replaced(n) == [i \in 0..n - 1 |-> Read(IF i = 0 THEN pos - 1 ELSE i)]

\* realloc failed: the root is gone, the last item there twice.
DelFails ==
  /\ Calls("idle") /\ pos > 0 /\ Shrinks /\ AllocFails
  /\ ok' = (pos <= slots)
  /\ t' = Replaced(slots)
  /\ nalloc' = nalloc \div 2
  /\ resized' = TRUE /\ torn' = TRUE
  /\ res' = Result("del", -1, Read(0))
  /\ UNCHANGED <<slots, pos, pc, at>>

\* The root is read again after the array was resized.
Del ==
  /\ Calls("idle") /\ pos > 0
  /\ nalloc' = IF Shrinks THEN nalloc \div 2 ELSE nalloc
  /\ slots'  = IF Shrinks THEN SlotsIn(nalloc \div 2) ELSE slots
  /\ ok' = (pos <= slots /\ slots' > 0)
  /\ t' = Replaced(slots')
  /\ pc' = "down" /\ at' = 0
  /\ resized' = (resized \/ Shrinks)
  /\ res' = Result("del", 0, Read(0))
  /\ UNCHANGED <<pos, torn>>

\* The children the loop looks at: n is pos, so the slot the last item came from
\* is still one of them.
Children(p) == {i \in Left(p)..Left(p) + 3 : i < pos}

Lesser(c) == IF c + 1 < pos /\ t[c + 1] < t[c] THEN c + 1 ELSE c

\* Mutant of BestChild: the children are not compared in pairs.
BestOfFirstPair(p) == Lesser(Left(p))

\* The least of the children: the better of the first two against the better of
\* the other two.
BestChild(p) ==
  LET c  == Lesser(Left(p))
      c3 == Lesser(Left(p) + 2)
  IN IF Left(p) + 2 < pos /\ t[c3] < t[c] THEN c3 ELSE c

Sinks(p) == Children(p) # {} /\ t[BestChild(p)] < t[p]

\* Whether the children are still in the block.
InBlock == \A c \in Children(at) : c < slots

\* One turn of the loop: the item and its best child change places.
Down == /\ Calls("down") /\ InBlock /\ Sinks(at)
        /\ LET c == BestChild(at)
           IN t' = [t EXCEPT ![at] = t[c], ![c] = t[at]] /\ at' = c
        /\ UNCHANGED <<slots, pos, nalloc, pc, ok, resized, torn, res>>

\* Looking at a child outside the block ends the call too.
DelEnds == /\ Calls("down") /\ (InBlock => ~Sinks(at))
           /\ ok' = InBlock
           /\ pos' = pos - 1 /\ pc' = "idle"
           /\ UNCHANGED <<t, slots, nalloc, at, resized, torn, res>>

-----------------------------------------------------------------------------

\* Every item is given to myfree; one that was cut off is read from nowhere.
Free == /\ Calls("idle")
        /\ ok' = (pos <= slots)
        /\ pc' = "freed" /\ pos' = 0
        /\ res' = Result("free", 0, NoItem)
        /\ UNCHANGED <<t, slots, nalloc, at, resized, torn>>

Init == /\ t = [i \in {} |-> Junk] /\ slots = 0 /\ pos = 0 /\ nalloc = 0
        /\ pc = "none" /\ at = 0 /\ ok = TRUE /\ resized = FALSE /\ torn = FALSE
        /\ res = Result("none", 0, NoItem)

Next == \/ \E fails \in Failures : New(fails)
        \/ \E x \in Prio : Add(x) \/ AddFails(x)
        \/ Up \/ AddEnds
        \/ Del \/ DelEmpty \/ DelFails \/ Down \/ DelEnds
        \/ Free

Spec == Init /\ [][Next]_vars

-----------------------------------------------------------------------------
(* Properties *)

States == {"none", "idle", "up", "down", "freed"}

TypeOK ==
  /\ slots \in Nat /\ pos \in Nat /\ nalloc \in Nat /\ at \in Nat
  /\ t \in [0..slots - 1 -> Int]
  /\ pc \in States
  /\ ok \in BOOLEAN /\ resized \in BOOLEAN /\ torn \in BOOLEAN

\* The array is what the calls make of it: nothing failed half way.
Sound == ok /\ ~torn

Held(n) == {i \in 0..n - 1 : i < slots}

\* Between calls no item is less than its parent, though kvs_minheap_del lets the
\* slot of the item that it moved take part (kvs_minheap4.c:54-65, 100-137).
HeapOrder ==
  Sound /\ pc = "idle" => \A i \in Held(pos) \ {0} : t[Parent(i)] <= t[i]

\* What kvs_minheap_del gives back is the least of all items
\* (kvs_minheap4.c:82).
LeastGoesFirst ==
  [][Sound /\ pc = "idle" /\ pc' = "down" => \A i \in Held(pos) : res'.item <= t[i]]_vars

\* A heap that never changed the size of its array stays inside it
\* (kvs_minheap4.c:42, 90).
FaultNeedsResize == ~ok => resized

\* Until an item is cut off or a call breaks off, the heap is a bag: the moves of
\* the loops neither lose nor make an item, and an item that is refused changes
\* nothing; only a change of the array's size cuts off an item or breaks off a call
\* (kvs_minheap4.c:33-141).
Bag(S) == [x \in Prio |-> Cardinality({i \in S : t[i] = x})]
Counted == CASE pc = "up"   -> 0..pos
             [] pc = "down" -> 0..pos - 2
             [] OTHER       -> 0..pos - 1
Whole == Sound /\ \A i \in Counted : i < slots
Queue == INSTANCE KvsQueue WITH items <- Bag(IF Whole THEN Counted ELSE {}),
                                sound <- Whole,
                                res <- IF Whole THEN res ELSE Result("none", 0, NoItem)
ImplementsQueue == Queue!Spec
==============================================================================
