------------------------------- MODULE KvsHash ------------------------------
(***************************************************************************)
(* The hash table of kvs_hash.c, with its incremental rehash.              *)
(*                                                                         *)
(* A table that holds more nodes than buckets is expanded: a second table  *)
(* is allocated and every later operation first moves a few buckets of the *)
(* old one (kvs_hash_rehash), then searches both.  When the old table's    *)
(* use counter is zero it is freed and the second takes its place.         *)
(*                                                                         *)
(* Two facts of the code shape the model.  A node is inserted only after   *)
(* both tables were searched for its key, so a node is named by its key.   *)
(* And kvs_hash_rehash moves the nodes of a bucket but leaves the bucket's *)
(* head pointer as it was: the head of a migrated bucket is stale and      *)
(* points into a chain of the second table, which a search of the old      *)
(* table then walks.  `stale` holds the targets of those pointers.         *)
(***************************************************************************)
EXTENDS Integers, FiniteSets

CONSTANTS Key, Val, None,
          Hash,        \* Hash[k]: what default_hash computes for k
          Sizes,       \* the powers of two kvs_hash_next_power can return
          MinSize,     \* KVS_INIT_HASH_SIZE
          Hints,       \* the hints kvs_hash_new is called with
          Step,        \* buckets moved per operation, 10 in find_core
          AllocFails,  \* whether malloc and calloc may return NULL
          AliasedOps   \* FALSE: the callers delete no node, and free no
                       \* table, through a stale head.  TRUE: as the code is

ASSUME NoneAssumption  == None \notin Key \cup Val
ASSUME KeyAssumption   == IsFiniteSet(Key)
ASSUME HashAssumption  == Hash \in [Key -> Nat]
ASSUME SizesAssumption == /\ Sizes \subseteq Nat \ {0}
                          /\ \A p, q \in Sizes : p <= q => q % p = 0
                          /\ MinSize \in Sizes /\ Hints \subseteq Int
ASSUME StepAssumption  == Step \in Nat \ {0}
ASSUME FlagsAssumption == AllocFails \in BOOLEAN /\ AliasedOps \in BOOLEAN

VARIABLES h,        \* kvs_hash_t, see Table
          dangling, \* nodes freed while a chain still links them
          aliased,  \* history: an operation went through a stale head
          status,   \* "open", "freed", or "fault" once the program is undefined
          res       \* the last operation and its results, as in KvsMap

vars == <<h, dangling, aliased, status, res>>

Unused == -1                            \* KVS_UNUSED
NULL == [size |-> 0, use |-> 0]         \* no second table
NewBuckets(p) == [size |-> p, use |-> 0]

\* at[k]: the table whose chain holds k's node.  rank[k]: the node's place in
\* that chain counted from its tail, so the head ranks highest.  stale: the
\* nodes that heads of migrated buckets still point to, one per bucket.
Table == [buckets: [size: Sizes, use: Int],
          expand_buckets: [size: Sizes, use: Int] \cup {NULL},
          index: {Unused} \cup Nat,
          at: [Key -> {"none", "buckets", "expand_buckets"}],
          rank: [Key -> Nat],
          val: [Key -> Val \cup {None}],
          stale: SUBSET Key]
-----------------------------------------------------------------------------
(* Chains *)

Expanding(s) == s.expand_buckets # NULL

NodesAt(s, where) == {k \in Key : s.at[k] = where}

BucketOf(k, t) == Hash[k] % t.size      \* hash & mask, a size is a power of two

\* The nodes that share a chain with k, or would if k were in that table.
Chain(s, where, t, k) == {x \in NodesAt(s, where) : BucketOf(x, t) = BucketOf(k, t)}
OldChain(s, k) == Chain(s, "buckets", s.buckets, k)
NewChain(s, k) == Chain(s, "expand_buckets", s.expand_buckets, k)
ChainOf(s, k) == IF s.at[k] = "buckets" THEN OldChain(s, k) ELSE NewChain(s, k)

\* k has moved, but the stale head of its old bucket points to it or in front
\* of it: the search of the old table finds it.
Aliased(s, k) == \E t \in s.stale : k \in NewChain(s, t) /\ s.rank[k] <= s.rank[t]

\* The node behind k in its chain of the second table, {} at the tail.
Behind(s, k) == {x \in NewChain(s, k) : s.rank[x] = s.rank[k] - 1}

\* Seeded fault: the value is taken but the node stays linked.
StillLinked(s, k) == [s EXCEPT !.val[k] = None]

\* use++ and use-- of one of the tables.
Counted(s, where, n) == IF where = "buckets" THEN [s EXCEPT !.buckets.use = @ + n]
                                             ELSE [s EXCEPT !.expand_buckets.use = @ + n]

\* The n-th node of its chain counted from the tail.
Linked(s, k, v, where, n) == [s EXCEPT !.at[k] = where, !.rank[k] = n, !.val[k] = v]

\* *pp = p->next
Unlink(s, k) ==
  [s EXCEPT !.at[k] = "none",
            !.val[k] = None,
            !.rank = [x \in Key |->
                        IF x = k THEN 0
                        ELSE IF x \in ChainOf(s, k) /\ s.rank[x] > s.rank[k]
                             THEN s.rank[x] - 1 ELSE s.rank[x]]]
-----------------------------------------------------------------------------
(* kvs_hash_next_power, kvs_hash_need_expand and kvs_hash_resize *)

IsNextPower(p, hint) ==
  /\ p \in Sizes
  /\ \/ p >= hint /\ \A q \in Sizes : q >= hint => p <= q
     \/ \A q \in Sizes : q < hint /\ q <= p

InitialSize(hint) == {p \in Sizes : IF hint < MinSize THEN p = MinSize
                                                      ELSE IsNextPower(p, hint)}

\* Seeded fault: expansion at twice the load.
NeedExpandLate(s) == ~Expanding(s) /\ s.buckets.use > 2 * s.buckets.size

NeedExpand(s) == ~Expanding(s) /\ s.buckets.use > s.buckets.size

\* The tables kvs_hash_add may go on with: calloc may fail, and the second
\* table then stays NULL.
Resized(s) ==
  IF ~NeedExpand(s) \/ s.index # Unused THEN {s}
  ELSE {[s EXCEPT !.expand_buckets = NewBuckets(p)] :
          p \in {p \in Sizes : IsNextPower(p, 2 * s.buckets.size)}}
       \cup (IF AllocFails THEN {s} ELSE {})
-----------------------------------------------------------------------------
(* kvs_hash_rehash *)

\* The old table is freed, with whatever its chains still hold.
Swap(s) ==
  [s EXCEPT !.buckets = s.expand_buckets,
            !.expand_buckets = NULL,
            !.index = Unused,
            !.at = [k \in Key |-> IF s.at[k] = "expand_buckets" THEN "buckets" ELSE "none"],
            !.val = [k \in Key |-> IF s.at[k] = "expand_buckets" THEN s.val[k] ELSE None],
            !.rank = [k \in Key |-> IF s.at[k] = "expand_buckets" THEN s.rank[k] ELSE 0],
            !.stale = {}]

\* Seeded fault: the tables are swapped as soon as the index is at rest.
SwappingAtRest(s) == Expanding(s) /\ s.index = Unused

Swapping(s) == Expanding(s) /\ s.buckets.use = 0
Moving(s) == Expanding(s) /\ s.buckets.use # 0

\* Seeded faults: the index is not kept from call to call; or runs past the
\* first bucket.
FromTheTop(s) == s.buckets.size - 1
DowntoTooFar(s) == (IF s.index = Unused THEN s.buckets.size - 1 ELSE s.index) - 2 * Step

\* The last and the first bucket that one call moves.
From(s) == IF s.index = Unused THEN s.buckets.size - 1 ELSE s.index
Downto(s) == IF From(s) >= Step THEN From(s) - Step + 1 ELSE 0

\* Seeded fault: only the first node of a bucket is moved.
MovedHeads(s) == {k \in NodesAt(s, "buckets") :
                    /\ BucketOf(k, s.buckets) \in Downto(s)..From(s)
                    /\ \A x \in OldChain(s, k) : s.rank[x] <= s.rank[k]}

MovedNodes(s) == {k \in NodesAt(s, "buckets") :
                    BucketOf(k, s.buckets) \in Downto(s)..From(s)}

\* Each moved node is put at the front of its new chain, so that the nodes of
\* a bucket arrive in reverse; the head of the old bucket is not cleared.
Move(s) ==
  LET M == MovedNodes(s)
      Arrived(k) == {m \in M : m \in OldChain(s, k) /\ s.rank[m] >= s.rank[k]
                               /\ BucketOf(m, s.expand_buckets) = BucketOf(k, s.expand_buckets)}
  IN [s EXCEPT !.buckets.use = @ - Cardinality(M),
               !.expand_buckets.use = @ + Cardinality(M),
               !.index = Downto(s) - 1,
               !.at = [k \in Key |-> IF k \in M THEN "expand_buckets" ELSE s.at[k]],
               !.rank = [k \in Key |-> IF k \in M
                                       THEN Cardinality(NewChain(s, k)) + Cardinality(Arrived(k))
                                       ELSE s.rank[k]],
               !.stale = @ \cup {k \in M : \A x \in OldChain(s, k) : s.rank[x] <= s.rank[k]}]

Rehash(s) == IF Swapping(s) THEN Swap(s) ELSE IF Moving(s) THEN Move(s) ELSE s

\* The call would move a bucket whose head is stale or whose chain holds a
\* freed node: it links nodes in a cycle, or reads freed memory.
RehashFaults(s) ==
  /\ Moving(s)
  /\ \E k \in s.stale \cup (dangling \cap NodesAt(s, "buckets")) :
       BucketOf(k, s.buckets) \in Downto(s)..From(s)

\* kvs_hash_find_core reads a freed node before it meets k.
SearchFaults(s, k) ==
  \E d \in dangling :
    \/ d \in OldChain(s, k)
       /\ (k \in dangling \/ s.at[k] # "buckets" \/ s.rank[k] < s.rank[d])
    \/ d \in NewChain(s, k) /\ s.at[k] # "buckets" /\ ~Aliased(s, k)
       /\ (k \in dangling \/ s.at[k] = "none" \/ s.rank[k] < s.rank[d])
-----------------------------------------------------------------------------
(* The operations *)

Result(op, k, rv, v) == [op |-> op, key |-> k, rv |-> rv, val |-> v]

Init ==
  /\ \E hint \in Hints, p \in Sizes :
       /\ p \in InitialSize(hint)
       /\ h = [buckets |-> NewBuckets(p), expand_buckets |-> NULL,
               index |-> Unused, at |-> [k \in Key |-> "none"],
               rank |-> [k \in Key |-> 0], val |-> [k \in Key |-> None], stale |-> {}]
  /\ dangling = {}
  /\ aliased = FALSE
  /\ status = "open"
  /\ res = Result("new", None, 0, None)

\* Seeded fault: the second table is not searched.
PresentInOld(s, k) == s.at[k] = "buckets" /\ k \notin dangling

Present(s, k) == s.at[k] # "none" /\ k \notin dangling

\* find_core starts every operation; s is the table it starts from.
Searched(s, k) == status = "open" /\ ~RehashFaults(s) /\ ~SearchFaults(Rehash(s), k)

Replace(s, k, v) ==
  /\ Present(s, k)
  /\ h' = [s EXCEPT !.val[k] = v]
  /\ res' = Result("add", k, 1, s.val[k])

\* A new node goes to the front of its chain, in the second table if there is one.
Insert(s, k, v) ==
  LET where == IF Expanding(s) THEN "expand_buckets" ELSE "buckets"
      chain == IF Expanding(s) THEN NewChain(s, k) ELSE OldChain(s, k)
  IN /\ ~Present(s, k)
     /\ h' = Counted(Linked(s, k, v, where, Cardinality(chain) + 1), where, 1)
     /\ res' = Result("add", k, 0, None)

InsertFails(s, k) ==
  /\ AllocFails
  /\ ~Present(s, k)
  /\ h' = s
  /\ res' = Result("add", k, -1, None)

Add(k, v) ==
  \E s \in Resized(h) :
    /\ Searched(s, k)
    /\ Replace(Rehash(s), k, v) \/ Insert(Rehash(s), k, v) \/ InsertFails(Rehash(s), k)
    /\ UNCHANGED <<dangling, aliased, status>>

Find(k) ==
  LET s == Rehash(h)
  IN /\ Searched(h, k)
     /\ h' = s
     /\ res' = Result("find", k, 0, s.val[k])
     /\ UNCHANGED <<dangling, aliased, status>>

DelMissing(k) ==
  LET s == Rehash(h)
  IN /\ Searched(h, k)
     /\ ~Present(s, k)
     /\ h' = s
     /\ res' = Result("del", k, -1, None)
     /\ UNCHANGED <<dangling, aliased, status>>

\* The node is unlinked from the chain that the search found it in.
DelPresent(k) ==
  LET s == Rehash(h)
  IN /\ Searched(h, k)
     /\ Present(s, k)
     /\ ~Aliased(s, k)
     /\ h' = Counted(Unlink(s, k), s.at[k], -1)
     /\ res' = Result("del", k, 0, s.val[k])
     /\ UNCHANGED <<dangling, aliased, status>>

\* The node is reached through a stale head, so the old table's counter pays
\* for it.  If the stale head itself points to it, only that head moves on:
\* the second table keeps a link to a freed node.
DelAliased(k) ==
  LET s == Rehash(h)
  IN /\ AliasedOps
     /\ Searched(h, k)
     /\ Present(s, k)
     /\ Aliased(s, k)
     /\ \/ /\ k \in s.stale
           /\ h' = Counted([s EXCEPT !.stale = (@ \ {k}) \cup Behind(s, k),
                                     !.val[k] = None], "buckets", -1)
           /\ dangling' = dangling \cup {k}
        \/ /\ k \notin s.stale
           /\ h' = Counted(Unlink(s, k), "buckets", -1)
           /\ UNCHANGED dangling
     /\ aliased' = TRUE
     /\ res' = Result("del", k, 0, s.val[k])
     /\ UNCHANGED status

Del(k) == DelMissing(k) \/ DelPresent(k) \/ DelAliased(k)

\* Both tables are walked and every node met is freed.
Free ==
  /\ status = "open"
  /\ h.stale = {} /\ dangling = {}
  /\ status' = "freed"
  /\ h' = [h EXCEPT !.at = [k \in Key |-> "none"], !.val = [k \in Key |-> None]]
  /\ res' = Result("free", None, 0, None)
  /\ UNCHANGED <<dangling, aliased>>

\* Through a stale head a node is met, and freed, twice.
FreeTwice ==
  /\ status = "open"
  /\ AliasedOps
  /\ h.stale # {} \/ dangling # {}
  /\ aliased' = TRUE
  /\ status' = "fault"
  /\ UNCHANGED <<h, dangling, res>>

\* Any operation on k that runs into a freed node or a chain linked twice.
Fault(k) ==
  /\ status = "open"
  /\ RehashFaults(h) \/ SearchFaults(Rehash(h), k)
  /\ status' = "fault"
  /\ UNCHANGED <<h, dangling, aliased, res>>

Next == \/ \E k \in Key, v \in Val : Add(k, v)
        \/ \E k \in Key : Find(k) \/ Del(k) \/ Fault(k)
        \/ Free \/ FreeTwice

Spec == Init /\ [][Next]_vars

\* The callers keep calling: the server has commands to serve.
KeepsCalling == WF_vars(\E k \in Key : Find(k) \/ Del(k) \/ \E v \in Val : Add(k, v))

FairSpec == Spec /\ KeepsCalling
-----------------------------------------------------------------------------
(* Properties *)

TypeOK == /\ h \in Table
          /\ dangling \subseteq Key
          /\ aliased \in BOOLEAN
          /\ status \in {"open", "freed", "fault"}
          /\ res \in [op: {"new", "add", "find", "del", "free"}, key: Key \cup {None},
                      rv: {-1, 0, 1}, val: Val \cup {None}]

\* The counters that decide when the old table is freed agree with the nodes
\* of each table (kvs_hash_rehash, _add and _del each adjust one of the two).
UseIsExact ==
  status = "open" /\ ~aliased =>
    /\ h.buckets.use = Cardinality(NodesAt(h, "buckets"))
    /\ h.expand_buckets.use = Cardinality(NodesAt(h, "expand_buckets"))

\* While kvs_hash_rehash is under way, the buckets above `index` have been
\* emptied for good: neither an insertion nor a restart puts a node back.
MigratedStayEmpty ==
  status = "open" /\ ~aliased /\ Expanding(h) /\ (h.index # Unused \/ h.stale # {}) =>
    \A k \in NodesAt(h, "buckets") : BucketOf(k, h.buckets) <= h.index

\* No operation reads freed memory or links a chain into a cycle, unless one
\* went through a stale head before.
FaultOnlyAfterAliasing == status = "fault" => aliased

\* A key that is in the table leaves it by its own deletion or when the table
\* is freed; in particular no swap frees a table that still holds nodes.
NothingLost ==
  [][\A k \in Key : Present(h, k) /\ ~Present(h, k)' =>
       res'.op = "free" \/ (res'.op = "del" /\ res'.key = k /\ res'.rv = 0)]_vars

\* The incremental rehash keeps up with the insertions: the new table is not
\* overfull when it takes over, so that chains stay short.  Not so with one
\* bucket per operation, when memory is short, or at the largest size.
LoadBounded ==
  status = "open" /\ ~aliased =>
    IF Expanding(h) THEN h.buckets.use + h.expand_buckets.use <= h.expand_buckets.size
    ELSE h.buckets.use <= h.buckets.size + 1 \/ \A p \in Sizes : p <= h.buckets.size

\* An expansion that started comes to its end, as long as operations come and none
\* went through a stale head.
ExpansionCompletes == Expanding(h) ~> (~Expanding(h) \/ status = "freed" \/ aliased)

\* The table is the dictionary that kvs_hash.h promises.
Map == INSTANCE KvsMap WITH dict <- h.val, open <- (status = "open")
ImplementsMap == Map!Spec
=============================================================================
