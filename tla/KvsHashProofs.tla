---------------------------- MODULE KvsHashProofs ---------------------------
(***************************************************************************)
(* What is proved of KvsHash for every set of keys and values, every hash  *)
(* function, every set of table sizes and every Step.                      *)
(***************************************************************************)
EXTENDS KvsHash, FiniteSetTheorems, TLAPS

\* Table with its nodes where they can be: the second table, when it does not
\* exist, has no node.
Sound(s) == /\ s \in Table
            /\ ~Expanding(s) => NodesAt(s, "expand_buckets") = {}
\* The types of Table's parts, kept folded in most steps.
Counters == [size: Sizes, use: Int]
Indexes == {Unused} \cup Nat
Places == [Key -> {"none", "buckets", "expand_buckets"}]
Ranks == [Key -> Nat]
Values == [Key -> Val \cup {None}]
-----------------------------------------------------------------------------
\* A table has at least one bucket.
LEMMA SizesArePositive ==
  ASSUME NEW p \in Sizes
  PROVE  p \in Nat /\ p >= 1
BY SizesAssumption

\* Sets of keys are finite, so that their nodes can be counted.
LEMMA KeySets ==
  ASSUME NEW S, S \subseteq Key
  PROVE  IsFiniteSet(S) /\ Cardinality(S) \in Nat
BY KeyAssumption, FS_Subset, FS_CardinalityType

\* A table with new parts of the right types is a table.
LEMMA TableUpdate ==
  ASSUME NEW s \in Table,
         NEW b \in Counters, NEW e \in Counters \cup {NULL},
         NEW index \in Indexes, NEW at \in Places, NEW rank \in Ranks, NEW stale \in SUBSET Key
  PROVE  [s EXCEPT !.buckets = b, !.expand_buckets = e, !.index = index,
                   !.at = at, !.rank = rank, !.stale = stale] \in Table
BY DEF Table, Counters, Indexes, Places, Ranks

\* kvs_hash_resize adds an empty second table, or nothing.
LEMMA ResizedIsSound ==
  ASSUME NEW s, Sound(s), NEW t \in Resized(s)
  PROVE  Sound(t)
<1>1. CASE t = s
  BY <1>1
<1>2. CASE t # s
  <2>1. PICK p \in Sizes : t = [s EXCEPT !.expand_buckets = [size |-> p, use |-> 0]]
    BY <1>2 DEF Resized, NewBuckets
  <2>2. ~Expanding(s)
    BY <1>2 DEF Resized, NeedExpand
  <2>3. t \in Table
    BY <2>1 DEF Table, Sound
  <2>4. NodesAt(t, "expand_buckets") = {}
    BY <2>1, <2>2 DEF NodesAt, Sound, Table
  <2> QED
    BY <2>3, <2>4 DEF Sound
<1> QED
  BY <1>1, <1>2

\* Freeing the old table leaves one table.
LEMMA SwapIsSound ==
  ASSUME NEW s, Sound(s), Swapping(s)
  PROVE  Sound(Swap(s))
<1> DEFINE t == Swap(s)
<1>1. s.expand_buckets \in [size: Sizes, use: Int]
  BY DEF Sound, Table, Swapping, Expanding
<1>2. t \in Table
  BY <1>1 DEF Swap, Sound, Table
<1>3. NodesAt(t, "expand_buckets") = {}
  BY DEF NodesAt, Swap, Sound, Table
<1> QED
  BY <1>2, <1>3 DEF Sound

\* kvs_hash_rehash moves a range of buckets that ends at `index`, or at the last
\* bucket when it starts.
LEMMA DowntoRange ==
  ASSUME NEW s \in Table
  PROVE  /\ From(s) \in Nat /\ Downto(s) \in Nat
         /\ Downto(s) <= From(s)
         /\ s.index # Unused => From(s) = s.index
         /\ s.index = Unused => From(s) = s.buckets.size - 1
<1>1. s.buckets.size \in Nat /\ s.buckets.size >= 1
  BY SizesArePositive DEF Table
<1>2. From(s) \in Nat
  BY <1>1 DEF From, Table, Unused
<1> QED
  BY <1>1, <1>2, StepAssumption DEF From, Downto, Unused

\* What the moving of buckets in kvs_hash_rehash changes, part by part.
LEMMA MoveFields ==
  ASSUME NEW s \in Table, Expanding(s)
  PROVE  LET M == MovedNodes(s) IN
         /\ Move(s) \in Table
         /\ M \subseteq NodesAt(s, "buckets")
         /\ Move(s).buckets = [s.buckets EXCEPT !.use = @ - Cardinality(M)]
         /\ Move(s).expand_buckets = [s.expand_buckets EXCEPT !.use = @ + Cardinality(M)]
         /\ Move(s).index = Downto(s) - 1
         /\ NodesAt(Move(s), "buckets") = NodesAt(s, "buckets") \ M
         /\ NodesAt(Move(s), "expand_buckets") = NodesAt(s, "expand_buckets") \cup M
         /\ Move(s).val = s.val
         /\ Move(s).stale \subseteq s.stale \cup M
<1> DEFINE M == MovedNodes(s)
           t == Move(s)
           Arrived(k) == {m \in M : m \in OldChain(s, k) /\ s.rank[m] >= s.rank[k]
                               /\ BucketOf(m, s.expand_buckets) = BucketOf(k, s.expand_buckets)}
           rank == [k \in Key |-> IF k \in M
                                  THEN Cardinality(NewChain(s, k)) + Cardinality(Arrived(k))
                                  ELSE s.rank[k]]
           at == [k \in Key |-> IF k \in M THEN "expand_buckets" ELSE s.at[k]]
           stale == s.stale \cup {k \in M : \A x \in OldChain(s, k) : s.rank[x] <= s.rank[k]}
           index == Downto(s) - 1
<1>1. M \subseteq NodesAt(s, "buckets") /\ M \subseteq Key
  BY DEF MovedNodes, NodesAt
<1>2. Cardinality(M) \in Nat
  BY <1>1, KeySets
<1>3. rank \in Ranks
  <2>1. ASSUME NEW k \in Key
        PROVE  Cardinality(NewChain(s, k)) \in Nat /\ Cardinality(Arrived(k)) \in Nat
    <3>1. NewChain(s, k) \subseteq Key
      BY DEF NewChain, Chain, NodesAt
    <3>2. Arrived(k) \subseteq Key
      BY <1>1
    <3> HIDE DEF Arrived
    <3> QED
      BY <3>1, <3>2, KeySets
  <2>2. ASSUME NEW k \in Key
        PROVE  s.rank[k] \in Nat
    BY DEF Table
  <2> HIDE DEF Arrived, M
  <2> QED
    BY <2>1, <2>2 DEF Ranks
<1>4. index \in Indexes
  BY DowntoRange DEF Unused, Indexes
<1>5. /\ s.buckets \in Counters /\ s.expand_buckets \in Counters
      /\ s.at \in Places /\ s.stale \subseteq Key
  BY DEF Table, Expanding, Counters, Places
<1>6. at \in Places
  BY <1>5 DEF Places
<1>7. stale \subseteq Key /\ stale \subseteq s.stale \cup M
  BY <1>1, <1>5
<1>8. t = [s EXCEPT !.buckets.use = @ - Cardinality(M),
                    !.expand_buckets.use = @ + Cardinality(M),
                    !.index = index, !.at = at, !.rank = rank, !.stale = stale]
  BY DEF Move
<1> HIDE DEF M, rank, at, stale, index, t
<1>9. /\ t.buckets = [s.buckets EXCEPT !.use = @ - Cardinality(M)]
      /\ t.expand_buckets = [s.expand_buckets EXCEPT !.use = @ + Cardinality(M)]
      /\ t.index = index /\ t.at = at /\ t.rank = rank /\ t.stale = stale /\ t.val = s.val
  BY <1>8 DEF Table
<1>10. t \in Table
  <2>1. t = [s EXCEPT !.buckets = t.buckets, !.expand_buckets = t.expand_buckets,
                      !.index = index, !.at = at, !.rank = rank, !.stale = stale]
    BY <1>8, <1>9
  <2>2. t.buckets \in Counters /\ t.expand_buckets \in Counters
    BY <1>2, <1>5, <1>9 DEF Counters
  <2>3. t.expand_buckets \in Counters \cup {NULL}
    BY <2>2
  <2>4. stale \in SUBSET Key
    BY <1>7
  <2>5. [s EXCEPT !.buckets = t.buckets, !.expand_buckets = t.expand_buckets,
                  !.index = index, !.at = at, !.rank = rank, !.stale = stale] \in Table
    BY <2>2, <2>3, <2>4, <1>3, <1>4, <1>6, TableUpdate
  <2> QED
    BY <2>1, <2>5
<1>11. /\ NodesAt(t, "buckets") = NodesAt(s, "buckets") \ M
       /\ NodesAt(t, "expand_buckets") = NodesAt(s, "expand_buckets") \cup M
  BY <1>1, <1>9 DEF NodesAt, at
<1> QED
  BY <1>1, <1>7, <1>9, <1>10, <1>11 DEF index, t, M

\* kvs_hash_rehash, whichever of its cases applies.
LEMMA RehashIsSound ==
  ASSUME NEW s, Sound(s)
  PROVE  Sound(Rehash(s))
<1>1. CASE Swapping(s)
  BY <1>1, SwapIsSound DEF Rehash
<1>2. CASE ~Swapping(s) /\ Moving(s)
  <2>1. Rehash(s) = Move(s) /\ Expanding(s) /\ s \in Table
    BY <1>2 DEF Rehash, Moving, Sound
  <2>2. Move(s) \in Table
    BY <2>1, MoveFields
  <2>3. Move(s).expand_buckets = [s.expand_buckets EXCEPT !.use = @ + Cardinality(MovedNodes(s))]
    BY <2>1, MoveFields
  <2>4. s.expand_buckets \in [size: Sizes, use: Int]
    BY <2>1 DEF Expanding, Table
  <2>5. Move(s).expand_buckets.size = s.expand_buckets.size
    BY <2>3, <2>4
  <2>6. Move(s).expand_buckets # NULL
    BY <2>4, <2>5, SizesArePositive DEF NULL
  <2> QED
    BY <2>1, <2>2, <2>6 DEF Sound, Expanding
<1>3. CASE ~Swapping(s) /\ ~Moving(s)
  BY <1>3 DEF Rehash
<1> QED
  BY <1>1, <1>2, <1>3

\* use++ and use-- of a table that exists.
LEMMA CountedFields ==
  ASSUME NEW s \in Table, NEW where \in {"buckets", "expand_buckets"},
         where = "expand_buckets" => Expanding(s), NEW n \in Int
  PROVE  LET t == Counted(s, where, n) IN
         /\ t \in Table
         /\ t.at = s.at /\ t.val = s.val /\ t.index = s.index /\ t.stale = s.stale
         /\ t.buckets.size = s.buckets.size /\ t.expand_buckets.size = s.expand_buckets.size
         /\ t.buckets.use = IF where = "buckets" THEN s.buckets.use + n ELSE s.buckets.use
         /\ t.expand_buckets.use = IF where = "buckets" THEN s.expand_buckets.use
                                                     ELSE s.expand_buckets.use + n
         /\ Expanding(t) <=> Expanding(s)
<1> DEFINE t == Counted(s, where, n)
<1>1. s.buckets \in [size: Sizes, use: Int]
  BY DEF Table
<1>2. CASE where = "buckets"
  <2> DEFINE b == [s.buckets EXCEPT !.use = @ + n]
  <2>1. t = [s EXCEPT !.buckets = b]
    BY <1>2 DEF Counted
  <2>2. b \in [size: Sizes, use: Int] /\ b.size = s.buckets.size /\ b.use = s.buckets.use + n
    BY <1>1
  <2> HIDE DEF b
  <2> QED
    BY <1>2, <2>1, <2>2 DEF Table, Expanding
<1>3. CASE where = "expand_buckets"
  <2> DEFINE e == [s.expand_buckets EXCEPT !.use = @ + n]
  <2>1. t = [s EXCEPT !.expand_buckets = e]
    BY <1>3 DEF Counted
  <2>2. s.expand_buckets \in [size: Sizes, use: Int]
    BY <1>3 DEF Table, Expanding
  <2>3. /\ e \in [size: Sizes, use: Int] /\ e.size = s.expand_buckets.size
        /\ e.use = s.expand_buckets.use + n
    BY <2>2
  <2>4. e # NULL
    BY <2>3, SizesArePositive DEF NULL
  <2> HIDE DEF e
  <2> QED
    BY <1>3, <2>1, <2>3, <2>4 DEF Table, Expanding
<1> QED
  BY <1>2, <1>3

\* What unlinking a node in kvs_hash_del changes, part by part.
LEMMA UnlinkFields ==
  ASSUME NEW s \in Table, NEW k \in Key
  PROVE  LET t == Unlink(s, k) IN
         /\ t \in Table
         /\ \A x \in Key : /\ t.at[x] = IF x = k THEN "none" ELSE s.at[x]
                         /\ t.val[x] = IF x = k THEN None ELSE s.val[x]
         /\ t.buckets = s.buckets /\ t.expand_buckets = s.expand_buckets
         /\ t.index = s.index /\ t.stale = s.stale
<1> DEFINE rank == [x \in Key |->
                        IF x = k THEN 0
                        ELSE IF x \in ChainOf(s, k) /\ s.rank[x] > s.rank[k]
                             THEN s.rank[x] - 1 ELSE s.rank[x]]
<1>1. rank \in Ranks
  <2>1. \A x \in Key : s.rank[x] \in Nat
    BY DEF Table
  <2> QED
    BY <2>1 DEF Ranks
<1> DEFINE at == [s.at EXCEPT ![k] = "none"]
           val == [s.val EXCEPT ![k] = None]
<1>2. at \in Places /\ val \in Values
  BY DEF Table, Places, Values
<1>3. Unlink(s, k) = [s EXCEPT !.at = at, !.rank = rank, !.val = val]
  BY DEF Unlink
<1> HIDE DEF rank, at, val
<1>4. /\ Unlink(s, k) \in Table
      /\ Unlink(s, k).at = at /\ Unlink(s, k).val = val
      /\ Unlink(s, k).buckets = s.buckets /\ Unlink(s, k).expand_buckets = s.expand_buckets
      /\ Unlink(s, k).index = s.index /\ Unlink(s, k).stale = s.stale
  BY <1>1, <1>2, <1>3 DEF Table, Places, Ranks, Values
<1> QED
  BY <1>4 DEF at, val, Table

\* What linking a new node in kvs_hash_add changes, part by part.
LEMMA LinkFields ==
  ASSUME NEW s \in Table, NEW k \in Key, NEW v \in Val,
         NEW where \in {"buckets", "expand_buckets"}, NEW n \in Nat
  PROVE  /\ Linked(s, k, v, where, n) \in Table
         /\ \A x \in Key :
              /\ Linked(s, k, v, where, n).at[x] = IF x = k THEN where ELSE s.at[x]
              /\ Linked(s, k, v, where, n).val[x] = IF x = k THEN v ELSE s.val[x]
         /\ Linked(s, k, v, where, n).buckets = s.buckets
         /\ Linked(s, k, v, where, n).expand_buckets = s.expand_buckets
         /\ Linked(s, k, v, where, n).index = s.index
         /\ Linked(s, k, v, where, n).stale = s.stale
BY DEF Table, Linked
-----------------------------------------------------------------------------
(* Each operation leaves a sound table. *)

\* kvs_hash_add of a new key links it into a table that exists.
LEMMA InsertIsSound ==
  ASSUME NEW s, Sound(s), NEW k \in Key, NEW v \in Val, Insert(s, k, v)
  PROVE  Sound(h')
<1> DEFINE where == IF Expanding(s) THEN "expand_buckets" ELSE "buckets"
           chain == IF Expanding(s) THEN NewChain(s, k) ELSE OldChain(s, k)
           n == Cardinality(chain) + 1
           t == Linked(s, k, v, where, n)
<1>1. h' = Counted(t, where, 1)
  BY DEF Insert
<1>2. n \in Nat
  <2>1. chain \subseteq Key
    BY DEF NewChain, OldChain, Chain, NodesAt
  <2> HIDE DEF chain
  <2> QED
    BY <2>1, KeySets
<1>3. s \in Table /\ where \in {"buckets", "expand_buckets"}
  BY DEF Sound
<1> HIDE DEF n, chain, where
<1>4. /\ t \in Table /\ t.expand_buckets = s.expand_buckets
      /\ \A x \in Key : t.at[x] = IF x = k THEN where ELSE s.at[x]
  BY <1>2, <1>3, LinkFields
<1> HIDE DEF t
<1>5. where = "expand_buckets" => Expanding(t)
  BY <1>4 DEF Expanding, where
<1>6. h' \in Table /\ h'.at = t.at /\ (Expanding(h') <=> Expanding(t))
  BY <1>1, <1>3, <1>4, <1>5, CountedFields
<1>7. ~Expanding(s) => where # "expand_buckets"
  BY DEF where
<1>8. ~Expanding(h') => NodesAt(h', "expand_buckets") = {}
  BY <1>4, <1>6, <1>7 DEF Sound, NodesAt, Expanding, Table
<1> QED
  BY <1>6, <1>8 DEF Sound

\* kvs_hash_add of a present key changes its value only.
LEMMA ReplaceIsSound ==
  ASSUME NEW s, Sound(s), NEW k \in Key, NEW v \in Val, Replace(s, k, v)
  PROVE  Sound(h')
BY DEF Sound, Replace, Table, Expanding, NodesAt

\* What deleting an unaliased node does to the table.
LEMMA UncountedFields ==
  ASSUME NEW s, Sound(s), NEW k \in Key, s.at[k] # "none",
         NEW where \in {"buckets", "expand_buckets"},
         where = "expand_buckets" => s.at[k] = where
  PROVE  LET t == Counted(Unlink(s, k), where, -1) IN
         /\ t \in Table
         /\ \A x \in Key : /\ t.at[x] = IF x = k THEN "none" ELSE s.at[x]
                         /\ t.val[x] = IF x = k THEN None ELSE s.val[x]
         /\ t.index = s.index /\ t.stale = s.stale
         /\ t.buckets.size = s.buckets.size /\ t.expand_buckets.size = s.expand_buckets.size
         /\ t.buckets.use = IF where = "buckets" THEN s.buckets.use - 1 ELSE s.buckets.use
         /\ t.expand_buckets.use = IF where = "buckets" THEN s.expand_buckets.use
                                                     ELSE s.expand_buckets.use - 1
         /\ Expanding(t) <=> Expanding(s)
<1> DEFINE u == Unlink(s, k)
<1>1. s \in Table
  BY DEF Sound
<1>2. /\ u \in Table
      /\ u.buckets = s.buckets /\ u.expand_buckets = s.expand_buckets
      /\ u.index = s.index /\ u.stale = s.stale
      /\ \A x \in Key : /\ u.at[x] = IF x = k THEN "none" ELSE s.at[x]
                      /\ u.val[x] = IF x = k THEN None ELSE s.val[x]
  BY <1>1, UnlinkFields
<1>3. where = "expand_buckets" => Expanding(u)
  BY <1>2 DEF Sound, NodesAt, Expanding
<1>4. Expanding(u) <=> Expanding(s)
  BY <1>2 DEF Expanding
<1>5. /\ s.buckets.use \in Int
      /\ where = "expand_buckets" => s.expand_buckets.use \in Int
  BY <1>1, <1>3, <1>4 DEF Table, Expanding
<1> HIDE DEF u
<1> DEFINE t == Counted(u, where, -1)
<1>6. /\ t \in Table
      /\ t.at = u.at /\ t.val = u.val /\ t.index = u.index /\ t.stale = u.stale
      /\ t.buckets.size = u.buckets.size /\ t.expand_buckets.size = u.expand_buckets.size
      /\ t.buckets.use = IF where = "buckets" THEN u.buckets.use + (-1) ELSE u.buckets.use
      /\ t.expand_buckets.use = IF where = "buckets" THEN u.expand_buckets.use
                                                  ELSE u.expand_buckets.use + (-1)
      /\ Expanding(t) <=> Expanding(u)
  BY <1>2, <1>3, CountedFields
<1> HIDE DEF t
<1>7. t = Counted(Unlink(s, k), where, -1)
  BY DEF t, u
<1> QED
  BY <1>2, <1>4, <1>5, <1>6, <1>7

\* kvs_hash_del, whichever counter it decrements.
LEMMA UncountedIsSound ==
  ASSUME NEW s, Sound(s), NEW k \in Key, s.at[k] # "none",
         NEW where \in {"buckets", "expand_buckets"},
         where = "expand_buckets" => s.at[k] = where
  PROVE  Sound(Counted(Unlink(s, k), where, -1))
<1> DEFINE t == Counted(Unlink(s, k), where, -1)
<1>1. /\ t \in Table
      /\ \A x \in Key : t.at[x] = IF x = k THEN "none" ELSE s.at[x]
      /\ Expanding(t) <=> Expanding(s)
  BY UncountedFields
<1> QED
  BY <1>1 DEF Sound, NodesAt

\* The stale head moves on, the old table's counter pays.
LEMMA MovedOnIsSound ==
  ASSUME NEW s, Sound(s), NEW k \in Key
  PROVE  Sound(Counted([s EXCEPT !.stale = (@ \ {k}) \cup Behind(s, k), !.val[k] = None],
                       "buckets", -1))
<1> DEFINE stale == (s.stale \ {k}) \cup Behind(s, k)
           u == [s EXCEPT !.stale = stale, !.val[k] = None]
<1>1. stale \subseteq Key
  BY DEF Sound, Table, Behind, NewChain, Chain, NodesAt
<1> HIDE DEF stale
<1>2. u \in Table /\ u.at = s.at /\ u.expand_buckets = s.expand_buckets
  BY <1>1 DEF Sound, Table
<1>3. u = [s EXCEPT !.stale = (@ \ {k}) \cup Behind(s, k), !.val[k] = None]
  BY DEF stale
<1> HIDE DEF u
<1> DEFINE t == Counted(u, "buckets", -1)
<1>4. t \in Table /\ t.at = u.at /\ (Expanding(t) <=> Expanding(u))
  BY <1>2, CountedFields
<1>5. Sound(t)
  BY <1>2, <1>4 DEF Sound, NodesAt, Expanding
<1> QED
  BY <1>3, <1>5
-----------------------------------------------------------------------------
(* Type correctness *)

\* kvs_hash_new makes a sound table.
LEMMA InitTyping == Init => TypeOK /\ Sound(h)
<1> SUFFICES ASSUME Init
             PROVE  TypeOK /\ Sound(h)
  OBVIOUS
<1>1. h \in Table
  BY DEF Init, Table, NewBuckets
<1>2. NodesAt(h, "expand_buckets") = {}
  BY DEF Init, NodesAt
<1> QED
  BY <1>1, <1>2 DEF Init, TypeOK, Sound, Result

\* Every operation keeps the table sound and the results typed.
LEMMA NextTyping == TypeOK /\ Sound(h) /\ [Next]_vars => TypeOK' /\ Sound(h')
<1> SUFFICES ASSUME TypeOK, Sound(h), [Next]_vars
             PROVE  TypeOK' /\ Sound(h')
  OBVIOUS
<1>1. ASSUME NEW s, Sound(s), NEW k \in Key
      PROVE  s.val[k] \in Val \cup {None} /\ s.at[k] \in {"none", "buckets", "expand_buckets"}
  BY <1>1 DEF Sound, Table
<1>2. Sound(Rehash(h))
  BY RehashIsSound
<1>3. ASSUME Sound(h'), dangling' \subseteq Key, aliased' \in BOOLEAN,
             status' \in {"open", "freed", "fault"},
             res' \in [op: {"new", "add", "find", "del", "free"}, key: Key \cup {None},
                      rv: {-1, 0, 1}, val: Val \cup {None}]
      PROVE  TypeOK' /\ Sound(h')
  BY <1>3 DEF TypeOK, Sound, NodesAt, Expanding
<1>4. ASSUME NEW k \in Key, NEW v \in Val, Add(k, v)
      PROVE  TypeOK' /\ Sound(h')
  <2>1. PICK s \in Resized(h) :
          Replace(Rehash(s), k, v) \/ Insert(Rehash(s), k, v) \/ InsertFails(Rehash(s), k)
    BY <1>4 DEF Add
  <2>2. Sound(Rehash(s))
    BY ResizedIsSound, RehashIsSound
  <2>3. Sound(h')
    BY <2>1, <2>2, ReplaceIsSound, InsertIsSound DEF InsertFails
  <2>4. /\ res'.op = "add" /\ res'.key = k /\ res'.rv \in {-1, 0, 1} /\ res'.val \in Val \cup {None}
        /\ res' = [op |-> res'.op, key |-> res'.key, rv |-> res'.rv, val |-> res'.val]
    BY <2>1, <2>2, <1>1 DEF Replace, Insert, InsertFails, Result
  <2> QED
    BY <1>3, <1>4, <2>3, <2>4 DEF Add, TypeOK
<1>5. ASSUME NEW k \in Key, Find(k)
      PROVE  TypeOK' /\ Sound(h')
  BY <1>1, <1>2, <1>3, <1>5 DEF Find, TypeOK, Result
<1>6. ASSUME NEW k \in Key, DelMissing(k)
      PROVE  TypeOK' /\ Sound(h')
  BY <1>2, <1>3, <1>6 DEF DelMissing, TypeOK, Result
<1>7. ASSUME NEW k \in Key, DelPresent(k)
      PROVE  TypeOK' /\ Sound(h')
  <2> DEFINE s == Rehash(h)
  <2>1. s.at[k] # "none" /\ h' = Counted(Unlink(s, k), s.at[k], -1)
    BY <1>7 DEF DelPresent, Present
  <2>2. Sound(h')
    BY <1>1, <1>2, <2>1, UncountedIsSound
  <2> QED
    BY <1>1, <1>2, <1>3, <1>7, <2>2 DEF DelPresent, TypeOK, Result
<1>8. ASSUME NEW k \in Key, DelAliased(k)
      PROVE  TypeOK' /\ Sound(h')
  <2> DEFINE s == Rehash(h)
  <2>1. /\ s.at[k] # "none"
        /\ \/ h' = Counted([s EXCEPT !.stale = (@ \ {k}) \cup Behind(s, k), !.val[k] = None],
                            "buckets", -1)
           \/ h' = Counted(Unlink(s, k), "buckets", -1)
    BY <1>8 DEF DelAliased, Present
  <2>2. Sound(h')
    BY <1>2, <2>1, UncountedIsSound, MovedOnIsSound
  <2>3. dangling' \subseteq Key
    BY <1>8 DEF DelAliased, TypeOK
  <2> QED
    BY <1>1, <1>2, <1>3, <1>8, <2>2, <2>3 DEF DelAliased, TypeOK, Result
<1>9. CASE Free
  <2>1. Sound(h')
    BY <1>9 DEF Free, Sound, Table, NodesAt, Expanding
  <2> QED
    BY <1>3, <1>9, <2>1 DEF Free, TypeOK, Result
<1>10. CASE FreeTwice \/ \E k \in Key : Fault(k)
  BY <1>3, <1>10 DEF FreeTwice, Fault, TypeOK
<1>11. CASE UNCHANGED vars
  BY <1>3, <1>11 DEF vars, TypeOK
<1> QED
  BY <1>4, <1>5, <1>6, <1>7, <1>8, <1>9, <1>10, <1>11 DEF Next, Del

\* The table keeps its shape through every operation, undefined ones included,
\* and an absent second table holds no node.
THEOREM TypeCorrectness == Spec => []TypeOK
<1>1. TypeOK /\ Sound(h) /\ [Next]_vars => (TypeOK /\ Sound(h))'
  BY NextTyping DEF Sound, NodesAt, Expanding
<1> QED
  BY InitTyping, <1>1, PTL DEF Spec
-----------------------------------------------------------------------------
(***************************************************************************)
(* The inductive invariant.  While no operation went through a stale head: *)
(* the counters are exact, the buckets that kvs_hash_rehash has passed are *)
(* empty, the stale heads are the heads of passed buckets, and a key has a *)
(* value exactly if it has a node.                                         *)
(***************************************************************************)
Exact(s) == /\ s.buckets.use = Cardinality(NodesAt(s, "buckets"))
            /\ s.expand_buckets.use = Cardinality(NodesAt(s, "expand_buckets"))
Started(s) == s.index # Unused \/ s.stale # {}
Passed(s) == Expanding(s) /\ Started(s) =>
               \A k \in NodesAt(s, "buckets") : BucketOf(k, s.buckets) <= s.index
StaleArePassed(s) == /\ ~Expanding(s) => ~Started(s)
                     /\ \A k \in s.stale : BucketOf(k, s.buckets) > s.index
Valued(s) == \A k \in Key : s.val[k] = None <=> s.at[k] = "none"

Whole(s) == Sound(s) /\ Exact(s) /\ Passed(s) /\ StaleArePassed(s) /\ Valued(s)

IInv == /\ TypeOK /\ Sound(h)
        /\ status = "open" /\ ~aliased => Whole(h) /\ dangling = {}
        /\ status = "fault" => aliased

\* The hash masked by the table's size is one of its buckets.
LEMMA BucketRange ==
  ASSUME NEW s \in Table, NEW k \in Key
  PROVE  BucketOf(k, s.buckets) \in Nat /\ BucketOf(k, s.buckets) <= s.buckets.size - 1
<1>1. s.buckets.size \in Nat /\ s.buckets.size >= 1
  BY SizesArePositive DEF Table
<1>2. Hash[k] \in Nat
  BY HashAssumption
<1> QED
  BY <1>1, <1>2 DEF BucketOf

\* An unfinished rehash never reaches the end: some node is left to move.
LEMMA RehashResumes ==
  ASSUME NEW s, Whole(s), Moving(s)
  PROVE  s.index # Unused \/ s.stale = {}
<1> SUFFICES ASSUME s.index = Unused, s.stale # {}
             PROVE  FALSE
  OBVIOUS
<1>1. s \in Table /\ Expanding(s) /\ s.buckets.use # 0
  BY DEF Whole, Sound, Moving
<1>2. NodesAt(s, "buckets") = {}
  <2> SUFFICES ASSUME NEW k \in NodesAt(s, "buckets")
               PROVE  FALSE
    OBVIOUS
  <2>1. BucketOf(k, s.buckets) \in Nat
    BY <1>1, BucketRange DEF NodesAt
  <2>2. BucketOf(k, s.buckets) <= s.index
    BY <1>1 DEF Whole, Passed, Started
  <2> QED
    BY <2>1, <2>2 DEF Unused
<1> QED
  BY <1>1, <1>2, FS_EmptySet DEF Whole, Exact

\* kvs_hash_rehash never comes to a bucket it has passed.
LEMMA NoRehashFault ==
  ASSUME NEW s, Whole(s), dangling = {}
  PROVE  ~RehashFaults(s)
<1> SUFFICES ASSUME Moving(s), NEW k \in s.stale, BucketOf(k, s.buckets) \in Downto(s)..From(s)
             PROVE  FALSE
  BY DEF RehashFaults
<1>1. s \in Table /\ k \in Key
  BY DEF Whole, Sound, Table
<1>2. s.index # Unused
  BY RehashResumes
<1>3. From(s) = s.index /\ From(s) \in Nat
  BY <1>1, <1>2, DowntoRange
<1>4. BucketOf(k, s.buckets) > s.index /\ BucketOf(k, s.buckets) \in Nat
  BY <1>1, BucketRange DEF Whole, StaleArePassed
<1> QED
  BY <1>1, <1>3, <1>4, DowntoRange

\* kvs_hash_resize keeps the invariant and the contents.
LEMMA ResizedIsWhole ==
  ASSUME NEW s, Whole(s), NEW t \in Resized(s)
  PROVE  Whole(t) /\ t.val = s.val
<1>1. CASE t = s
  BY <1>1
<1>2. CASE t # s
  <2>1. PICK p \in Sizes : t = [s EXCEPT !.expand_buckets = [size |-> p, use |-> 0]]
    BY <1>2 DEF Resized, NewBuckets
  <2>2. ~Expanding(s) /\ s \in Table
    BY <1>2 DEF Resized, NeedExpand, Whole, Sound
  <2>3. /\ t.buckets = s.buckets /\ t.expand_buckets = [size |-> p, use |-> 0]
        /\ t.index = s.index /\ t.stale = s.stale /\ t.at = s.at /\ t.val = s.val
    BY <2>1, <2>2 DEF Table
  <2>4. Sound(t)
    BY ResizedIsSound DEF Whole
  <2>5. NodesAt(t, "expand_buckets") = {} /\ NodesAt(t, "buckets") = NodesAt(s, "buckets")
    BY <2>2, <2>3 DEF NodesAt, Whole, Sound
  <2>6. Exact(t)
    BY <2>3, <2>5, FS_EmptySet DEF Exact, Whole
  <2>7. ~Started(t) /\ t.stale = {}
    BY <2>2, <2>3 DEF Started, Whole, StaleArePassed
  <2> QED
    BY <2>3, <2>4, <2>6, <2>7 DEF Whole, Passed, StaleArePassed, Valued
<1> QED
  BY <1>1, <1>2

\* The swap happens when no node is left in the old table, so it loses none.
LEMMA SwapIsWhole ==
  ASSUME NEW s, Whole(s), Swapping(s)
  PROVE  Whole(Swap(s)) /\ Swap(s).val = s.val
<1> DEFINE t == Swap(s)
<1>1. s \in Table /\ Expanding(s) /\ s.buckets.use = 0
  BY DEF Whole, Sound, Swapping
<1>2. NodesAt(s, "buckets") = {}
  <2>1. IsFiniteSet(NodesAt(s, "buckets"))
    BY KeySets DEF NodesAt
  <2> QED
    BY <1>1, <2>1, FS_EmptySet DEF Whole, Exact
<1>3. /\ t.buckets = s.expand_buckets /\ t.expand_buckets = NULL
      /\ t.index = Unused /\ t.stale = {}
      /\ t.at = [k \in Key |-> IF s.at[k] = "expand_buckets" THEN "buckets" ELSE "none"]
      /\ t.val = [k \in Key |-> IF s.at[k] = "expand_buckets" THEN s.val[k] ELSE None]
  BY <1>1 DEF Swap, Table
<1>4. Sound(t)
  BY SwapIsSound DEF Whole
<1>5. ASSUME NEW k \in Key
      PROVE  s.at[k] = "expand_buckets" \/ s.at[k] = "none"
  BY <1>1, <1>2 DEF NodesAt, Table
<1>6. t.val = s.val
  <2>1. \A k \in Key : t.val[k] = s.val[k]
    BY <1>3, <1>5 DEF Whole, Valued
  <2> QED
    BY <1>1, <1>3, <2>1 DEF Table
<1>7. Valued(t)
  BY <1>3, <1>5, <1>6 DEF Whole, Valued
<1>8. /\ NodesAt(t, "buckets") = NodesAt(s, "expand_buckets")
      /\ NodesAt(t, "expand_buckets") = {}
  BY <1>3 DEF NodesAt
<1>9. Exact(t)
  BY <1>3, <1>8, FS_EmptySet DEF Exact, Whole, NULL
<1>10. ~Started(t) /\ ~Expanding(t)
  BY <1>3 DEF Started, Expanding
<1> HIDE DEF t
<1>11. Whole(t) /\ t.val = s.val
  BY <1>3, <1>4, <1>6, <1>7, <1>9, <1>10 DEF Whole, Passed, StaleArePassed
<1> QED
  BY <1>11 DEF t

\* Moving buckets keeps the invariant and the contents.
LEMMA MoveIsWhole ==
  ASSUME NEW s, Whole(s), Moving(s)
  PROVE  Whole(Move(s)) /\ Move(s).val = s.val
<1> DEFINE t == Move(s)
           M == MovedNodes(s)
<1>1. s \in Table /\ Expanding(s)
  BY DEF Whole, Sound, Moving
<1>2. /\ t \in Table
      /\ M \subseteq NodesAt(s, "buckets")
      /\ t.buckets = [s.buckets EXCEPT !.use = @ - Cardinality(M)]
      /\ t.expand_buckets = [s.expand_buckets EXCEPT !.use = @ + Cardinality(M)]
      /\ t.index = Downto(s) - 1
      /\ NodesAt(t, "buckets") = NodesAt(s, "buckets") \ M
      /\ NodesAt(t, "expand_buckets") = NodesAt(s, "expand_buckets") \cup M
      /\ t.val = s.val /\ t.stale \subseteq s.stale \cup M
  BY <1>1, MoveFields
<1>3. /\ From(s) \in Nat /\ Downto(s) \in Nat /\ Downto(s) <= From(s)
      /\ s.index # Unused => From(s) = s.index
      /\ s.index = Unused => From(s) = s.buckets.size - 1
  BY <1>1, DowntoRange
<1>4. /\ s.buckets.use \in Int /\ s.expand_buckets.use \in Int
      /\ t.buckets.size = s.buckets.size /\ t.expand_buckets.size = s.expand_buckets.size
      /\ t.buckets.use = s.buckets.use - Cardinality(M)
      /\ t.expand_buckets.use = s.expand_buckets.use + Cardinality(M)
  BY <1>1, <1>2 DEF Table, Expanding
<1>5. \A k \in M : BucketOf(k, s.buckets) \in Downto(s)..From(s)
  BY DEF MovedNodes
<1>6. \A k \in Key : BucketOf(k, t.buckets) = BucketOf(k, s.buckets)
  BY <1>4 DEF BucketOf
<1>7. Sound(t)
  <2>1. Rehash(s) = t
    BY DEF Rehash, Moving, Swapping
  <2> QED
    BY <2>1, RehashIsSound DEF Whole
<1>8. Exact(t)
  <2> DEFINE B == NodesAt(s, "buckets")
             E == NodesAt(s, "expand_buckets")
  <2>1. B \subseteq Key /\ E \subseteq Key /\ M \subseteq Key /\ B \cap E = {}
    BY <1>2 DEF NodesAt
  <2>2. /\ IsFiniteSet(B) /\ IsFiniteSet(E) /\ IsFiniteSet(M)
        /\ Cardinality(B) \in Nat /\ Cardinality(E) \in Nat /\ Cardinality(M) \in Nat
    BY <2>1, KeySets
  <2>3. B \cap M = M /\ E \cap M = {}
    BY <1>2, <2>1
  <2> HIDE DEF B, E, M
  <2>4. Cardinality(B \ M) = Cardinality(B) - Cardinality(M)
    BY <2>2, <2>3, FS_Difference
  <2>5. Cardinality(E \cup M) = Cardinality(E) + Cardinality(M)
    BY <2>2, <2>3, FS_Union, FS_EmptySet
  <2>6. s.buckets.use = Cardinality(B) /\ s.expand_buckets.use = Cardinality(E)
    BY DEF Whole, Exact, B, E
  <2>7. /\ t.buckets.use = Cardinality(B \ M)
        /\ t.expand_buckets.use = Cardinality(E \cup M)
    BY <1>4, <2>4, <2>5, <2>6
  <2> QED
    BY <1>2, <2>7 DEF Exact, B, E, M
<1>9. ASSUME NEW k \in NodesAt(t, "buckets")
      PROVE  BucketOf(k, t.buckets) <= t.index
  <2>1. k \in NodesAt(s, "buckets") /\ k \notin M /\ k \in Key
    BY <1>2, <1>9 DEF NodesAt
  <2>2. BucketOf(k, s.buckets) \in Nat /\ BucketOf(k, s.buckets) <= s.buckets.size - 1
    BY <1>1, <2>1, BucketRange
  <2>3. BucketOf(k, s.buckets) \notin Downto(s)..From(s)
    BY <2>1 DEF MovedNodes
  <2>4. s.index # Unused => BucketOf(k, s.buckets) <= s.index
    BY <1>1, <2>1 DEF Whole, Passed, Started
  <2>5. BucketOf(k, s.buckets) <= From(s)
    BY <1>3, <2>2, <2>4
  <2> HIDE DEF t, M
  <2> QED
    BY <1>2, <1>3, <1>6, <2>1, <2>2, <2>3, <2>5
<1>10. ASSUME NEW k \in t.stale
       PROVE  BucketOf(k, t.buckets) > t.index
  <2>1. k \in Key
    BY <1>2, <1>10 DEF Table
  <2>2. BucketOf(k, s.buckets) \in Nat
    BY <1>1, <2>1, BucketRange
  <2>3. CASE k \in M
    BY <1>2, <1>3, <1>5, <1>6, <2>1, <2>2, <2>3
  <2>4. CASE k \in s.stale
    <3>1. s.index # Unused /\ BucketOf(k, s.buckets) > s.index
      BY <2>4, RehashResumes DEF Whole, StaleArePassed
    <3> QED
      BY <1>2, <1>3, <1>6, <2>1, <2>2, <3>1
  <2> QED
    BY <1>2, <1>10, <2>3, <2>4
<1>11. Expanding(t)
  <2>1. s.expand_buckets.size \in Nat \ {0}
    BY <1>1, SizesArePositive DEF Table, Expanding
  <2> QED
    BY <1>4, <2>1 DEF Expanding, NULL
<1>12. Valued(t)
  <2>1. \A k \in Key : t.at[k] = "none" <=> s.at[k] = "none"
    BY <1>1, <1>2 DEF NodesAt, Table
  <2> QED
    BY <1>2, <2>1 DEF Whole, Valued
<1> HIDE DEF t
<1>13. Whole(t) /\ t.val = s.val
  BY <1>2, <1>7, <1>8, <1>9, <1>10, <1>11, <1>12 DEF Whole, Passed, StaleArePassed
<1> QED
  BY <1>13 DEF t

\* kvs_hash_rehash keeps the invariant and the contents.
LEMMA RehashIsWhole ==
  ASSUME NEW s, Whole(s)
  PROVE  Whole(Rehash(s)) /\ Rehash(s).val = s.val
BY SwapIsWhole, MoveIsWhole DEF Rehash

\* Replacing a value in kvs_hash_add keeps the invariant.
LEMMA ReplaceIsWhole ==
  ASSUME NEW s, Whole(s), NEW k \in Key, NEW v \in Val, Replace(s, k, v)
  PROVE  Whole(h') /\ h'.val = [s.val EXCEPT ![k] = v]
<1>1. h' = [s EXCEPT !.val[k] = v] /\ s \in Table /\ s.at[k] # "none"
  BY DEF Replace, Present, Whole, Sound
<1>2. /\ h'.buckets = s.buckets /\ h'.expand_buckets = s.expand_buckets
      /\ h'.index = s.index /\ h'.stale = s.stale /\ h'.at = s.at
      /\ h'.val = [s.val EXCEPT ![k] = v]
  BY <1>1 DEF Table
<1>3. Sound(h')
  BY ReplaceIsSound DEF Whole
<1>4. Valued(h')
  BY <1>1, <1>2, NoneAssumption DEF Whole, Valued, Table
<1> QED
  BY <1>2, <1>3, <1>4 DEF Whole, Exact, Passed, Started, StaleArePassed, NodesAt, Expanding

\* Inserting a node in kvs_hash_add keeps the invariant.
LEMMA InsertIsWhole ==
  ASSUME NEW s, Whole(s), NEW k \in Key, s.at[k] = "none", NEW v \in Val, Insert(s, k, v)
  PROVE  Whole(h') /\ h'.val = [s.val EXCEPT ![k] = v]
<1> DEFINE where == IF Expanding(s) THEN "expand_buckets" ELSE "buckets"
           chain == IF Expanding(s) THEN NewChain(s, k) ELSE OldChain(s, k)
           n == Cardinality(chain) + 1
           t == Linked(s, k, v, where, n)
           B == NodesAt(s, "buckets")
           E == NodesAt(s, "expand_buckets")
<1>1. h' = Counted(t, where, 1)
  BY DEF Insert
<1>2. n \in Nat
  <2>1. chain \subseteq Key
    BY DEF NewChain, OldChain, Chain, NodesAt
  <2> HIDE DEF chain
  <2> QED
    BY <2>1, KeySets
<1>3. s \in Table /\ where \in {"buckets", "expand_buckets"} /\ Sound(s)
  BY DEF Whole, Sound
<1> HIDE DEF n, chain
<1>4. where = "expand_buckets" <=> Expanding(s)
  BY DEF where
<1> HIDE DEF where
<1>5. /\ t \in Table /\ t.buckets = s.buckets /\ t.expand_buckets = s.expand_buckets
      /\ t.index = s.index /\ t.stale = s.stale
      /\ \A x \in Key : /\ t.at[x] = IF x = k THEN where ELSE s.at[x]
                      /\ t.val[x] = IF x = k THEN v ELSE s.val[x]
  BY <1>2, <1>3, LinkFields
<1> HIDE DEF t
<1>6. Expanding(t) <=> Expanding(s)
  BY <1>5 DEF Expanding
<1>7. /\ h' \in Table
      /\ h'.at = t.at /\ h'.val = t.val /\ h'.index = t.index /\ h'.stale = t.stale
      /\ h'.buckets.size = t.buckets.size
      /\ h'.buckets.use = IF where = "buckets" THEN t.buckets.use + 1 ELSE t.buckets.use
      /\ h'.expand_buckets.use = IF where = "buckets" THEN t.expand_buckets.use
                                                      ELSE t.expand_buckets.use + 1
      /\ Expanding(h') <=> Expanding(t)
  BY <1>1, <1>3, <1>4, <1>5, <1>6, CountedFields
<1>8. Sound(h')
  BY <1>3, InsertIsSound
<1>9. /\ NodesAt(h', "buckets") = IF where = "buckets" THEN B \cup {k} ELSE B
      /\ NodesAt(h', "expand_buckets") = IF where = "buckets" THEN E ELSE E \cup {k}
  BY <1>3, <1>5, <1>7 DEF NodesAt
<1>10. Exact(h')
  <2>1. IsFiniteSet(B) /\ IsFiniteSet(E) /\ k \notin B /\ k \notin E
    BY KeySets DEF NodesAt
  <2>2. s.buckets.use = Cardinality(B) /\ s.expand_buckets.use = Cardinality(E)
    BY DEF Whole, Exact
  <2> HIDE DEF B, E
  <2>3. Cardinality(B \cup {k}) = Cardinality(B) + 1 /\ Cardinality(E \cup {k}) = Cardinality(E) + 1
    BY <2>1, FS_AddElement
  <2>4. CASE where = "buckets"
    <3>1. /\ NodesAt(h', "buckets") = B \cup {k} /\ NodesAt(h', "expand_buckets") = E
          /\ h'.buckets.use = s.buckets.use + 1 /\ h'.expand_buckets.use = s.expand_buckets.use
      BY <1>5, <1>7, <1>9, <2>4
    <3> QED
      BY <2>2, <2>3, <3>1 DEF Exact
  <2>5. CASE where # "buckets"
    <3>1. /\ NodesAt(h', "buckets") = B /\ NodesAt(h', "expand_buckets") = E \cup {k}
          /\ h'.expand_buckets.use = s.expand_buckets.use + 1 /\ h'.buckets.use = s.buckets.use
      BY <1>5, <1>7, <1>9, <2>5
    <3> QED
      BY <2>2, <2>3, <3>1 DEF Exact
  <2> QED
    BY <2>4, <2>5
<1>11. Valued(h') /\ h'.val = [s.val EXCEPT ![k] = v]
  <2>1. h'.val \in [Key -> Val \cup {None}] /\ s.val \in [Key -> Val \cup {None}]
    BY <1>3, <1>7 DEF Table
  <2> QED
    BY <1>3, <1>5, <1>7, <2>1, NoneAssumption DEF Whole, Valued
<1>12. BucketOf(k, h'.buckets) = BucketOf(k, s.buckets)
  BY <1>5, <1>7 DEF BucketOf
<1>13. Passed(h') /\ StaleArePassed(h')
  BY <1>3, <1>4, <1>5, <1>6, <1>7, <1>9
     DEF Whole, Passed, Started, StaleArePassed, BucketOf
<1> QED
  BY <1>8, <1>10, <1>11, <1>13 DEF Whole

\* kvs_hash_del keeps the invariant when it finds the node in its own table.
LEMMA DelIsWhole ==
  ASSUME NEW s, Whole(s), NEW k \in Key, s.at[k] # "none"
  PROVE  LET t == Counted(Unlink(s, k), s.at[k], -1)
         IN  Whole(t) /\ t.val = [s.val EXCEPT ![k] = None]
<1> DEFINE where == s.at[k]
           t == Counted(Unlink(s, k), where, -1)
           B == NodesAt(s, "buckets")
           E == NodesAt(s, "expand_buckets")
<1>1. s \in Table /\ where \in {"buckets", "expand_buckets"} /\ Sound(s)
  BY DEF Whole, Sound, Table
<1>2. /\ t \in Table
      /\ \A x \in Key : /\ t.at[x] = IF x = k THEN "none" ELSE s.at[x]
                      /\ t.val[x] = IF x = k THEN None ELSE s.val[x]
      /\ t.index = s.index /\ t.stale = s.stale
      /\ t.buckets.size = s.buckets.size /\ t.expand_buckets.size = s.expand_buckets.size
      /\ t.buckets.use = IF where = "buckets" THEN s.buckets.use - 1 ELSE s.buckets.use
      /\ t.expand_buckets.use = IF where = "buckets" THEN s.expand_buckets.use
                                                  ELSE s.expand_buckets.use - 1
      /\ Expanding(t) <=> Expanding(s)
  BY <1>1, UncountedFields
<1>3. Sound(t)
  BY <1>1, UncountedIsSound
<1> HIDE DEF t
<1>4. /\ NodesAt(t, "buckets") = IF where = "buckets" THEN B \ {k} ELSE B
      /\ NodesAt(t, "expand_buckets") = IF where = "buckets" THEN E ELSE E \ {k}
  BY <1>1, <1>2 DEF NodesAt
<1>5. Exact(t)
  <2>1. /\ IsFiniteSet(B) /\ IsFiniteSet(E)
        /\ IF where = "buckets" THEN k \in B ELSE k \in E
    BY <1>1, KeySets DEF NodesAt
  <2>2. s.buckets.use = Cardinality(B) /\ s.expand_buckets.use = Cardinality(E)
    BY DEF Whole, Exact
  <2> HIDE DEF B, E
  <2>3. IF where = "buckets" THEN Cardinality(B \ {k}) = Cardinality(B) - 1
                             ELSE Cardinality(E \ {k}) = Cardinality(E) - 1
    BY <2>1, FS_RemoveElement
  <2> QED
    BY <1>2, <1>4, <2>2, <2>3 DEF Exact
<1>6. Valued(t) /\ t.val = [s.val EXCEPT ![k] = None]
  <2>1. t.val \in [Key -> Val \cup {None}] /\ s.val \in [Key -> Val \cup {None}]
    BY <1>1, <1>2 DEF Table
  <2> QED
    BY <1>2, <2>1 DEF Whole, Valued
<1>7. Passed(t) /\ StaleArePassed(t)
  BY <1>2, <1>4 DEF Whole, Passed, Started, StaleArePassed, BucketOf
<1> QED
  BY <1>3, <1>5, <1>6, <1>7 DEF Whole, t
-----------------------------------------------------------------------------
(* The invariant and what follows from it *)

\* A rehashed table, and the search in it, in a state that satisfies IInv and
\* in which no operation went through a stale head.
LEMMA SearchIsSafe ==
  ASSUME NEW s, Whole(s), dangling = {}
  PROVE  /\ ~RehashFaults(s)
         /\ \A k \in Key : ~SearchFaults(s, k) /\ (Present(s, k) <=> s.at[k] # "none")
BY NoRehashFault DEF SearchFaults, Present

\* What one operation does while no operation went through a stale head.
LEMMA Operations ==
  ASSUME TypeOK, Whole(h), dangling = {}, status = "open", ~aliased, [Next]_vars, ~aliased'
  PROVE  /\ status' = "open" => Whole(h')
         /\ dangling' = {} /\ status' \in {"open", "freed"}
         /\ \/ \E k \in Key, v \in Val : Add(k, v) /\ Map!Add(k, v)
            \/ \E k \in Key : Find(k) /\ Map!Find(k)
            \/ \E k \in Key : Del(k) /\ Map!Del(k)
            \/ Free /\ Map!Free
            \/ UNCHANGED vars
<1>1. Whole(Rehash(h)) /\ Rehash(h).val = h.val
  BY RehashIsWhole
<1>2. ASSUME NEW s, Whole(s), NEW k \in Key
      PROVE  Present(s, k) <=> s.val[k] # None
  BY <1>2, SearchIsSafe DEF Whole, Valued
<1>3. ASSUME NEW k \in Key, NEW v \in Val, Add(k, v)
      PROVE  Whole(h') /\ dangling' = {} /\ status' = "open" /\ Map!Add(k, v)
  <2>1. PICK s \in Resized(h) :
          Replace(Rehash(s), k, v) \/ Insert(Rehash(s), k, v) \/ InsertFails(Rehash(s), k)
    BY <1>3 DEF Add
  <2> DEFINE r == Rehash(s)
  <2>2. Whole(r) /\ r.val = h.val
    BY ResizedIsWhole, RehashIsWhole
  <2>3. dangling' = {} /\ status' = status
    BY <1>3 DEF Add
  <2> HIDE DEF r
  <2>4. CASE Replace(r, k, v)
    BY <1>2, <2>2, <2>3, <2>4, ReplaceIsWhole DEF Replace, Map!Add, Map!Result, Result
  <2>5. CASE Insert(r, k, v)
    <3>1. r.at[k] = "none" /\ h.val[k] = None
      BY <1>2, <2>2, <2>5, SearchIsSafe DEF Insert
    <3> QED
      BY <2>2, <2>3, <2>5, <3>1, InsertIsWhole DEF Insert, Map!Add, Map!Result, Result
  <2>6. CASE InsertFails(r, k)
    BY <1>2, <2>2, <2>3, <2>6 DEF InsertFails, Map!Add, Map!Result, Result
  <2> QED
    BY <2>1, <2>4, <2>5, <2>6 DEF r
<1>4. ASSUME NEW k \in Key, Find(k)
      PROVE  Whole(h') /\ dangling' = {} /\ status' = "open" /\ Map!Find(k)
  BY <1>1, <1>4 DEF Find, Map!Find, Map!Result, Result
<1>5. ASSUME NEW k \in Key, DelMissing(k)
      PROVE  Whole(h') /\ dangling' = {} /\ status' = "open" /\ Map!Del(k)
  <2>1. h.val[k] = None
    BY <1>1, <1>2, <1>5 DEF DelMissing
  <2>2. [h.val EXCEPT ![k] = None] = h.val
    BY <2>1 DEF TypeOK, Table
  <2> QED
    BY <1>1, <1>5, <2>1, <2>2 DEF DelMissing, Map!Del, Map!Result, Result
<1>6. ASSUME NEW k \in Key, DelPresent(k)
      PROVE  Whole(h') /\ dangling' = {} /\ status' = "open" /\ Map!Del(k)
  <2> DEFINE r == Rehash(h)
  <2>1. r.at[k] # "none" /\ h' = Counted(Unlink(r, k), r.at[k], -1) /\ h.val[k] # None
    BY <1>1, <1>2, <1>6 DEF DelPresent, Present
  <2>2. Whole(h') /\ h'.val = [h.val EXCEPT ![k] = None]
    BY <1>1, <2>1, DelIsWhole
  <2> QED
    BY <1>1, <1>6, <2>1, <2>2 DEF DelPresent, Map!Del, Map!Result, Result
<1>7. ASSUME Free
      PROVE  dangling' = {} /\ status' = "freed" /\ Map!Free
  BY <1>7 DEF Free, Map!Free, Map!Result, Result, TypeOK, Table
<1>8. ASSUME NEW k \in Key
      PROVE  ~DelAliased(k) /\ ~Fault(k) /\ ~FreeTwice
  BY <1>1, <1>8, SearchIsSafe DEF DelAliased, Fault, FreeTwice
<1>9. CASE UNCHANGED vars
  BY <1>9 DEF vars
<1>10. ~FreeTwice
  BY DEF FreeTwice
<1> QED
  BY <1>3, <1>4, <1>5, <1>6, <1>7, <1>8, <1>9, <1>10 DEF Next, Del

\* Once through a stale head, always; and nothing follows kvs_hash_free or
\* undefined behaviour.
LEMMA HistoryGrows ==
  ASSUME TypeOK, [Next]_vars
  PROVE  /\ aliased => aliased'
         /\ status # "open" => UNCHANGED vars
<1>1. ASSUME NEW k \in Key, NEW v \in Val, Add(k, v)
      PROVE  status = "open" /\ aliased' = aliased
  BY <1>1 DEF Add, Searched
<1>2. ASSUME NEW k \in Key, Find(k) \/ DelMissing(k) \/ DelPresent(k)
      PROVE  status = "open" /\ aliased' = aliased
  BY <1>2 DEF Find, DelMissing, DelPresent, Searched
<1>3. ASSUME NEW k \in Key, DelAliased(k) \/ Fault(k)
      PROVE  status = "open" /\ (aliased => aliased')
  BY <1>3 DEF DelAliased, Fault, Searched
<1>4. CASE Free \/ FreeTwice
  BY <1>4 DEF Free, FreeTwice
<1>5. CASE UNCHANGED vars
  BY <1>5 DEF vars
<1> QED
  BY <1>1, <1>2, <1>3, <1>4, <1>5 DEF Next, Del

\* Nothing breaks the table until an operation goes through a stale head.
THEOREM Inductive == Spec => []IInv
<1>1. Init => IInv
  <2> SUFFICES ASSUME Init
               PROVE  IInv
    OBVIOUS
  <2>1. TypeOK /\ Sound(h)
    BY InitTyping
  <2>2. /\ h.buckets.use = 0 /\ h.expand_buckets = NULL /\ h.index = Unused /\ h.stale = {}
        /\ \A k \in Key : h.at[k] = "none" /\ h.val[k] = None
    BY DEF Init, NewBuckets
  <2>3. NodesAt(h, "buckets") = {} /\ NodesAt(h, "expand_buckets") = {}
    BY <2>2 DEF NodesAt
  <2>4. Exact(h)
    BY <2>2, <2>3, FS_EmptySet DEF Exact, NULL
  <2> QED
    BY <2>1, <2>2, <2>3, <2>4
       DEF Init, IInv, Whole, Passed, StaleArePassed, Started, Valued, Expanding
<1>2. IInv /\ [Next]_vars => IInv'
  <2> SUFFICES ASSUME IInv, [Next]_vars
               PROVE  IInv'
    OBVIOUS
  <2>1. TypeOK' /\ Sound(h') /\ TypeOK
    BY NextTyping DEF IInv
  <2>2. CASE status = "open" /\ ~aliased /\ ~aliased'
    <3>1. (status' = "open" => Whole(h')) /\ dangling' = {} /\ status' \in {"open", "freed"}
      BY <2>1, <2>2, Operations DEF IInv
    <3> QED
      BY <2>1, <2>2, <3>1 DEF IInv, Whole, Sound, Exact, Passed, Started, StaleArePassed, Valued,
                              NodesAt, Expanding
  <2>3. CASE aliased'
    BY <2>1, <2>3 DEF IInv, Sound, NodesAt, Expanding
  <2>4. CASE status # "open" /\ ~aliased'
    BY <2>1, <2>4, HistoryGrows
       DEF IInv, vars, Sound, NodesAt, Expanding
  <2> QED
    BY <2>1, <2>2, <2>3, <2>4, HistoryGrows DEF TypeOK
<1> QED
  BY <1>1, <1>2, PTL DEF Spec

\* The use counters, by which kvs_hash_rehash decides to free the old table,
\* count its nodes.
THEOREM CountersAreExact == Spec => []UseIsExact
<1>1. IInv => UseIsExact
  BY DEF IInv, UseIsExact, Whole, Exact
<1> QED
  BY Inductive, <1>1, PTL

\* kvs_hash_rehash and kvs_hash_add leave the passed buckets empty.
THEOREM PassedBucketsAreEmpty == Spec => []MigratedStayEmpty
<1>1. IInv => MigratedStayEmpty
  BY DEF IInv, MigratedStayEmpty, Whole, Passed, Started
<1> QED
  BY Inductive, <1>1, PTL

\* kvs_hash_find_core and kvs_hash_rehash meet no freed node and make no cycle
\* before an operation went through a stale head.
THEOREM FaultsNeedAliasing == Spec => []FaultOnlyAfterAliasing
<1>1. IInv => FaultOnlyAfterAliasing
  BY DEF IInv, FaultOnlyAfterAliasing
<1> QED
  BY Inductive, <1>1, PTL

\* Callers that never delete through a stale head never have done so.
LEMMA NoAliasing ==
  ASSUME AliasedOps = FALSE
  PROVE  Spec => []~aliased
<1>1. Init => ~aliased
  BY DEF Init
<1>2. ~aliased /\ [Next]_vars => ~aliased'
  BY DEF Next, Add, Find, Del, DelMissing, DelPresent, DelAliased, Free, FreeTwice, Fault, vars
<1> QED
  BY <1>1, <1>2, PTL DEF Spec

\* The table is a dictionary: each call of kvs_hash_add, _find, _del and _free
\* has the effect and the results that KvsMap states, and the rehash in it
\* none, as long as no key is deleted through a stale head.
THEOREM ImplementsDictionary ==
  ASSUME AliasedOps = FALSE
  PROVE  Spec => ImplementsMap
<1>1. Init => Map!Init
  BY DEF Init, Map!Init, Map!Result, Result
<1>2. IInv /\ ~aliased /\ ~aliased' /\ [Next]_vars => [Map!Next]_Map!vars
  <2> SUFFICES ASSUME IInv, ~aliased, ~aliased', [Next]_vars
               PROVE  [Map!Next]_Map!vars
    OBVIOUS
  <2>1. CASE status = "open"
    BY <2>1, Operations DEF IInv, Map!Next, Map!vars, vars
  <2>2. CASE status # "open"
    BY <2>2, HistoryGrows DEF IInv, Map!vars, vars
  <2> QED
    BY <2>1, <2>2
<1> QED
  BY <1>1, <1>2, Inductive, NoAliasing, PTL DEF Spec, ImplementsMap, Map!Spec

\* No rehash, swap or operation on another key removes a key.
THEOREM NoKeyIsLost ==
  ASSUME AliasedOps = FALSE
  PROVE  Spec => NothingLost
<1> DEFINE A == \A k \in Key : Present(h, k) /\ ~Present(h, k)' =>
                  res'.op = "free" \/ (res'.op = "del" /\ res'.key = k /\ res'.rv = 0)
<1>1. IInv /\ IInv' /\ ~aliased /\ ~aliased' /\ [Next]_vars => [A]_vars
  <2> SUFFICES ASSUME IInv, IInv', ~aliased, ~aliased', [Next]_vars,
                      NEW k \in Key, Present(h, k), ~Present(h, k)'
               PROVE  UNCHANGED vars \/ res'.op = "free"
                      \/ (res'.op = "del" /\ res'.key = k /\ res'.rv = 0)
    BY DEF A
  <2>1. CASE status # "open"
    BY <2>1, HistoryGrows DEF IInv
  <2>2. CASE status = "open"
    <3>1. Whole(h) /\ dangling = {}
      BY <2>2 DEF IInv
    <3>2. h.val[k] # None
      BY <3>1, SearchIsSafe DEF Whole, Valued
    <3>3. status' = "open" => h'.val[k] = None
      <4>1. status' = "open" => Whole(h') /\ dangling' = {}
        BY <2>2, <3>1, Operations DEF IInv
      <4> QED
        BY <4>1 DEF Whole, Valued, Present
    <3>4. h.val \in [Key -> Val \cup {None}]
      BY DEF IInv, TypeOK, Table
    <3>5. ASSUME NEW x \in Key, NEW v \in Val, Add(x, v), Map!Add(x, v)
          PROVE  FALSE
      <4>1. h'.val[k] # None
        BY <3>2, <3>4, <3>5, NoneAssumption DEF Map!Add
      <4> QED
        BY <2>2, <3>3, <3>5, <4>1 DEF Add
    <3>6. ASSUME NEW x \in Key, Find(x), Map!Find(x)
          PROVE  FALSE
      BY <2>2, <3>2, <3>3, <3>6 DEF Find, Map!Find
    <3>7. ASSUME NEW x \in Key, Del(x), Map!Del(x)
          PROVE  res'.op = "del" /\ res'.key = k /\ res'.rv = 0
      <4>1. status' = "open"
        BY <2>2, <3>7 DEF Del, DelMissing, DelPresent, DelAliased
      <4>2. x = k
        BY <3>2, <3>3, <3>4, <3>7, <4>1 DEF Map!Del
      <4> QED
        BY <3>2, <3>7, <4>2 DEF Map!Del, Map!Result
    <3>8. CASE Free
      BY <3>8 DEF Free, Result
    <3> QED
      BY <2>2, <3>1, <3>5, <3>6, <3>7, <3>8, Operations DEF IInv
  <2> QED
    BY <2>1, <2>2
<1> QED
  BY <1>1, Inductive, NoAliasing, PTL DEF Spec, NothingLost
-----------------------------------------------------------------------------
(***************************************************************************)
(* The pace of the migration.  A call inserts one node at most and moves   *)
(* Step buckets: two calls' nodes pay for no more than the buckets moved   *)
(* since the expansion began, at one node more than there are buckets.     *)
(***************************************************************************)
Total(s) == s.buckets.use + s.expand_buckets.use

\* The buckets that the migration has passed, and one more when it is through.
Pace(s) == IF s.index = Unused THEN s.buckets.size + 1 ELSE s.buckets.size - 1 - s.index

\* n nodes more may come.
TimelyFor(s, n) ==
  IF Expanding(s)
  THEN /\ s.expand_buckets.size >= 2 * s.buckets.size
       /\ 2 * (Total(s) + n - s.buckets.size - 1) <= Pace(s)
       /\ s.index = Unused => s.buckets.use = 0
  ELSE s.buckets.use + n <= s.buckets.size + 1

\* A key more than there are buckets finds a table of twice the size.
Growable == \A p \in Sizes : p < Cardinality(Key) => \E q \in Sizes : q >= 2 * p

\* What the pace rests on: memory, Step, the smallest size and the largest.
PaceAssumed == /\ AllocFails = FALSE /\ Step >= 2 /\ Growable
               /\ \A p \in Sizes : p >= 2

\* The numbers of a whole table.
LEMMA Numbers ==
  ASSUME NEW s, Whole(s)
  PROVE  /\ s \in Table
         /\ s.buckets.use \in Nat /\ s.expand_buckets.use \in Nat
         /\ s.buckets.size \in Sizes /\ s.buckets.size \in Nat /\ s.buckets.size >= 1
         /\ s.index \in Int /\ s.index >= -1
         /\ Expanding(s) => s.expand_buckets.size \in Nat
<1>1. s \in Table
  BY DEF Whole, Sound
<1>2. NodesAt(s, "buckets") \subseteq Key /\ NodesAt(s, "expand_buckets") \subseteq Key
  BY DEF NodesAt
<1>3. s.buckets.use \in Nat /\ s.expand_buckets.use \in Nat
  BY <1>2, KeySets DEF Whole, Exact
<1>4. s.buckets.size \in Sizes /\ s.index \in {Unused} \cup Nat
  BY <1>1 DEF Table
<1>5. Expanding(s) => s.expand_buckets.size \in Sizes
  BY <1>1 DEF Table, Expanding
<1> QED
  BY <1>1, <1>3, <1>4, <1>5, SizesArePositive DEF Unused

\* A table that is in time holds no more than it may.
LEMMA TotalIsBounded ==
  ASSUME NEW s, Whole(s), Expanding(s), NEW n \in Nat, TimelyFor(s, n), PaceAssumed
  PROVE  Total(s) + n <= s.expand_buckets.size
<1>1. s.buckets.size >= 2 /\ Total(s) \in Nat
  BY Numbers DEF PaceAssumed, Total
<1>2. Pace(s) <= s.buckets.size + 1
  BY Numbers DEF Pace
<1>3. /\ s.expand_buckets.size >= 2 * s.buckets.size
      /\ 2 * (Total(s) + n - s.buckets.size - 1) <= Pace(s)
  BY DEF TimelyFor
<1>4. Pace(s) \in Int
  BY Numbers DEF Pace, Unused
<1>5. s.buckets.size \in Nat /\ s.expand_buckets.size \in Nat
  BY Numbers
<1> QED
  BY <1>1, <1>2, <1>3, <1>4, <1>5

\* What is in time for a node more is in time without it.
LEMMA InTimeForLess ==
  ASSUME NEW s, Whole(s), TimelyFor(s, 1)
  PROVE  TimelyFor(s, 0)
<1>1. Total(s) \in Int /\ Pace(s) \in Int
  BY Numbers DEF Total, Pace, Unused
<1> QED
  BY <1>1, Numbers DEF TimelyFor

\* The buckets above the new index are empty after a call of kvs_hash_rehash.
LEMMA MovePasses ==
  ASSUME NEW s, Whole(s), Moving(s), NEW k \in NodesAt(Move(s), "buckets")
  PROVE  BucketOf(k, s.buckets) <= Move(s).index
<1> DEFINE t == Move(s)
           M == MovedNodes(s)
<1>1. s \in Table /\ Expanding(s)
  BY DEF Whole, Sound, Moving
<1>2. t.index = Downto(s) - 1 /\ NodesAt(t, "buckets") = NodesAt(s, "buckets") \ M
  BY <1>1, MoveFields
<1>3. /\ From(s) \in Nat /\ Downto(s) \in Nat /\ Downto(s) <= From(s)
      /\ s.index # Unused => From(s) = s.index
      /\ s.index = Unused => From(s) = s.buckets.size - 1
  BY <1>1, DowntoRange
<1>4. k \in NodesAt(s, "buckets") /\ k \notin M /\ k \in Key
  BY <1>2 DEF NodesAt
<1>5. BucketOf(k, s.buckets) \in Nat /\ BucketOf(k, s.buckets) <= s.buckets.size - 1
  BY <1>1, <1>4, BucketRange
<1>6. BucketOf(k, s.buckets) \notin Downto(s)..From(s)
  BY <1>4 DEF MovedNodes
<1>7. s.index # Unused => BucketOf(k, s.buckets) <= s.index
  BY <1>1, <1>4 DEF Whole, Passed, Started
<1>8. BucketOf(k, s.buckets) <= From(s)
  BY <1>3, <1>5, <1>7
<1> HIDE DEF t, M
<1>9. BucketOf(k, s.buckets) <= t.index
  BY <1>2, <1>3, <1>5, <1>6, <1>8
<1> QED
  BY <1>9 DEF t

\* Where the index comes to.
LEMMA IndexMoves ==
  ASSUME NEW s \in Table, Step >= 2
  PROVE  \/ Downto(s) - 1 = Unused
         \/ Downto(s) - 1 \in Nat /\ Downto(s) - 1 = From(s) - Step
<1>1. From(s) \in Nat
  BY DowntoRange
<1> QED
  BY <1>1, StepAssumption DEF Downto, Unused

\* Moving buckets buys the time for one more node.
LEMMA MoveIsAhead ==
  ASSUME NEW s, Whole(s), Moving(s), PaceAssumed,
         s.expand_buckets.size >= 2 * s.buckets.size,
         IF s.index = Unused THEN Total(s) <= s.buckets.size + 1 ELSE TimelyFor(s, 0)
  PROVE  TimelyFor(Move(s), 1)
<1> DEFINE t == Move(s)
           m == Cardinality(MovedNodes(s))
<1>1. s \in Table /\ Expanding(s)
  BY DEF Whole, Sound, Moving
<1>2. Whole(t)
  BY MoveIsWhole
<1>3. /\ t.buckets = [s.buckets EXCEPT !.use = @ - m]
      /\ t.expand_buckets = [s.expand_buckets EXCEPT !.use = @ + m]
      /\ t.index = Downto(s) - 1
  BY <1>1, MoveFields
<1>4. m \in Nat
  <2>1. MovedNodes(s) \subseteq Key
    BY DEF MovedNodes, NodesAt
  <2> QED
    BY <2>1, KeySets
<1>5. t.index = Unused => t.buckets.use = 0
  <2> SUFFICES ASSUME t.index = Unused
               PROVE  t.buckets.use = 0
    OBVIOUS
  <2>1. NodesAt(t, "buckets") = {}
    <3> SUFFICES ASSUME NEW k \in NodesAt(t, "buckets")
                 PROVE  FALSE
      OBVIOUS
    <3>1. BucketOf(k, s.buckets) \in Nat
      BY <1>1, BucketRange DEF NodesAt
    <3>2. BucketOf(k, s.buckets) <= t.index
      BY MovePasses
    <3> QED
      BY <3>1, <3>2 DEF Unused
  <2> HIDE DEF t
  <2> QED
    BY <1>2, <2>1, FS_EmptySet DEF Whole, Exact
<1>6. s.buckets \in [size: Sizes, use: Int] /\ s.expand_buckets \in [size: Sizes, use: Int]
  BY <1>1 DEF Table, Expanding
<1> HIDE DEF t, m
<1>7. /\ t.buckets.size = s.buckets.size /\ t.expand_buckets.size = s.expand_buckets.size
      /\ t.buckets.use = s.buckets.use - m /\ t.expand_buckets.use = s.expand_buckets.use + m
  BY <1>3, <1>6
<1>8. Total(t) = Total(s) /\ Total(s) \in Int
  BY <1>4, <1>6, <1>7 DEF Total
<1>9. Expanding(t)
  <2>1. s.expand_buckets.size \in Nat /\ s.expand_buckets.size # 0
    BY <1>6, SizesArePositive
  <2> QED
    BY <1>7, <2>1 DEF Expanding, NULL
<1>10. 2 * (Total(s) + 1 - s.buckets.size - 1) <= Pace(t)
  <2>1. s.buckets.size \in Nat /\ s.buckets.size >= 2 /\ Step \in Nat /\ Step >= 2
    BY Numbers, StepAssumption DEF PaceAssumed
  <2>2. t.index = Unused \/ (t.index \in Nat /\ t.index = From(s) - Step)
    BY <1>1, <1>3, IndexMoves DEF PaceAssumed
  <2>3. CASE s.index = Unused
    <3>1. From(s) = s.buckets.size - 1 /\ Total(s) <= s.buckets.size + 1
      BY <1>1, <2>3, DowntoRange
    <3> QED
      BY <1>7, <1>8, <2>1, <2>2, <3>1 DEF Pace, Unused
  <2>4. CASE s.index # Unused
    <3>1. From(s) = s.index /\ s.index \in Nat
      BY <1>1, <2>4, DowntoRange, Numbers DEF Unused
    <3>2. 2 * (Total(s) - s.buckets.size - 1) <= s.buckets.size - 1 - s.index
      <4>1. 2 * (Total(s) + 0 - s.buckets.size - 1) <= Pace(s)
        BY <1>1, <2>4 DEF TimelyFor
      <4> QED
        BY <1>8, <2>1, <2>4, <4>1 DEF Pace
    <3> QED
      BY <1>7, <1>8, <2>1, <2>2, <3>1, <3>2 DEF Pace, Unused
  <2> QED
    BY <2>3, <2>4
<1> QED
  BY <1>5, <1>7, <1>8, <1>9, <1>10 DEF TimelyFor, t

\* Freeing the old table leaves room for one more node in the new one.
LEMMA SwapIsAhead ==
  ASSUME NEW s, Whole(s), Swapping(s), TimelyFor(s, 0), PaceAssumed
  PROVE  TimelyFor(Swap(s), 1)
<1>1. s \in Table /\ Expanding(s) /\ s.buckets.use = 0
  BY DEF Whole, Sound, Swapping
<1>2. Total(s) + 0 <= s.expand_buckets.size
  BY <1>1, TotalIsBounded
<1>3. s.expand_buckets.use <= s.expand_buckets.size
  BY <1>1, <1>2, Numbers DEF Total
<1>4. Swap(s).buckets = s.expand_buckets /\ ~Expanding(Swap(s))
  BY <1>1 DEF Swap, Table, Expanding
<1> HIDE DEF Expanding
<1> QED
  BY <1>1, <1>3, <1>4, Numbers DEF TimelyFor

\* kvs_hash_rehash, on its own in find and del.
LEMMA RehashIsTimely ==
  ASSUME NEW s, Whole(s), TimelyFor(s, 0), PaceAssumed
  PROVE  /\ TimelyFor(Rehash(s), 0)
         /\ Expanding(s) \/ TimelyFor(s, 1) => TimelyFor(Rehash(s), 1)
<1>1. CASE Swapping(s)
  BY <1>1, SwapIsAhead, SwapIsWhole, InTimeForLess DEF Rehash
<1>2. CASE Moving(s)
  <2>1. s.expand_buckets.size >= 2 * s.buckets.size /\ s.index # Unused
    BY <1>2 DEF Moving, TimelyFor
  <2>2. TimelyFor(Move(s), 1) /\ Whole(Move(s))
    BY <1>2, <2>1, MoveIsAhead, MoveIsWhole
  <2> QED
    BY <1>2, <2>2, InTimeForLess DEF Rehash, Swapping, Moving
<1>3. CASE ~Expanding(s)
  BY <1>3 DEF Rehash, Swapping, Moving
<1> QED
  BY <1>1, <1>2, <1>3 DEF Swapping, Moving

\* kvs_hash_add expands in time, and goes on with room for its node.
LEMMA AddIsAhead ==
  ASSUME NEW s, Whole(s), TimelyFor(s, 0), PaceAssumed, NEW t \in Resized(s)
  PROVE  TimelyFor(Rehash(t), 1)
<1>1. CASE Expanding(s)
  <2>1. t = s
    BY <1>1 DEF Resized, NeedExpand
  <2> QED
    BY <1>1, <2>1, RehashIsTimely
<1>2. CASE ~Expanding(s) /\ ~NeedExpand(s)
  <2>1. t = s
    BY <1>2 DEF Resized
  <2>2. TimelyFor(s, 1)
    BY <1>2, Numbers DEF TimelyFor, NeedExpand
  <2> QED
    BY <2>1, <2>2, RehashIsTimely
<1>3. CASE NeedExpand(s)
  <2>1. ~Expanding(s) /\ s.index = Unused /\ s.buckets.use > s.buckets.size
    BY <1>3 DEF NeedExpand, Whole, StaleArePassed, Started
  <2>2. PICK p \in Sizes : /\ IsNextPower(p, 2 * s.buckets.size)
                           /\ t = [s EXCEPT !.expand_buckets = [size |-> p, use |-> 0]]
    BY <1>3, <2>1 DEF Resized, PaceAssumed, NewBuckets
  <2>3. s.buckets.size < Cardinality(Key)
    <3>1. NodesAt(s, "buckets") \subseteq Key
      BY DEF NodesAt
    <3>2. Cardinality(NodesAt(s, "buckets")) <= Cardinality(Key) /\ Cardinality(Key) \in Nat
      BY <3>1, KeyAssumption, FS_Subset, FS_CardinalityType
    <3>3. s.buckets.use = Cardinality(NodesAt(s, "buckets"))
      BY DEF Whole, Exact
    <3> QED
      BY <2>1, <3>2, <3>3, Numbers
  <2>4. p >= 2 * s.buckets.size
    <3>1. PICK q \in Sizes : q >= 2 * s.buckets.size
      BY <2>3, Numbers DEF PaceAssumed, Growable
    <3>2. p \in Nat /\ q \in Nat /\ s.buckets.size \in Nat
      BY Numbers, SizesArePositive
    <3> QED
      BY <2>2, <3>1, <3>2 DEF IsNextPower
  <2>5. /\ t.buckets = s.buckets /\ t.expand_buckets = [size |-> p, use |-> 0]
        /\ t.index = s.index
    BY <2>2, Numbers DEF Table
  <2>6. Moving(t)
    <3>1. p # 0 /\ s.buckets.use # 0
      BY <2>1, Numbers, SizesArePositive
    <3> QED
      BY <2>5, <3>1 DEF Moving, Expanding, NULL
  <2>7. Total(t) <= t.buckets.size + 1
    BY <2>1, <2>5, Numbers DEF TimelyFor, Total
  <2>8. Whole(t)
    BY ResizedIsWhole
  <2>9. TimelyFor(Move(t), 1)
    BY <2>1, <2>4, <2>5, <2>6, <2>7, <2>8, MoveIsAhead
  <2> QED
    BY <2>6, <2>9 DEF Rehash, Swapping, Moving
<1> QED
  BY <1>1, <1>2, <1>3 DEF NeedExpand

\* Counters of a new table that are no higher than those of the old one allow.
LEMMA InTimeAgain ==
  ASSUME NEW s, NEW t, NEW n \in Nat, Whole(s), Whole(t), TimelyFor(s, n),
         Expanding(t) <=> Expanding(s), t.index = s.index,
         t.buckets.size = s.buckets.size, t.expand_buckets.size = s.expand_buckets.size,
         t.buckets.use <= s.buckets.use + (IF Expanding(s) THEN 0 ELSE n),
         Total(t) <= Total(s) + n
  PROVE  TimelyFor(t, 0)
<1>1. Total(s) \in Int /\ Total(t) \in Int
  BY Numbers DEF Total
<1>2. Pace(t) = Pace(s) /\ Pace(s) \in Int
  BY Numbers DEF Pace, Unused
<1>3. CASE Expanding(s)
  <2>1. s.index = Unused => t.buckets.use = 0
    BY <1>3, Numbers DEF TimelyFor
  <2>2. 2 * (Total(t) + 0 - t.buckets.size - 1) <= Pace(t)
    BY <1>1, <1>2, <1>3, Numbers DEF TimelyFor
  <2> QED
    BY <1>3, <2>1, <2>2 DEF TimelyFor
<1>4. CASE ~Expanding(s)
  BY <1>4, Numbers DEF TimelyFor
<1> QED
  BY <1>3, <1>4

\* Replacing a value leaves the counters alone.
LEMMA ReplaceIsTimely ==
  ASSUME NEW s, Whole(s), NEW k \in Key, NEW v \in Val, Replace(s, k, v), TimelyFor(s, 0)
  PROVE  TimelyFor(h', 0)
<1>1. h' = [s EXCEPT !.val[k] = v] /\ s \in Table
  BY DEF Replace, Whole, Sound
<1>2. /\ h'.buckets = s.buckets /\ h'.expand_buckets = s.expand_buckets
      /\ h'.index = s.index
  BY <1>1 DEF Table
<1> QED
  BY <1>2 DEF TimelyFor, Total, Pace, Expanding

\* The new node takes the time that the moved buckets bought.
LEMMA InsertIsTimely ==
  ASSUME NEW s, Whole(s), NEW k \in Key, s.at[k] = "none", NEW v \in Val, Insert(s, k, v),
         TimelyFor(s, 1)
  PROVE  TimelyFor(h', 0)
<1> DEFINE where == IF Expanding(s) THEN "expand_buckets" ELSE "buckets"
           chain == IF Expanding(s) THEN NewChain(s, k) ELSE OldChain(s, k)
           n == Cardinality(chain) + 1
           t == Linked(s, k, v, where, n)
<1>1. h' = Counted(t, where, 1)
  BY DEF Insert
<1>2. n \in Nat
  <2>1. chain \subseteq Key
    BY DEF NewChain, OldChain, Chain, NodesAt
  <2> HIDE DEF chain
  <2> QED
    BY <2>1, KeySets
<1>3. s \in Table /\ where \in {"buckets", "expand_buckets"} /\ Whole(h')
  BY InsertIsWhole DEF Whole, Sound
<1> HIDE DEF n, chain
<1>4. where = "expand_buckets" <=> Expanding(s)
  BY DEF where
<1> HIDE DEF where
<1>5. /\ t \in Table /\ t.buckets = s.buckets /\ t.expand_buckets = s.expand_buckets
      /\ t.index = s.index
  BY <1>2, <1>3, LinkFields
<1> HIDE DEF t
<1>6. Expanding(t) <=> Expanding(s)
  BY <1>5 DEF Expanding
<1>7. /\ h'.index = t.index
      /\ h'.buckets.size = t.buckets.size /\ h'.expand_buckets.size = t.expand_buckets.size
      /\ h'.buckets.use = IF where = "buckets" THEN t.buckets.use + 1 ELSE t.buckets.use
      /\ h'.expand_buckets.use = IF where = "buckets" THEN t.expand_buckets.use
                                                      ELSE t.expand_buckets.use + 1
      /\ Expanding(h') <=> Expanding(t)
  BY <1>1, <1>3, <1>4, <1>5, <1>6, CountedFields
<1>8. h'.buckets.use <= s.buckets.use + (IF Expanding(s) THEN 0 ELSE 1)
  BY <1>3, <1>4, <1>5, <1>7, Numbers
<1>9. Total(h') <= Total(s) + 1
  BY <1>3, <1>5, <1>7, Numbers DEF Total
<1> QED
  BY <1>3, <1>5, <1>6, <1>7, <1>8, <1>9, InTimeAgain

\* A deletion lowers one counter.
LEMMA DelIsTimely ==
  ASSUME NEW s, Whole(s), NEW k \in Key, s.at[k] # "none", TimelyFor(s, 0)
  PROVE  TimelyFor(Counted(Unlink(s, k), s.at[k], -1), 0)
<1> DEFINE where == s.at[k]
           t == Counted(Unlink(s, k), where, -1)
<1>1. s \in Table /\ where \in {"buckets", "expand_buckets"} /\ Sound(s) /\ Whole(t)
  BY DelIsWhole DEF Whole, Sound, Table
<1>2. /\ t.index = s.index
      /\ t.buckets.size = s.buckets.size /\ t.expand_buckets.size = s.expand_buckets.size
      /\ t.buckets.use = IF where = "buckets" THEN s.buckets.use - 1 ELSE s.buckets.use
      /\ t.expand_buckets.use = IF where = "buckets" THEN s.expand_buckets.use
                                                  ELSE s.expand_buckets.use - 1
      /\ Expanding(t) <=> Expanding(s)
  BY <1>1, UncountedFields
<1> HIDE DEF t, where
<1>3. t.buckets.use <= s.buckets.use + (IF Expanding(s) THEN 0 ELSE 0)
  BY <1>2, Numbers
<1>4. Total(t) <= Total(s) + 0
  BY <1>2, Numbers DEF Total
<1>5. TimelyFor(t, 0)
  BY <1>1, <1>2, <1>3, <1>4, InTimeAgain
<1> QED
  BY <1>5 DEF t, where

\* What one operation does to the pace.
LEMMA OperationsAreTimely ==
  ASSUME Whole(h), dangling = {}, status = "open", ~aliased, TimelyFor(h, 0), PaceAssumed,
         [Next]_vars, ~aliased', status' = "open"
  PROVE  TimelyFor(h', 0)
<1>1. Whole(Rehash(h)) /\ TimelyFor(Rehash(h), 0)
  BY RehashIsWhole, RehashIsTimely
<1>2. ASSUME NEW k \in Key, NEW v \in Val, Add(k, v)
      PROVE  TimelyFor(h', 0)
  <2>1. PICK s \in Resized(h) :
          Replace(Rehash(s), k, v) \/ Insert(Rehash(s), k, v) \/ InsertFails(Rehash(s), k)
    BY <1>2 DEF Add
  <2> DEFINE r == Rehash(s)
  <2>2. Whole(r) /\ TimelyFor(r, 1) /\ TimelyFor(r, 0)
    BY ResizedIsWhole, RehashIsWhole, AddIsAhead, InTimeForLess
  <2> HIDE DEF r
  <2>3. CASE Replace(r, k, v)
    BY <2>2, <2>3, ReplaceIsTimely
  <2>4. CASE Insert(r, k, v)
    <3>1. r.at[k] = "none"
      BY <2>2, <2>4, SearchIsSafe DEF Insert
    <3> QED
      BY <2>2, <2>4, <3>1, InsertIsTimely
  <2>5. ~InsertFails(r, k)
    BY DEF InsertFails, PaceAssumed
  <2> QED
    BY <2>1, <2>3, <2>4, <2>5 DEF r
<1>3. ASSUME NEW k \in Key, Find(k) \/ DelMissing(k)
      PROVE  TimelyFor(h', 0)
  BY <1>1, <1>3 DEF Find, DelMissing
<1>4. ASSUME NEW k \in Key, DelPresent(k)
      PROVE  TimelyFor(h', 0)
  <2> DEFINE r == Rehash(h)
  <2>1. r.at[k] # "none" /\ h' = Counted(Unlink(r, k), r.at[k], -1)
    BY <1>4 DEF DelPresent, Present
  <2> HIDE DEF r
  <2>2. Whole(r) /\ TimelyFor(r, 0)
    BY <1>1 DEF r
  <2> QED
    BY <2>1, <2>2, DelIsTimely
<1>5. ~Free /\ ~FreeTwice /\ \A k \in Key : ~DelAliased(k) /\ ~Fault(k)
  BY DEF Free, FreeTwice, DelAliased, Fault
<1>6. CASE UNCHANGED vars
  BY <1>6 DEF vars, TimelyFor, Total, Pace, Expanding
<1> QED
  BY <1>2, <1>3, <1>4, <1>5, <1>6 DEF Next, Del

\* Memory permitting, with two buckets or more per operation and sizes enough for
\* the keys, the migration ends before the new table is overfull, and a table at
\* rest has one node more than buckets at the most: chains stay short
\* (kvs_hash_rehash, kvs_hash_need_expand).
THEOREM LoadStaysBounded ==
  ASSUME PaceAssumed
  PROVE  Spec => []LoadBounded
<1> DEFINE InTime == status = "open" /\ ~aliased => TimelyFor(h, 0)
<1>1. Init => InTime
  <2> SUFFICES ASSUME Init
               PROVE  TimelyFor(h, 0)
    OBVIOUS
  <2>1. PICK p \in Sizes : h.buckets = [size |-> p, use |-> 0] /\ h.expand_buckets = NULL
    BY DEF Init, InitialSize, NewBuckets
  <2>2. p \in Nat
    BY SizesArePositive
  <2> QED
    BY <2>1, <2>2 DEF TimelyFor, Expanding
<1>2. IInv /\ InTime /\ [Next]_vars => InTime'
  <2> SUFFICES ASSUME IInv, InTime, [Next]_vars, status' = "open", ~aliased'
               PROVE  TimelyFor(h', 0)
    BY DEF TimelyFor, Total, Pace, Expanding
  <2>1. status = "open" /\ ~aliased
    BY HistoryGrows DEF IInv, vars
  <2> QED
    BY <2>1, OperationsAreTimely DEF IInv
<1>3. IInv /\ InTime => LoadBounded
  <2> SUFFICES ASSUME IInv, InTime, status = "open", ~aliased
               PROVE  IF Expanding(h)
                      THEN h.buckets.use + h.expand_buckets.use <= h.expand_buckets.size
                      ELSE h.buckets.use <= h.buckets.size + 1
    BY DEF LoadBounded
  <2>1. Whole(h) /\ TimelyFor(h, 0)
    BY DEF IInv
  <2>2. CASE Expanding(h)
    <3>1. Total(h) + 0 <= h.expand_buckets.size
      BY <2>1, <2>2, TotalIsBounded
    <3> QED
      BY <2>1, <2>2, <3>1, Numbers DEF Total
  <2>3. CASE ~Expanding(h)
    BY <2>1, <2>3, Numbers DEF TimelyFor
  <2> QED
    BY <2>2, <2>3
<1> QED
  BY <1>1, <1>2, <1>3, Inductive, PTL DEF Spec
=============================================================================
