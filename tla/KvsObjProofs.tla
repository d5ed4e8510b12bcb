---------------------------- MODULE KvsObjProofs ----------------------------
(***************************************************************************)
(* Theorems about KvsObj, for any number of clients, keys and values.  The *)
(* invariants are inductive together with one fact about the connections:  *)
(* the value that argv[2] still points to was made, so that no request     *)
(* brings it again and it cannot come into the table later.                *)
(***************************************************************************)
EXTENDS KvsObj, TLAPS

ArgvMade == \A c \in Client : argv2[c] # None => held[argv2[c]] # {}

IInv == /\ TypeOK
        /\ OneOwner
        /\ NeverMisused
        /\ AnsweredIsStored
        /\ ReplacedIsFreed
        /\ ArgvMade

-----------------------------------------------------------------------------
(* What freeing does *)

\* kvs_obj_free leaves the kvs_buf_t of a value, and nothing else.
LEMMA FreedIsBuf == Freed(Blocks) = {"buf"}
  BY Zenon DEF Freed, Blocks

LEMMA BlocksAreSome == Blocks # {} /\ Blocks # {"buf"} /\ {"buf"} # {}
<1>1. "obj" \in Blocks /\ "obj" \notin {"buf"} /\ "buf" \in {"buf"}
  BY DEF Blocks
<1> QED
  BY <1>1, Zenon

\* A value in the table is made, whole and known.
LEMMA StoredIsWhole ==
  ASSUME IInv, NEW k \in Key, table[k] # None
  PROVE  table[k] \in Obj /\ held[table[k]] = Blocks
  BY DEF IInv, TypeOK, OneOwner, Stored, Whole

\* A fresh value is neither in the table nor known to a connection, and never was
\* in the table.
LEMMA FreshIsNew ==
  ASSUME IInv, NEW o \in Obj, Fresh(o)
  PROVE  /\ \A k \in Key : table[k] # o
         /\ \A c \in Client : argv2[c] # o
         /\ o \notin kept
<1>1. \A k \in Key : table[k] # o
  <2> SUFFICES ASSUME NEW k \in Key, table[k] = o PROVE FALSE
    OBVIOUS
  <2>1. table[k] # None
    BY ObjAssumption
  <2> QED
    BY <2>1, StoredIsWhole, BlocksAreSome DEF Fresh
<1>2. \A c \in Client : argv2[c] # o
  BY ObjAssumption DEF IInv, ArgvMade, Fresh
<1>3. o \notin kept
  BY <1>1, BlocksAreSome DEF IInv, ReplacedIsFreed, Stored, Fresh
<1> QED
  BY <1>1, <1>2, <1>3

-----------------------------------------------------------------------------
(* The commands *)

LEMMA GetKeeps ==
  ASSUME IInv, NEW c \in Client, NEW k \in Key, Get(c, k)
  PROVE  IInv'
<1> USE DEF Get
<1>1. misused' = FALSE
  BY StoredIsWhole DEF IInv, NeverMisused, Whole
<1>2. TypeOK'
  BY <1>1 DEF IInv, TypeOK
<1>3. OneOwner'
  <2>1. ASSUME NEW o \in Stored' PROVE Whole(o)' /\ \A d \in Client : argv2'[d] # o
    <3>1. o \in Stored /\ o # None
      BY DEF Stored
    <3>2. Whole(o)' /\ \A d \in Client : argv2[d] # o
      BY <3>1 DEF IInv, OneOwner, Whole
    <3> QED
      BY <3>1, <3>2 DEF IInv, TypeOK
  <2>2. \A i, j \in Key : table'[i] = table'[j] /\ table'[i] # None => i = j
    BY DEF IInv, OneOwner
  <2> QED
    BY <2>1, <2>2 DEF OneOwner
<1>4. AnsweredIsStored'
  BY DEF IInv, AnsweredIsStored
<1>5. ReplacedIsFreed'
  BY DEF IInv, ReplacedIsFreed, Stored
<1>6. ArgvMade'
  BY DEF IInv, TypeOK, ArgvMade
<1> QED
  BY <1>1, <1>2, <1>3, <1>4, <1>5, <1>6 DEF IInv, NeverMisused

LEMMA DeleteKeeps ==
  ASSUME IInv, NEW c \in Client, NEW k \in Key, Delete(c, k)
  PROVE  IInv'
<1> USE DEF Delete
<1> DEFINE p == table[k]
<1>t. TypeOK /\ p \in Obj \cup {None}
  BY DEF IInv, TypeOK
<1>0. held' = [o \in Obj |-> IF o = p THEN {"buf"} ELSE held[o]]
  <2>1. CASE p = None
    BY <2>1, <1>t, ObjAssumption DEF TypeOK
  <2>2. CASE p # None
    <3>1. p \in Obj /\ held[p] = Blocks
      BY <2>2, StoredIsWhole
    <3> QED
      BY <2>2, <3>1, <1>t, FreedIsBuf DEF GivenUp, TypeOK
  <2> QED
    BY <2>1, <2>2
<1>1. misused' = FALSE
  BY StoredIsWhole DEF IInv, NeverMisused, Whole
<1>2. TypeOK'
  <2>1. held' \in [Obj -> {{}, Blocks, {"buf"}}]
    BY <1>0, <1>t DEF TypeOK
  <2>2. dict' \in [Key -> Seq(Obj)]
    BY <1>t DEF TypeOK, NoText
  <2> QED
    BY <1>1, <2>1, <2>2, <1>t DEF TypeOK
<1>3. \A j \in Key : table'[j] # None => table'[j] = table[j] /\ j # k /\ table'[j] # p
  BY <1>t DEF IInv, TypeOK, OneOwner
<1>4. OneOwner'
  <2>1. ASSUME NEW o \in Stored' PROVE Whole(o)' /\ \A d \in Client : argv2'[d] # o
    <3>1. PICK j \in Key : table'[j] = o /\ o # None
      BY DEF Stored
    <3>2. o \in Stored /\ o # p /\ o \in Obj
      BY <3>1, <1>3, <1>t DEF Stored, TypeOK
    <3>3. held[o] = Blocks
      BY <3>2 DEF IInv, OneOwner, Whole
    <3>4. held'[o] = Blocks
      BY <3>2, <3>3, <1>0
    <3> QED
      BY <3>1, <3>2, <3>4, <1>t DEF IInv, OneOwner, Whole, TypeOK
  <2>2. \A i, j \in Key : table'[i] = table'[j] /\ table'[i] # None => i = j
    BY <1>3 DEF IInv, OneOwner
  <2> QED
    BY <2>1, <2>2 DEF OneOwner
<1>5. AnsweredIsStored'
  <2> SUFFICES ASSUME NEW j \in Key
               PROVE  IF j \in starved' THEN table'[j] = None
                      ELSE dict'[j] = IF table'[j] = None THEN NoText ELSE text'[table'[j]]
    BY DEF AnsweredIsStored
  <2>1. CASE j = k
    BY <2>1, <1>t DEF TypeOK
  <2>2. CASE j # k
    BY <2>2, <1>t DEF IInv, TypeOK, AnsweredIsStored
  <2> QED
    BY <2>1, <2>2
<1>6. ReplacedIsFreed'
  <2> SUFFICES ASSUME NEW o \in kept', o \notin Stored' PROVE held'[o] = {"buf"}
    BY DEF ReplacedIsFreed
  <2>0. o \in kept /\ o \in Obj
    BY <1>t DEF TypeOK
  <2>1. CASE o = p
    BY <2>1, <2>0, <1>0
  <2>2. CASE o # p
    <3>1. o \notin Stored
      <4> SUFFICES ASSUME o \in Stored PROVE FALSE
        OBVIOUS
      <4>1. PICK j \in Key : table[j] = o /\ o # None
        BY DEF Stored
      <4>2. table'[j] = o
        BY <4>1, <2>2, <1>t DEF TypeOK
      <4> QED
        BY <4>1, <4>2 DEF Stored
    <3> QED
      BY <3>1, <2>2, <2>0, <1>0 DEF IInv, ReplacedIsFreed
  <2> QED
    BY <2>1, <2>2
<1>7. ArgvMade'
  <2> SUFFICES ASSUME NEW d \in Client, argv2'[d] # None PROVE held'[argv2'[d]] # {}
    BY DEF ArgvMade
  <2>1. argv2'[d] = argv2[d] /\ argv2[d] \in Obj
    BY <1>t DEF TypeOK
  <2> QED
    BY <2>1, <1>0, BlocksAreSome DEF IInv, ArgvMade
<1> QED
  BY <1>1, <1>2, <1>4, <1>5, <1>6, <1>7 DEF IInv, NeverMisused

LEMMA SetPresentKeeps ==
  ASSUME IInv, NEW c \in Client, NEW k \in Key, NEW o \in Obj, SetPresent(c, k, o)
  PROVE  IInv'
<1> USE DEF SetPresent
<1> DEFINE p == table[k]
<1>t. TypeOK
  BY DEF IInv
<1>p. p \in Obj /\ held[p] = Blocks /\ p # None
  BY StoredIsWhole
<1>n. (\A j \in Key : table[j] # o) /\ (\A d \in Client : argv2[d] # o) /\ o \notin kept
  BY FreshIsNew
<1>d. p # o /\ o # None
  BY <1>n, ObjAssumption
<1>0. held' = [q \in Obj |-> IF q = p THEN {"buf"} ELSE IF q = o THEN Blocks ELSE held[q]]
  <2>1. Arrives(o) = [q \in Obj |-> IF q = o THEN Blocks ELSE held[q]]
    BY <1>t DEF Arrives, TypeOK
  <2> QED
    BY <2>1, <1>p, <1>d, FreedIsBuf DEF GivenUp, Replaced
<1>1. misused' = FALSE
  BY <1>p DEF IInv, NeverMisused, Whole
<1>b. table' = [j \in Key |-> IF j = k THEN o ELSE table[j]]
  BY <1>t DEF TypeOK
<1>a. argv2' = [d \in Client |-> IF d = c THEN None ELSE argv2[d]]
  BY <1>t DEF TypeOK, Left
<1>s. <<o>> \in Seq(Obj)
  OBVIOUS
<1>2. TypeOK'
  <2>1. table' \in [Key -> Obj \cup {None}] /\ argv2' \in [Client -> Obj \cup {None}]
    BY <1>t, <1>a, <1>b DEF TypeOK
  <2>2. held' \in [Obj -> {{}, Blocks, {"buf"}}]
    BY <1>0, <1>t DEF TypeOK
  <2>3. text' \in [Obj -> Seq(Obj)] /\ dict' \in [Key -> Seq(Obj)]
    BY <1>t, <1>s DEF TypeOK
  <2> QED
    BY <1>1, <2>1, <2>2, <2>3, <1>t DEF TypeOK
<1>4. OneOwner'
  <2>1. ASSUME NEW q \in Stored' PROVE Whole(q)' /\ \A d \in Client : argv2'[d] # q
    <3>1. PICK j \in Key : table'[j] = q /\ q # None
      BY DEF Stored
    <3>2. CASE j = k
      <4>1. q = o
        BY <3>1, <3>2, <1>b
      <4> QED
        BY <4>1, <1>d, <1>0, <1>a, <1>n DEF Whole
    <3>3. CASE j # k
      <4>1. table[j] = q
        BY <3>1, <3>3, <1>b
      <4>2. q \in Stored /\ q \in Obj /\ q # p /\ q # o
        BY <4>1, <3>1, <3>3, <1>t, <1>n, <1>p DEF Stored, TypeOK, IInv, OneOwner
      <4>3. Whole(q) /\ \A d \in Client : argv2[d] # q
        BY <4>2 DEF IInv, OneOwner
      <4>4. held'[q] = Blocks
        BY <4>2, <4>3, <1>0 DEF Whole
      <4>5. \A d \in Client : argv2'[d] # q
        BY <3>1, <4>3, <1>a
      <4> QED
        BY <4>4, <4>5 DEF Whole
    <3> QED
      BY <3>2, <3>3
  <2>2. ASSUME NEW i \in Key, NEW j \in Key, table'[i] = table'[j], table'[i] # None PROVE i = j
    BY <2>2, <1>b, <1>n DEF IInv, OneOwner
  <2> QED
    BY <2>1, <2>2 DEF OneOwner
<1>5. AnsweredIsStored'
  <2> SUFFICES ASSUME NEW j \in Key
               PROVE  IF j \in starved' THEN table'[j] = None
                      ELSE dict'[j] = IF table'[j] = None THEN NoText ELSE text'[table'[j]]
    BY DEF AnsweredIsStored
  <2>0. IF j \in starved THEN table[j] = None
        ELSE dict[j] = IF table[j] = None THEN NoText ELSE text[table[j]]
    BY DEF IInv, AnsweredIsStored
  <2>1. CASE j = k
    <3>1. table'[j] = o /\ text'[o] = <<o>> /\ dict'[j] = <<o>>
      BY <2>1, <1>b, <1>t DEF TypeOK
    <3>2. j \notin starved'
      BY <2>0, <2>1, <1>p
    <3> QED
      BY <3>1, <3>2, <1>d
  <2>2. CASE j # k
    <3>1. table'[j] = table[j] /\ dict'[j] = dict[j]
      BY <2>2, <1>b, <1>t DEF TypeOK
    <3>2. table[j] # None => text'[table[j]] = text[table[j]]
      BY <1>n, <1>t DEF TypeOK
    <3> QED
      BY <3>1, <3>2, <2>0
  <2> QED
    BY <2>1, <2>2
<1>6. ReplacedIsFreed'
  <2> SUFFICES ASSUME NEW q \in kept', q \notin Stored' PROVE held'[q] = {"buf"}
    BY DEF ReplacedIsFreed
  <2>1. q # o
    BY <1>b, <1>d DEF Stored
  <2>2. q \in kept /\ q \in Obj
    BY <2>1, <1>t DEF TypeOK
  <2>3. CASE q = p
    BY <2>3, <2>2, <1>0
  <2>4. CASE q # p
    <3>1. q \notin Stored
      BY <2>4, <1>b DEF Stored
    <3> QED
      BY <3>1, <2>1, <2>2, <2>4, <1>0 DEF IInv, ReplacedIsFreed
  <2> QED
    BY <2>3, <2>4
<1>7. ArgvMade'
  <2> SUFFICES ASSUME NEW d \in Client, argv2'[d] # None PROVE held'[argv2'[d]] # {}
    BY DEF ArgvMade
  <2>1. argv2'[d] = argv2[d] /\ argv2[d] \in Obj
    BY <1>a, <1>t DEF TypeOK
  <2> QED
    BY <2>1, <1>0, BlocksAreSome DEF IInv, ArgvMade
<1> QED
  BY <1>1, <1>2, <1>4, <1>5, <1>6, <1>7 DEF IInv, NeverMisused

LEMMA AddAbsentKeeps ==
  ASSUME IInv, NEW c \in Client, NEW k \in Key, NEW o \in Obj, NEW fails \in BOOLEAN,
         AddAbsent(c, k, o, fails)
  PROVE  IInv'
<1> USE DEF AddAbsent
<1>t. TypeOK
  BY DEF IInv
<1>n. (\A j \in Key : table[j] # o) /\ (\A d \in Client : argv2[d] # o) /\ o \notin kept /\ o # None
  BY FreshIsNew, ObjAssumption
<1>0. held' = [q \in Obj |-> IF q = o THEN Blocks ELSE held[q]]
  BY <1>t DEF Arrives, TypeOK
<1>b. table' = [j \in Key |-> IF j = k /\ ~fails THEN o ELSE table[j]]
  BY <1>t DEF TypeOK, Under
<1>a. argv2' = [d \in Client |-> IF d = c THEN None ELSE argv2[d]]
  BY <1>t DEF TypeOK, Left
<1>s. <<o>> \in Seq(Obj)
  OBVIOUS
<1>2. TypeOK'
  <2>1. table' \in [Key -> Obj \cup {None}] /\ argv2' \in [Client -> Obj \cup {None}]
    BY <1>t, <1>a, <1>b DEF TypeOK
  <2>2. held' \in [Obj -> {{}, Blocks, {"buf"}}]
    BY <1>0, <1>t DEF TypeOK
  <2>3. text' \in [Obj -> Seq(Obj)] /\ dict' \in [Key -> Seq(Obj)]
    BY <1>t, <1>s DEF TypeOK
  <2> QED
    BY <2>1, <2>2, <2>3, <1>t DEF TypeOK
<1>4. OneOwner'
  <2>1. ASSUME NEW q \in Stored' PROVE Whole(q)' /\ \A d \in Client : argv2'[d] # q
    <3>1. PICK j \in Key : table'[j] = q /\ q # None
      BY DEF Stored
    <3>2. CASE q = o
      BY <3>2, <1>0, <1>a, <1>n DEF Whole
    <3>3. CASE q # o
      <4>1. table[j] = q
        BY <3>1, <3>3, <1>b
      <4>2. q \in Stored /\ q \in Obj
        BY <4>1, <3>1, <1>t DEF Stored, TypeOK
      <4>3. Whole(q) /\ \A d \in Client : argv2[d] # q
        BY <4>2 DEF IInv, OneOwner
      <4> QED
        BY <3>1, <3>3, <4>2, <4>3, <1>0, <1>a DEF Whole
    <3> QED
      BY <3>2, <3>3
  <2>2. ASSUME NEW i \in Key, NEW j \in Key, table'[i] = table'[j], table'[i] # None PROVE i = j
    BY <2>2, <1>b, <1>n DEF IInv, OneOwner
  <2> QED
    BY <2>1, <2>2 DEF OneOwner
<1>5. AnsweredIsStored'
  <2> SUFFICES ASSUME NEW j \in Key
               PROVE  IF j \in starved' THEN table'[j] = None
                      ELSE dict'[j] = IF table'[j] = None THEN NoText ELSE text'[table'[j]]
    BY DEF AnsweredIsStored
  <2>0. IF j \in starved THEN table[j] = None
        ELSE dict[j] = IF table[j] = None THEN NoText ELSE text[table[j]]
    BY DEF IInv, AnsweredIsStored
  <2>1. CASE j = k
    <3>1. text'[o] = <<o>> /\ dict'[j] = <<o>>
      BY <2>1, <1>t DEF TypeOK
    <3>2. CASE fails
      BY <3>2, <2>1, <1>b
    <3>3. CASE ~fails
      BY <3>3, <3>1, <2>1, <1>b, <1>n
    <3> QED
      BY <3>2, <3>3
  <2>2. CASE j # k
    <3>1. table'[j] = table[j] /\ dict'[j] = dict[j] /\ (j \in starved' <=> j \in starved)
      BY <2>2, <1>b, <1>t DEF TypeOK
    <3>2. table[j] # None => text'[table[j]] = text[table[j]]
      BY <1>n, <1>t DEF TypeOK
    <3> QED
      BY <3>1, <3>2, <2>0
  <2> QED
    BY <2>1, <2>2
<1>6. ReplacedIsFreed'
  <2> SUFFICES ASSUME NEW q \in kept', q \notin Stored' PROVE held'[q] = {"buf"}
    BY DEF ReplacedIsFreed
  <2>1. q # o
    BY <1>b, <1>n DEF Stored
  <2>2. q \in kept /\ q \in Obj
    BY <2>1, <1>t DEF TypeOK
  <2>3. q \notin Stored
    <3> SUFFICES ASSUME NEW j \in Key, table[j] = q, q # None PROVE FALSE
      BY DEF Stored
    <3>1. table'[j] = q
      BY <1>b
    <3> QED
      BY <3>1 DEF Stored
  <2> QED
    BY <2>1, <2>2, <2>3, <1>0 DEF IInv, ReplacedIsFreed
<1>7. ArgvMade'
  <2> SUFFICES ASSUME NEW d \in Client, argv2'[d] # None PROVE held'[argv2'[d]] # {}
    BY DEF ArgvMade
  <2>1. argv2'[d] = argv2[d] /\ argv2[d] \in Obj
    BY <1>a, <1>t DEF TypeOK
  <2> QED
    BY <2>1, <1>0, BlocksAreSome DEF IInv, ArgvMade
<1> QED
  BY <1>2, <1>4, <1>5, <1>6, <1>7 DEF IInv, NeverMisused

LEMMA AppendPresentKeeps ==
  ASSUME IInv, NEW c \in Client, NEW k \in Key, NEW o \in Obj, NEW fails \in BOOLEAN,
         AppendPresent(c, k, o, fails)
  PROVE  IInv'
<1> USE DEF AppendPresent
<1> DEFINE p == table[k]
<1>t. TypeOK
  BY DEF IInv
<1>p. p \in Obj /\ held[p] = Blocks /\ p # None
  BY StoredIsWhole
<1>n. (\A j \in Key : table[j] # o) /\ o # None /\ o \notin kept
  BY FreshIsNew, ObjAssumption
<1>0. held' = [q \in Obj |-> IF q = o THEN Blocks ELSE held[q]]
  BY <1>t DEF Arrives, TypeOK
<1>a. argv2' = [d \in Client |-> IF d = c THEN o ELSE argv2[d]]
  BY <1>t DEF TypeOK, Left
<1>x. text' = [q \in Obj |-> IF q = o THEN <<o>> ELSE IF q = p /\ ~fails THEN Append(text[p], o) ELSE text[q]]
  BY <1>t, <1>p, <1>n DEF TypeOK
<1>y. dict' = [j \in Key |-> IF j = k /\ ~fails THEN Append(dict[k], o) ELSE dict[j]]
  BY <1>t DEF TypeOK
<1>1. misused' = FALSE
  BY <1>p DEF IInv, NeverMisused, Whole
<1>2. TypeOK'
  <2>1. argv2' \in [Client -> Obj \cup {None}]
    BY <1>t, <1>a DEF TypeOK
  <2>2. held' \in [Obj -> {{}, Blocks, {"buf"}}]
    BY <1>0, <1>t DEF TypeOK
  <2>3. <<o>> \in Seq(Obj) /\ Append(text[p], o) \in Seq(Obj) /\ Append(dict[k], o) \in Seq(Obj)
    BY <1>p, <1>t DEF TypeOK
  <2>4. text' \in [Obj -> Seq(Obj)]
    <3>1. \A q \in Obj : text[q] \in Seq(Obj)
      BY <1>t DEF TypeOK
    <3> HIDE DEF AppendPresent
    <3> QED
      BY <2>3, <3>1, <1>x
  <2>5. dict' \in [Key -> Seq(Obj)]
    <3>1. \A j \in Key : dict[j] \in Seq(Obj)
      BY <1>t DEF TypeOK
    <3> HIDE DEF AppendPresent
    <3> QED
      BY <2>3, <3>1, <1>y
  <2> QED
    BY <1>1, <2>1, <2>2, <2>4, <2>5, <1>t DEF TypeOK
<1>4. OneOwner'
  <2>1. ASSUME NEW q \in Stored' PROVE Whole(q)' /\ \A d \in Client : argv2'[d] # q
    <3>1. q \in Stored /\ q # o /\ q \in Obj
      BY <1>n, <1>t DEF Stored, TypeOK
    <3>2. Whole(q) /\ \A d \in Client : argv2[d] # q
      BY <3>1 DEF IInv, OneOwner
    <3> QED
      BY <3>1, <3>2, <1>0, <1>a DEF Whole
  <2>2. \A i, j \in Key : table'[i] = table'[j] /\ table'[i] # None => i = j
    BY DEF IInv, OneOwner
  <2> QED
    BY <2>1, <2>2 DEF OneOwner
<1>5. AnsweredIsStored'
  <2> SUFFICES ASSUME NEW j \in Key
               PROVE  IF j \in starved' THEN table'[j] = None
                      ELSE dict'[j] = IF table'[j] = None THEN NoText ELSE text'[table'[j]]
    BY DEF AnsweredIsStored
  <2>0. IF j \in starved THEN table[j] = None
        ELSE dict[j] = IF table[j] = None THEN NoText ELSE text[table[j]]
    BY DEF IInv, AnsweredIsStored
  <2>1. CASE j = k
    <3>1. j \notin starved /\ dict[k] = text[p]
      BY <2>0, <2>1, <1>p
    <3>2. text'[p] = IF fails THEN text[p] ELSE Append(text[p], o)
      BY <1>x, <1>p, <1>n
    <3>3. dict'[k] = IF fails THEN dict[k] ELSE Append(dict[k], o)
      BY <1>y
    <3> QED
      BY <3>1, <3>2, <3>3, <2>1, <1>p
  <2>2. CASE j # k
    <3>1. table[j] # None => table[j] # p /\ table[j] # o /\ table[j] \in Obj
      BY <2>2, <1>t, <1>n DEF IInv, OneOwner, TypeOK
    <3>2. table[j] # None => text'[table[j]] = text[table[j]]
      BY <3>1, <1>x
    <3>3. dict'[j] = dict[j]
      BY <2>2, <1>y
    <3> QED
      BY <3>2, <3>3, <2>0
  <2> QED
    BY <2>1, <2>2
<1>6. ReplacedIsFreed'
  <2> SUFFICES ASSUME NEW q \in kept, q \notin Stored PROVE held'[q] = {"buf"}
    BY DEF ReplacedIsFreed, Stored
  <2>1. q \in Obj /\ q # o
    BY <1>t, <1>n DEF TypeOK
  <2> QED
    BY <2>1, <1>0 DEF IInv, ReplacedIsFreed
<1>7. ArgvMade'
  <2> SUFFICES ASSUME NEW d \in Client, argv2'[d] # None PROVE held'[argv2'[d]] # {}
    BY DEF ArgvMade
  <2>1. CASE d = c
    BY <2>1, <1>a, <1>0, BlocksAreSome
  <2>2. CASE d # c
    <3>1. argv2'[d] = argv2[d] /\ argv2[d] \in Obj
      BY <2>2, <1>a, <1>t DEF TypeOK
    <3> QED
      BY <3>1, <1>0, BlocksAreSome DEF IInv, ArgvMade
  <2> QED
    BY <2>1, <2>2
<1> QED
  BY <1>1, <1>2, <1>4, <1>5, <1>6, <1>7 DEF IInv, NeverMisused

-----------------------------------------------------------------------------
(* The theorems *)

\* The invariants and ArgvMade hold from the start and are kept by every command.
THEOREM Inductive == Spec => []IInv
<1>1. Init => IInv
  <2> SUFFICES ASSUME Init PROVE IInv
    OBVIOUS
  <2>1. TypeOK
    <3>1. NoText \in Seq(Obj)
      BY DEF NoText
    <3>2. text \in [Obj -> Seq(Obj)] /\ dict \in [Key -> Seq(Obj)]
      BY <3>1 DEF Init
    <3>3. held \in [Obj -> {{}, Blocks, {"buf"}}]
      BY DEF Init
    <3> QED
      BY <3>2, <3>3 DEF Init, TypeOK
  <2>2. Stored = {}
    BY DEF Init, Stored
  <2>3. OneOwner /\ AnsweredIsStored /\ ReplacedIsFreed
    BY <2>2 DEF Init, OneOwner, AnsweredIsStored, ReplacedIsFreed
  <2>4. NeverMisused /\ ArgvMade
    BY DEF Init, NeverMisused, ArgvMade
  <2> QED
    BY <2>1, <2>3, <2>4 DEF IInv
<1>2. IInv /\ [Next]_vars => IInv'
  <2> SUFFICES ASSUME IInv, [Next]_vars PROVE IInv'
    OBVIOUS
  <2>1. CASE Next
    <3>1. PICK c \in Client, k \in Key :
            \/ Get(c, k) \/ Delete(c, k)
            \/ \E o \in Obj : \/ SetPresent(c, k, o)
                              \/ \E fails \in Failures : AddAbsent(c, k, o, fails) \/ AppendPresent(c, k, o, fails)
      BY <2>1 DEF Next
    <3>2. Failures \subseteq BOOLEAN
      BY DEF Failures
    <3> QED
      BY <3>1, <3>2, GetKeeps, DeleteKeeps, SetPresentKeeps, AddAbsentKeeps, AppendPresentKeeps
  <2>2. CASE UNCHANGED vars
    BY <2>2 DEF vars, IInv, TypeOK, OneOwner, NeverMisused, AnsweredIsStored, ReplacedIsFreed,
                ArgvMade, Stored, Whole
  <2> QED
    BY <2>1, <2>2
<1> QED
  BY <1>1, <1>2, PTL DEF Spec

\* An object was never made, or is whole, or only its kvs_buf_t is left
\* (kvs_obj.c:38-43).
THEOREM TypeCorrect == Spec => []TypeOK
<1>1. IInv => TypeOK
  BY DEF IInv
<1> QED
  BY <1>1, Inductive, PTL

\* What the table holds is whole, under one key and no connection's, for any number
\* of clients, keys and values (kvs_command.c:71, 105-106).
THEOREM ValuesHaveOneOwner == Spec => []OneOwner
<1>1. IInv => OneOwner
  BY DEF IInv
<1> QED
  BY <1>1, Inductive, PTL

\* No freed value is read, or freed again (kvs_obj.c:38-43).
THEOREM ValuesAreNotMisused == Spec => []NeverMisused
<1>1. IInv => NeverMisused
  BY DEF IInv
<1> QED
  BY <1>1, Inductive, PTL

\* What the answers said is what is stored, but where memory ran out
\* (kvs_command.c:70-75).
THEOREM AnswersAreStored == Spec => []AnsweredIsStored
<1>1. IInv => AnsweredIsStored
  BY DEF IInv
<1> QED
  BY <1>1, Inductive, PTL

\* What has left the table is freed, but for its kvs_buf_t (kvs_str.c:229-239).
THEOREM ReplacedAreFreed == Spec => []ReplacedIsFreed
<1>1. IInv => ReplacedIsFreed
  BY DEF IInv
<1> QED
  BY <1>1, Inductive, PTL
=============================================================================
