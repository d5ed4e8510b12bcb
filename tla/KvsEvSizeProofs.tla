--------------------------- MODULE KvsEvSizeProofs ---------------------------
(***************************************************************************)
(* The arrays of the event loop are large enough for what is registered    *)
(* and for what is to be visited, for any sizes, descriptors and sizes of  *)
(* the kernel's types.                                                     *)
(*                                                                         *)
(* The invariant: active always has `size` entries; cache has one for      *)
(* every descriptor up to maxfd, and all of them until a resize is torn;   *)
(* events has them until a resize; and a round that counts no descriptor   *)
(* twice visits at most maxfd + 1 entries, all of them filled.             *)
(***************************************************************************)
EXTENDS KvsEvSize, TLAPS, FiniteSetTheorems

Roomy ==
  /\ maxfd < size /\ maxfd < room["cache"] /\ room["active"] = size
  /\ \A fd \in Fds : mask[fd] # {} => fd <= maxfd
  /\ \A j \in DOMAIN filled : j < size /\ filled[j] <= maxfd
  /\ ~torn => room["cache"] >= size
  /\ backend = "epoll" /\ backed /\ ~resized => room["events"] >= size

\* A mask in cache that nobody has set is beyond `size`, until a resize is torn.
Clean ==
  /\ raw.active # {} => grown
  /\ \A j \in raw.cache : j < size => torn

Rounds ==
  /\ ~twice => n <= maxfd + 1 /\ \A j \in 0..n - 1 : j \in DOMAIN filled
  /\ twice => backend = "select"
  /\ moved => resized

Unmade == /\ maxfd = 0 /\ mask = [fd \in Fds |-> {}] /\ DOMAIN filled = {}
          /\ n = 0 /\ ~twice /\ ~moved /\ raw.cache = {} /\ raw.active = {}

Good ==
  /\ status = "ok" /\ Made => Roomy /\ Clean /\ Rounds
  /\ pc = "none" => Unmade

IInv == TypeOK /\ Good /\ FaultsAreEarned

\* Descriptors up to m are at most m + 1, and disjoint sets of them are counted as
\* select counts them.
LEMMA FewReady ==
  ASSUME NEW m \in Nat, NEW R, NEW W, R \cup W \subseteq 0..m
  PROVE  /\ Cardinality(R) \in Nat /\ Cardinality(W) \in Nat
         /\ Cardinality(R \cup W) \in Nat /\ Cardinality(R \cup W) <= m + 1
         /\ R \cap W = {} => Cardinality(R) + Cardinality(W) = Cardinality(R \cup W)
<1>1. IsFiniteSet(0..m) /\ Cardinality(0..m) = m + 1
  BY FS_Interval
<1>2. /\ IsFiniteSet(R \cup W) /\ Cardinality(R \cup W) <= Cardinality(0..m)
      /\ IsFiniteSet(R) /\ IsFiniteSet(W)
  BY <1>1, FS_Subset
<1>3. Cardinality(R) \in Nat /\ Cardinality(W) \in Nat /\ Cardinality(R \cup W) \in Nat
  BY <1>2, FS_CardinalityType
<1>4. R \cap W = {} => Cardinality(R) + Cardinality(W) = Cardinality(R \cup W)
  <2>1. Cardinality(R \cup W) = Cardinality(R) + Cardinality(W) - Cardinality(R \cap W)
    BY <1>2, FS_Union
  <2>2. Cardinality({}) = 0
    BY FS_EmptySet
  <2> SUFFICES ASSUME R \cap W = {} PROVE Cardinality(R) + Cardinality(W) = Cardinality(R \cup W)
    OBVIOUS
  <2>3. Cardinality(R \cap W) = 0
    BY <2>2
  <2> QED BY <1>3, <2>1, <2>3
<1> QED BY <1>1, <1>2, <1>3, <1>4

LEMMA InitIsGood == Init => IInv
<1> SUFFICES ASSUME Init PROVE IInv
  OBVIOUS
<1>1. DOMAIN filled = {} /\ filled \in [DOMAIN filled -> Fds]
  BY DEF Init
<1>2. TypeOK
  <2>1. raw \in [cache : SUBSET Nat, active : SUBSET Nat]
    BY DEF Init
  <2>2. mask \in [Fds -> SUBSET Event] /\ room \in [Array -> Nat]
    BY DEF Init
  <2>3. filled \in [DOMAIN filled -> Fds] /\ DOMAIN filled \subseteq Nat
    BY <1>1
  <2>4. /\ backend \in {"select", "epoll"} /\ pc \in {"none", "idle", "visit", "reading", "second", "writing", "freed"}
        /\ size \in Nat /\ maxfd \in Nat /\ n \in Int /\ n >= -1 /\ i \in Nat
        /\ status \in {"ok", "overrun", "wild", "stray", "stale"}
    BY DEF Init
  <2>5. /\ backed \in BOOLEAN /\ twice \in BOOLEAN /\ moved \in BOOLEAN
        /\ resized \in BOOLEAN /\ torn \in BOOLEAN /\ grown \in BOOLEAN
    BY DEF Init
  <2> QED BY <2>1, <2>2, <2>3, <2>4, <2>5, Zenon DEF TypeOK
<1>3. Good
  BY <1>1 DEF Init, Good, Unmade, Made
<1>4. FaultsAreEarned
  BY DEF Init, FaultsAreEarned
<1> QED BY <1>2, <1>3, <1>4 DEF IInv

LEMMA NewStep ==
  ASSUME IInv, status = "ok", NEW k \in Sizes, NEW backs \in BOOLEAN, New(k, backs)
  PROVE  IInv'
<1> USE EvSizeAssumption DEF New, loop, history
<1>1. k \in Nat /\ k > 0
  OBVIOUS
<1>2. TypeOK'
  BY <1>1 DEF IInv, TypeOK, Array
<1>3. Unmade
  BY DEF IInv, Good
<1>4. Roomy'
  BY <1>1, <1>3 DEF Roomy, Unmade, Array
<1>5. Clean' /\ Rounds'
  BY <1>3 DEF Clean, Rounds, Unmade
<1> QED BY <1>2, <1>4, <1>5 DEF IInv, Good, FaultsAreEarned

LEMMA NewFailsStep ==
  ASSUME IInv, status = "ok", NEW k \in Sizes, NEW backs \in BOOLEAN, NewFails(k, backs)
  PROVE  IInv'
<1> USE DEF NewFails, BackendFrees, loop, history
<1>1. TypeOK'
  BY DEF IInv, TypeOK
<1> QED BY <1>1 DEF IInv, Good, Made, FaultsAreEarned

\* What kvs_ev_add and kvs_ev_del use of a descriptor is there, but for the causes named.
LEMMA UsedIsEarned ==
  ASSUME IInv, status = "ok", Made, NEW fd \in Fds, fd < size
  PROVE  /\ Used(fd) \in {"ok", "overrun", "stray"}
         /\ Used(fd) = "overrun" => ~backed \/ torn \/ (backend = "select" /\ size > 8 * SetBytes)
         /\ Used(fd) = "stray" => torn
<1>1. Roomy /\ Clean
  BY DEF IInv, Good
<1>2. fd \in Nat /\ size \in Nat /\ room["cache"] \in Nat /\ SetBytes \in Nat
  BY EvSizeAssumption DEF IInv, TypeOK, Array
<1>3. fd >= room["cache"] => torn
  BY <1>1, <1>2 DEF Roomy
<1>4. fd >= 8 * SetBytes => size > 8 * SetBytes
  BY <1>2
<1>5. fd \in raw.cache => torn
  BY <1>1 DEF Clean
<1> QED BY <1>3, <1>4, <1>5 DEF Used

LEMMA AddStep ==
  ASSUME IInv, status = "ok", NEW fd \in Fds, NEW events \in SUBSET Event, Add(fd, events)
  PROVE  IInv'
<1> USE DEF Add, loop, history
<1>1. Made /\ Made'
  BY DEF Made, Calling
<1>2. fd \in Nat
  BY EvSizeAssumption
<1>3. /\ status' \in {"ok", "overrun", "stray"}
      /\ status' = "overrun" => ~backed \/ torn \/ (backend = "select" /\ size > 8 * SetBytes)
      /\ status' = "stray" => torn
  BY <1>1, UsedIsEarned
<1>4. TypeOK'
  BY <1>2, <1>3 DEF IInv, TypeOK
<1>5. Roomy /\ Clean /\ Rounds
  BY <1>1 DEF IInv, Good
<1>6. status' = "ok" => fd < room["cache"]
  BY <1>2 DEF Used, IInv, TypeOK, Array
<1>7. maxfd' \in Nat /\ maxfd' >= maxfd /\ maxfd' >= fd /\ (maxfd' = maxfd \/ maxfd' = fd)
  BY <1>2 DEF IInv, TypeOK
<1>8. status' = "ok" => Roomy'
  <2> SUFFICES ASSUME status' = "ok" PROVE Roomy'
    OBVIOUS
  <2>1. maxfd' < size /\ maxfd' < room["cache"]
    BY <1>5, <1>6, <1>7 DEF Roomy
  <2>2. \A x \in Fds : mask'[x] # {} => x <= maxfd'
    BY <1>2, <1>5, <1>7, EvSizeAssumption DEF Roomy, IInv, TypeOK
  <2>3. \A j \in DOMAIN filled : j < size /\ filled[j] <= maxfd'
    BY <1>5, <1>7, EvSizeAssumption DEF Roomy, IInv, TypeOK
  <2> QED BY <1>5, <2>1, <2>2, <2>3 DEF Roomy
<1>9. Clean' /\ Rounds'
  BY <1>5, <1>7 DEF Clean, Rounds, IInv, TypeOK
<1>10. FaultsAreEarned'
  BY <1>3 DEF FaultsAreEarned
<1> QED BY <1>1, <1>4, <1>8, <1>9, <1>10 DEF IInv, Good, Made

LEMMA DelStep ==
  ASSUME IInv, status = "ok", NEW fd \in Fds, NEW events \in SUBSET Event, Del(fd, events)
  PROVE  IInv'
<1> USE DEF Del, loop, history
<1>1. Made /\ Made'
  BY DEF Made, Calling
<1>2. /\ status' \in {"ok", "overrun", "stray"}
      /\ status' = "overrun" => ~backed \/ torn \/ (backend = "select" /\ size > 8 * SetBytes)
      /\ status' = "stray" => torn
  BY <1>1, UsedIsEarned
<1>3. TypeOK'
  BY <1>2 DEF IInv, TypeOK
<1>4. Roomy /\ Clean /\ Rounds
  BY <1>1 DEF IInv, Good
<1>5. Roomy'
  BY <1>4 DEF Roomy, IInv, TypeOK
<1>6. Clean' /\ Rounds'
  BY <1>4 DEF Clean, Rounds
<1>7. FaultsAreEarned'
  BY <1>2 DEF FaultsAreEarned
<1> QED BY <1>1, <1>3, <1>5, <1>6, <1>7 DEF IInv, Good, Made

\* A resize that is torn cuts the cache, but not below maxfd.
LEMMA ResizeStep ==
  ASSUME IInv, status = "ok", NEW k \in Sizes, NEW got \in SUBSET Array, Resize(k, got)
  PROVE  IInv'
<1> USE EvSizeAssumption DEF Resize, history
<1>1. /\ k \in Nat /\ maxfd \in Nat /\ size \in Nat /\ maxfd < k /\ k # size
      /\ room["active"] \in Nat /\ room["cache"] \in Nat /\ room["events"] \in Nat
  BY DEF IInv, TypeOK, Refused, Array
<1>2. Made /\ Made' /\ pc # "none"
  BY DEF Made, Calling
<1>3. Roomy /\ Clean /\ Rounds
  BY <1>2 DEF IInv, Good
<1>4. EventsFor(k) \in Nat
  BY <1>1 DEF EventsFor
<1>5. room' \in [Array -> Nat]
  BY <1>1, <1>4 DEF IInv, TypeOK
<1>6. raw' \in [cache : SUBSET Nat, active : SUBSET Nat]
  <2>1. RawAfter(k, got) \in [cache : SUBSET Nat, active : SUBSET Nat]
    <3>1. Behind("cache", k) \subseteq Nat /\ Behind("active", k) \subseteq Nat
      BY <1>1 DEF Behind
    <3> QED BY <3>1 DEF RawAfter, IInv, TypeOK
  <2> QED BY <2>1 DEF IInv, TypeOK
<1>7. filled' \in [DOMAIN filled' -> Fds] /\ DOMAIN filled' \subseteq DOMAIN filled
      /\ \A j \in DOMAIN filled' : filled'[j] = filled[j]
  BY DEF Restrict, IInv, TypeOK
<1>8. TypeOK'
  BY <1>1, <1>5, <1>6, <1>7 DEF IInv, TypeOK
<1>9. FaultsAreEarned'
  BY DEF IInv, FaultsAreEarned, TypeOK
<1>10. Roomy' /\ Clean' /\ Rounds'
  <2>1. CASE got = {} \/ got = {"events"}
    <3>1. room'["active"] = room["active"] /\ room'["cache"] = room["cache"]
      BY <2>1 DEF Array
    <3>2. got # Array /\ "cache" \notin got
      BY <2>1 DEF Array
    <3>3. UNCHANGED <<raw, filled, size, torn, grown, moved, maxfd, mask, n, twice, backend, backed>>
      BY <3>2 DEF IInv, TypeOK
    <3>4. resized => resized'
      OBVIOUS
    <3>5. backend = "epoll" /\ backed /\ ~resized' => room'["events"] >= size
      <4>1. ~resized' => "events" \notin got /\ ~resized
        OBVIOUS
      <4>2. "events" \notin got => room'["events"] = room["events"]
        BY DEF Array
      <4> QED BY <1>3, <4>1, <4>2 DEF Roomy
    <3> HIDE DEF Resize
    <3> QED BY <1>3, <3>1, <3>3, <3>4, <3>5 DEF Roomy, Clean, Rounds
  <2>2. CASE got = {"events", "cache"}
    <3>1. room'["active"] = room["active"] /\ room'["cache"] = k
      BY <2>2 DEF Array
    <3>2. got # Array /\ "events" \in got /\ "cache" \in got
      <4>1. "active" \in Array /\ "active" \notin got
        BY <2>2 DEF Array
      <4> QED BY <4>1, <2>2
    <3>3. resized' /\ UNCHANGED <<filled, size, grown, maxfd, mask, n, twice, backend, backed>>
      <4>1. resized'
        BY <3>2, Zenon
      <4>2. UNCHANGED <<filled, size, maxfd, mask, n, twice, backend, backed>>
        BY <3>2
      <4>3. grown' = grown
        BY <3>2 DEF IInv, TypeOK
      <4> QED BY <4>1, <4>2, <4>3
    <3>4. torn' = (torn \/ k < size)
      <4>1. torn' = (torn \/ ("cache" \in got /\ got # Array /\ k < size))
        OBVIOUS
      <4> HIDE DEF Resize
      <4> QED BY <3>2, <4>1, Zenon
    <3>5. raw'.active = raw.active /\ raw'.cache \subseteq raw.cache \cup Behind("cache", k)
      BY <3>2 DEF RawAfter
    <3> HIDE DEF Resize
    <3>6. Roomy'
      <4>1. ~torn' => ~(k < size)
        BY <3>4, Zenon
      <4>2. ~torn' => k >= size
        BY <1>1, <4>1
      <4> QED BY <1>1, <1>3, <3>1, <3>3, <4>2 DEF Roomy
    <3>7. Clean'
      <4>1. \A j \in Behind("cache", k) : j < size => torn
        BY <1>1, <1>3 DEF Behind, Roomy
      <4> QED BY <1>3, <3>3, <3>4, <3>5, <4>1 DEF Clean
    <3> QED BY <1>3, <3>3, <3>6, <3>7 DEF Rounds
  <2>3. CASE got = Array
    <3>1. room'["active"] = k /\ room'["cache"] = k
      BY <2>3 DEF Array
    <3>2. /\ resized' /\ size' = k /\ torn' = torn /\ (grown' <=> grown \/ k > size)
          /\ UNCHANGED <<maxfd, mask, n, twice, backend, backed>>
      BY <2>3 DEF Array, IInv, TypeOK
    <3>3. filled' = Restrict(filled, {j \in DOMAIN filled : j < k})
      BY <2>3
    <3>4. DOMAIN filled' = {j \in DOMAIN filled : j < k}
      BY <3>3 DEF Restrict
    <3>5. /\ raw'.active = {j \in raw.active : j < k} \cup Behind("active", k)
          /\ \A j \in raw'.cache : j \in raw.cache \cup Behind("cache", k) /\ j < k /\ j < size
      <4>1. "cache" \in got
        BY <2>3 DEF Array
      <4> QED BY <2>3, <4>1 DEF RawAfter
    <3> HIDE DEF Resize
    <3>6. Roomy'
      BY <1>1, <1>3, <1>7, <3>1, <3>2, <3>4 DEF Roomy
    <3>7. Clean'
      <4>1. \A j \in raw.cache \cup Behind("cache", k) : j < size => torn
        BY <1>1, <1>3 DEF Behind, Roomy, Clean
      <4>2. Behind("active", k) # {} => k > size
        BY <1>1, <1>3 DEF Behind, Roomy
      <4> QED BY <1>3, <3>2, <3>5, <4>1, <4>2 DEF Clean
    <3>8. Rounds'
      <4>1. ~twice => \A j \in 0..n - 1 : j \in DOMAIN filled /\ j < k
        BY <1>1, <1>3 DEF Rounds, IInv, TypeOK
      <4> QED BY <1>3, <3>2, <3>4, <4>1 DEF Rounds
    <3> QED BY <3>6, <3>7, <3>8
  <2> QED BY <2>1, <2>2, <2>3
<1> QED BY <1>2, <1>8, <1>9, <1>10 DEF IInv, Good, Made

LEMMA PlacedInside ==
  ASSUME NEW S \in SUBSET (Readers \cup Writers), NEW place \in Placings(S)
  PROVE  place \in [0..Cardinality(S) - 1 -> Readers \cup Writers]
<1>1. place \in [0..Cardinality(S) - 1 -> S]
  BY DEF Placings, Bijection, Injection, Surjection
<1> DEFINE D == 0..Cardinality(S) - 1
<1> HIDE DEF D
<1>2. place \in [D -> Readers \cup Writers]
  BY <1>1 DEF D
<1> QED BY <1>2 DEF D

\* What a round fills in.
LEMMA RoundStep ==
  ASSUME IInv, status = "ok", NEW c \in Nat, c <= maxfd + 1,
         NEW place \in [0..c - 1 -> Readers \cup Writers],
         NEW result \in Int, result >= -1, Round(place, result),
         twice' \in BOOLEAN, twice' => backend = "select", ~twice' => result <= c
  PROVE  IInv'
<1> USE DEF Round, history
<1>1. Made /\ Made'
  BY DEF Made
<1>2. Roomy /\ Clean /\ Rounds
  BY <1>1 DEF IInv, Good
<1>3. maxfd \in Nat /\ size \in Nat /\ room["active"] \in Nat /\ room["events"] \in Nat
  BY DEF IInv, TypeOK, Array
<1>4. \A fd \in Readers \cup Writers : fd \in Fds /\ fd \in Nat /\ fd <= maxfd
  BY <1>2, EvSizeAssumption DEF Roomy, Readers, Writers
<1>5. DOMAIN place = 0..c - 1 /\ \A j \in 0..c - 1 : place[j] \in Readers \cup Writers
  OBVIOUS
<1>6. \A j \in 0..c - 1 : j \in Nat /\ j < size
  BY <1>2, <1>3 DEF Roomy
<1>7. \A j \in DOMAIN place : j \in Nat /\ j < size /\ place[j] \in Fds /\ place[j] <= maxfd
  BY <1>4, <1>5, <1>6
<1>8. /\ DOMAIN filled' = DOMAIN filled \cup DOMAIN place
      /\ \A j \in DOMAIN filled' : filled'[j] = IF j \in DOMAIN place THEN place[j] ELSE filled[j]
      /\ filled' \in [DOMAIN filled' -> Fds]
  BY <1>7 DEF IInv, TypeOK
<1>9. status' \in {"ok", "overrun", "stray"}
  OBVIOUS
<1>10. TypeOK'
  BY <1>7, <1>8, <1>9 DEF IInv, TypeOK
<1>11. Roomy'
  BY <1>2, <1>7, <1>8 DEF Roomy
<1>12. Clean' /\ Rounds'
  <2>1. ~twice' => result <= maxfd + 1 /\ \A j \in 0..result - 1 : j \in DOMAIN place
    BY <1>3, <1>5
  <2> QED BY <1>2, <1>8, <2>1 DEF Clean, Rounds
<1>13. FaultsAreEarned'
  <2>1. status' = "overrun" => ~backed \/ (backend = "epoll" /\ resized)
    <3>1. \A j \in DOMAIN place : ~(j >= room["active"])
      BY <1>2, <1>3, <1>7 DEF Roomy
    <3>2. backed /\ backend = "epoll" /\ ~resized => \A j \in DOMAIN place : ~(j >= room["events"])
      BY <1>2, <1>3, <1>7 DEF Roomy
    <3> QED BY <3>1, <3>2
  <2>2. status' = "stray" => grown
    BY <1>2 DEF Clean
  <2> QED BY <1>9, <2>1, <2>2 DEF FaultsAreEarned
<1> QED BY <1>1, <1>10, <1>11, <1>12, <1>13 DEF IInv, Good, Made

LEMMA SelectStep ==
  ASSUME IInv, status = "ok", NEW R \in SUBSET Readers, NEW W \in SUBSET Writers, Select(R, W)
  PROVE  IInv'
<1>1. PICK place \in Ascending(R \cup W) : Round(place, Cardinality(R) + Cardinality(W))
  BY DEF Select
<1>2. Made
  BY <1>1 DEF Round, Made
<1>3. \A fd \in Readers \cup Writers : fd \in 0..maxfd
  BY <1>2, EvSizeAssumption DEF IInv, Good, Roomy, Readers, Writers, TypeOK
<1>4. R \cup W \subseteq 0..maxfd /\ maxfd \in Nat
  BY <1>3 DEF IInv, TypeOK
<1>5. /\ Cardinality(R) \in Nat /\ Cardinality(W) \in Nat
      /\ R \cap W = {} => Cardinality(R) + Cardinality(W) = Cardinality(R \cup W)
      /\ Cardinality(R \cup W) \in Nat /\ Cardinality(R \cup W) <= maxfd + 1
  BY <1>4, FewReady
<1>6. place \in [0..Cardinality(R \cup W) - 1 -> Readers \cup Writers]
  BY PlacedInside DEF Ascending
<1>7. backend = "select" /\ (twice' <=> R \cap W # {}) /\ twice' \in BOOLEAN
  BY DEF Select
<1> DEFINE result == Cardinality(R) + Cardinality(W)
           c == Cardinality(R \cup W)
<1>8. result \in Int /\ result >= -1 /\ (~twice' => result <= c) /\ c \in Nat /\ c <= maxfd + 1
  BY <1>5, <1>7
<1>9. Round(place, result) /\ place \in [0..c - 1 -> Readers \cup Writers]
  BY <1>1, <1>6
<1> HIDE DEF result, c
<1> QED BY <1>7, <1>8, <1>9, RoundStep

LEMMA SelectInterruptedStep ==
  ASSUME IInv, status = "ok", SelectInterrupted
  PROVE  IInv'
<1>1. PICK place \in Ascending(Readers \cup Writers) : Round(place, -1)
  BY DEF SelectInterrupted
<1>2. Made
  BY <1>1 DEF Round, Made
<1>3. \A fd \in Readers \cup Writers : fd \in 0..maxfd
  BY <1>2, EvSizeAssumption DEF IInv, Good, Roomy, Readers, Writers, TypeOK
<1>4. Readers \cup Writers \subseteq 0..maxfd /\ maxfd \in Nat
  BY <1>3 DEF IInv, TypeOK
<1> DEFINE c == Cardinality(Readers \cup Writers)
<1>5. c \in Nat /\ c <= maxfd + 1
  BY <1>4, FewReady
<1>6. place \in [0..c - 1 -> Readers \cup Writers]
  BY PlacedInside DEF Ascending
<1> HIDE DEF c
<1>7. -1 \in Int /\ -1 >= -1 /\ -1 <= c
  BY <1>5
<1>8. twice' = FALSE
  BY DEF SelectInterrupted
<1> QED BY <1>1, <1>5, <1>6, <1>7, <1>8, RoundStep

LEMMA EpollWaitStep ==
  ASSUME IInv, status = "ok", NEW S \in SUBSET (Readers \cup Writers), EpollWait(S)
  PROVE  IInv'
<1>2. PICK place, result : /\ Round(place, result)
                           /\ \/ place \in Placings(S) /\ result = Cardinality(S)
                              \/ S = {} /\ place = <<>> /\ result = -1
  BY DEF EpollWait
<1>3. Made
  BY <1>2 DEF Round, Made
<1>4. \A fd \in Readers \cup Writers : fd \in 0..maxfd
  BY <1>3, EvSizeAssumption DEF IInv, Good, Roomy, Readers, Writers, TypeOK
<1>5. S \cup {} \subseteq 0..maxfd /\ maxfd \in Nat /\ S \cup {} = S
  BY <1>4 DEF IInv, TypeOK
<1> DEFINE c == Cardinality(S)
<1>6. c \in Nat /\ c <= maxfd + 1
  BY <1>5, FewReady
<1>7. place \in [0..c - 1 -> Readers \cup Writers]
  <2>1. CASE place \in Placings(S)
    BY <2>1, PlacedInside
  <2>2. CASE S = {} /\ place = <<>>
    <3>1. 0..c - 1 = {}
      BY <2>2, FS_EmptySet
    <3>2. place \in [{} -> Readers \cup Writers]
      BY <2>2
    <3> QED BY <3>1, <3>2
  <2> QED BY <1>2, <2>1, <2>2
<1>8. result \in Int /\ result >= -1 /\ result <= c
  BY <1>2, <1>6
<1>9. twice' = FALSE
  BY DEF EpollWait
<1> HIDE DEF c
<1> QED BY <1>2, <1>6, <1>7, <1>8, <1>9, RoundStep

\* The entry visited is there and filled, but for the causes named.
LEMMA VisitStep ==
  ASSUME IInv, status = "ok", Visit
  PROVE  IInv'
<1> USE DEF Visit, Remaining, history
<1>1. Made /\ Made'
  BY DEF Made
<1>2. Roomy /\ Clean /\ Rounds
  BY <1>1 DEF IInv, Good
<1>3. /\ maxfd \in Nat /\ size \in Nat /\ room["active"] \in Nat /\ room["cache"] \in Nat
      /\ i \in Nat /\ n \in Int /\ i < n
  BY DEF IInv, TypeOK, Array
<1>4. /\ status' = "overrun" => i >= size /\ twice
      /\ status' = "wild" => twice
      /\ status' = "stray" => grown \/ torn
      /\ status' \in {"ok", "overrun", "wild", "stray"}
  <2>1. i >= room["active"] => i >= size /\ twice
    BY <1>2, <1>3 DEF Roomy, Rounds
  <2>2. i \notin DOMAIN filled => twice
    BY <1>2, <1>3 DEF Rounds
  <2>3. i \in DOMAIN filled => filled[i] \in Nat /\ filled[i] < room["cache"] /\ filled[i] < size
    BY <1>2, <1>3, EvSizeAssumption DEF Roomy, IInv, TypeOK
  <2>4. i \in raw.active => grown
    BY <1>2 DEF Clean
  <2>5. i \in DOMAIN filled /\ filled[i] \in raw.cache => torn
    BY <1>2, <2>3 DEF Clean
  <2> QED BY <1>3, <2>1, <2>2, <2>3, <2>4, <2>5
<1>5. TypeOK'
  BY <1>4 DEF IInv, TypeOK
<1>6. Roomy' /\ Clean' /\ Rounds'
  BY <1>2 DEF Roomy, Clean, Rounds
<1>7. FaultsAreEarned'
  BY <1>2, <1>3, <1>4 DEF FaultsAreEarned, Rounds
<1> QED BY <1>1, <1>5, <1>6, <1>7 DEF IInv, Good, Made

LEMMA VisitSecondStep ==
  ASSUME IInv, status = "ok", VisitSecond
  PROVE  IInv'
<1> USE DEF VisitSecond, history
<1>1. Made /\ Made'
  BY DEF Made
<1>2. Roomy /\ Clean /\ Rounds
  BY <1>1 DEF IInv, Good
<1>3. TypeOK'
  BY DEF IInv, TypeOK
<1>4. Roomy' /\ Clean' /\ Rounds'
  BY <1>2 DEF Roomy, Clean, Rounds
<1>5. FaultsAreEarned'
  BY <1>2 DEF FaultsAreEarned, Rounds
<1> QED BY <1>1, <1>3, <1>4, <1>5 DEF IInv, Good, Made

LEMMA FreeStep ==
  ASSUME IInv, status = "ok", Free
  PROVE  IInv'
<1> USE DEF Free, BackendFrees, loop, history
<1>1. TypeOK'
  BY DEF IInv, TypeOK
<1> QED BY <1>1 DEF IInv, Good, Made, FaultsAreEarned

\* The inductive invariant: active keeps `size` entries, cache those of all registered
\* descriptors and of all that entries of active name, through resizes that fail half
\* way or come in the middle of a round (kvs_ev.c:170-205, 211-231).
THEOREM Inductive == Spec => []IInv
<1>1. Init => IInv
  BY InitIsGood
<1>2. IInv /\ [Next]_vars => IInv'
  <2> SUFFICES ASSUME IInv, [Next]_vars PROVE IInv'
    OBVIOUS
  <2>1. ASSUME NEW k \in Sizes, NEW backs \in BOOLEAN, New(k, backs), status = "ok" PROVE IInv'
    BY <2>1, NewStep
  <2>2. ASSUME NEW k \in Sizes, NEW backs \in BOOLEAN, NewFails(k, backs), status = "ok" PROVE IInv'
    BY <2>2, NewFailsStep
  <2>3. ASSUME NEW fd \in Fds, NEW events \in SUBSET Event \ {{}}, Add(fd, events), status = "ok"
        PROVE  IInv'
    BY <2>3, AddStep
  <2>4. ASSUME NEW fd \in Fds, NEW events \in SUBSET Event \ {{}}, Del(fd, events), status = "ok"
        PROVE  IInv'
    BY <2>4, DelStep
  <2>5. ASSUME NEW k \in Sizes, NEW got \in SUBSET Array, Resize(k, got), status = "ok" PROVE IInv'
    BY <2>5, ResizeStep
  <2>6. ASSUME NEW R \in SUBSET Readers, NEW W \in SUBSET Writers, Select(R, W), status = "ok"
        PROVE  IInv'
    BY <2>6, SelectStep
  <2>7. ASSUME SelectInterrupted, status = "ok" PROVE IInv'
    BY <2>7, SelectInterruptedStep
  <2>8. ASSUME NEW S \in SUBSET (Readers \cup Writers), EpollWait(S), status = "ok" PROVE IInv'
    BY <2>8, EpollWaitStep
  <2>9. ASSUME Visit, status = "ok" PROVE IInv'
    BY <2>9, VisitStep
  <2>10. ASSUME VisitSecond, status = "ok" PROVE IInv'
    BY <2>10, VisitSecondStep
  <2>11. ASSUME Free, status = "ok" PROVE IInv'
    BY <2>11, FreeStep
  <2>12. CASE UNCHANGED vars
    BY <2>12 DEF vars, loop, history, IInv, TypeOK, Good, Made, Roomy, Clean, Rounds, Unmade, FaultsAreEarned
  <2> QED BY <2>1, <2>2, <2>3, <2>4, <2>5, <2>6, <2>7, <2>8, <2>9, <2>10, <2>11, <2>12 DEF Next
<1> QED BY <1>1, <1>2, PTL DEF Spec

\* No resize cuts off the entry of a registered descriptor (kvs_ev.c:178).
THEOREM EntriesAreKept == Spec => []RegisteredKeepEntries
<1>1. IInv => RegisteredKeepEntries
  BY EvSizeAssumption DEF IInv, TypeOK, Good, Roomy, RegisteredKeepEntries, Readers, Writers, Array
<1> QED BY <1>1, Inductive, PTL

\* The entries yet to be visited are there, through resizes in the middle of a round,
\* unless select counted a descriptor twice (kvs_ev.c:178, 217, kvs_ev_select.c:91).
THEOREM VisitsAreInside == Spec => []VisitsStayInside
<1>1. ASSUME IInv PROVE VisitsStayInside
  <2> SUFFICES ASSUME status = "ok", Made, ~twice, NEW j \in i..n - 1
               PROVE  j < room["active"] /\ j \in DOMAIN filled /\ filled[j] < room["cache"]
    BY DEF VisitsStayInside
  <2>1. Roomy /\ Rounds
    BY <1>1 DEF IInv, Good
  <2>2. j \in DOMAIN filled
    BY <1>1, <2>1 DEF Rounds, IInv, TypeOK
  <2>3. filled[j] \in Nat /\ maxfd \in Nat /\ room["cache"] \in Nat
    BY <1>1, <2>2, EvSizeAssumption DEF IInv, TypeOK, Array
  <2> QED BY <2>1, <2>2, <2>3 DEF Roomy
<1> QED BY <1>1, Inductive, PTL

\* The loop leaves its arrays for the causes named only: a backend that was never made,
\* a torn resize, a resize of epoll's events, select's double count, an fd_set that ends
\* before the arrays (kvs_ev.c:77, 186-195, kvs_ev_epoll.c:38, kvs_ev_select.c:42, 91).
THEOREM EarnsItsFaults == Spec => []FaultsAreEarned
<1>1. IInv => FaultsAreEarned
  BY DEF IInv
<1> QED BY <1>1, Inductive, PTL
==============================================================================
