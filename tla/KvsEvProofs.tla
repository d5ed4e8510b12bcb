----------------------------- MODULE KvsEvProofs -----------------------------
(***************************************************************************)
(* The event loop for any size of its arrays, any number of descriptors    *)
(* and connections, either backend: registrations, what the kernel watches *)
(* and open descriptors agree, and no round goes astray.                   *)
(*                                                                         *)
(* The invariant has two parts.  Sound speaks of the registrations and the *)
(* open descriptors alone, which only accept_fd and the callbacks change,  *)
(* one descriptor at a time.  Round speaks of the array active: which      *)
(* entries were ever filled, and how far the visits of a round may go.     *)
(***************************************************************************)
EXTENDS KvsEv, TLAPS, FiniteSetTheorems, WellFoundedInduction

Api == {"select", "epoll"}
Evs == [api : Api, mask : [Entry -> SUBSET Event], data : [Entry -> Conn \cup {None}],
        r : SUBSET Entry, w : SUBSET Entry, maxfd : Entry]
Files == [Fd -> Conn \cup {None}]
Actives == [Entry -> [fd : Entry \cup {Wild}, mask : SUBSET Event]]

Agree(e, fd) == /\ fd \in e.r <=> "r" \in e.mask[fd]
                /\ fd \in e.w <=> "w" \in e.mask[fd]
DeafTo(e, fd) == /\ e.api = "epoll" /\ fd # Listen
                 /\ e.mask[fd] = {"r"} /\ fd \in e.w /\ fd \notin e.r

\* What holds of one entry: cache and kernel agree, or epoll has made it deaf; an
\* entry with events is an open descriptor with its own client.
Entered(e, files, fd) ==
  /\ Agree(e, fd) \/ DeafTo(e, fd)
  /\ fd # Listen /\ e.mask[fd] # {} => /\ fd \in Fd
                                        /\ files[fd] # None
                                        /\ e.data[fd] = files[fd]
Sound(e, files) ==
  /\ e \in Evs /\ files \in Files
  /\ files[Listen] = None /\ e.mask[Listen] = {"r"}
  /\ \A fd \in Entry : Entered(e, files, fd)
  /\ e.r \cup e.w \subseteq 0..e.maxfd
  /\ \A fd \in Fd : files[fd] # None => fd >= Size \/ "r" \in e.mask[fd]

Round ==
  /\ active \in Actives /\ n \in Int /\ i \in Nat
  /\ pc \in {"select", "read", "write"} /\ status \in {"ok", "fault"}
  /\ n <= 2 * ev.maxfd + 1
  /\ pc # "select" => i < n
  /\ ev.api = "epoll" /\ pc # "select" =>
       n <= Size /\ \A j \in 0..n - 1 : active[j].fd # Wild
  /\ pc = "write" => (status = "fault" <=> Beyond)
  /\ status = "fault" => pc = "write" /\ ev.api = "select"

Counted == waiting \in Nat /\ made \in Nat /\ waiting + made <= MaxConns

IInv == Sound(ev, file) /\ Round /\ Counted

-----------------------------------------------------------------------------
(* What the operators of the model return *)

LEMMA MaxOfTwo ==
  ASSUME NEW a \in Int, NEW b \in Int
  PROVE  Max({a, b}) \in {a, b} /\ Max({a, b}) >= a /\ Max({a, b}) >= b
<1>1. \E x \in {a, b} : \A y \in {a, b} : x >= y
  <2>1. CASE a >= b
    BY <2>1
  <2>2. CASE b >= a
    BY <2>2
  <2> QED BY <2>1, <2>2
<1> QED BY <1>1 DEF Max

LEMMA MinIsIn ==
  ASSUME NEW S, S \subseteq Nat, S # {}
  PROVE  Min(S) \in S
<1> DEFINE L == OpToRel(<, Nat)
<1>1. L = {ss \in Nat \X Nat : ss[1] < ss[2]}
  BY DEF OpToRel
<1>2. IsWellFoundedOn(L, Nat)
  BY NatLessThanWellFounded
<1> HIDE DEF L
<1>3. PICK x \in S : \A y \in S : ~(<<y, x>> \in L)
  BY <1>2, WFMin
<1>4. ASSUME NEW y \in S, y < x PROVE FALSE
  <2>1. <<y, x>> \in Nat \X Nat
    OBVIOUS
  <2>2. <<y, x>> \in L
    BY <2>1, <1>1, <1>4
  <2> QED BY <2>2, <1>3
<1>5. \A y \in S : x <= y
  BY <1>4
<1> QED BY <1>5 DEF Min

\* The backends change nothing but the sets they watch.
AddedTo(e, S, fd, what, mask) == IF e.api = "select" THEN With(S, fd, what, mask)
                                 ELSE Modified(S, fd, what, mask \cup e.mask[fd])
Left(e, fd, mask) == IF e.mask[fd] \ mask = {} THEN {} ELSE mask
GoneFrom(e, S, fd, what, mask) == IF e.api = "select" THEN Without(S, fd, what, mask)
                                  ELSE Modified(S, fd, what, Left(e, fd, mask))

LEMMA WatchedAreEntries ==
  ASSUME NEW e \in Evs, NEW fd \in Entry, NEW mask, NEW what, NEW S \in SUBSET Entry
  PROVE  /\ AddedTo(e, S, fd, what, mask) \in SUBSET Entry
         /\ GoneFrom(e, S, fd, what, mask) \in SUBSET Entry
BY DEF AddedTo, GoneFrom, With, Without, Modified

LEMMA EvFields ==
  ASSUME NEW e \in Evs
  PROVE  /\ e.api \in Api /\ e.mask \in [Entry -> SUBSET Event] /\ e.data \in [Entry -> Conn \cup {None}]
         /\ e.r \in SUBSET Entry /\ e.w \in SUBSET Entry /\ e.maxfd \in Entry /\ e.maxfd \in Nat
BY SizeAssumption DEF Evs, Entry

\* kvs_ev_add, field by field.
LEMMA AddFields ==
  ASSUME NEW e \in Evs, NEW fd \in Entry, NEW mask \in SUBSET Event, NEW d \in Conn \cup {None},
         NEW a, a = Add(e, fd, mask, d)
  PROVE  /\ a \in Evs /\ a.api = e.api
         /\ a.mask = [e.mask EXCEPT ![fd] = @ \cup mask]
         /\ a.data = [e.data EXCEPT ![fd] = d]
         /\ a.maxfd >= e.maxfd /\ a.maxfd >= fd
         /\ a.r = AddedTo(e, e.r, fd, "r", mask)
         /\ a.w = AddedTo(e, e.w, fd, "w", mask)
<1>1. fd \in Int /\ ~(fd >= Size) /\ e.maxfd \in Int
  BY SizeAssumption DEF Entry, Evs
<1> DEFINE m == Max({e.maxfd, fd})
           ar == AddedTo(e, e.r, fd, "r", mask)
           aw == AddedTo(e, e.w, fd, "w", mask)
<1>2. m \in Entry /\ m >= e.maxfd /\ m >= fd
  BY <1>1, MaxOfTwo DEF Evs
<1>3. ar \in SUBSET Entry /\ aw \in SUBSET Entry
  BY WatchedAreEntries DEF Evs
<1> DEFINE b == [e EXCEPT !.r = ar, !.w = aw]
<1>4. a = [e EXCEPT !.r = ar, !.w = aw, !.mask[fd] = @ \cup mask, !.data[fd] = d, !.maxfd = m]
  <2>1. BackendAdd(e, fd, mask) = b
    BY Zenon DEF BackendAdd, AddedTo
  <2>2. b.mask = e.mask /\ b.data = e.data /\ b.maxfd = e.maxfd
    BY DEF Evs
  <2>3. a = [BackendAdd(e, fd, mask) EXCEPT !.mask[fd] = @ \cup mask, !.data[fd] = d, !.maxfd = Max({@, fd})]
    BY <1>1, Zenon DEF Add
  <2> HIDE DEF ar, aw
  <2>4. a = [b EXCEPT !.mask[fd] = @ \cup mask, !.data[fd] = d, !.maxfd = m]
    BY <2>1, <2>2, <2>3
  <2> QED BY <2>2, <2>4 DEF Evs
<1> HIDE DEF m, ar, aw
<1>5. e.mask \in [Entry -> SUBSET Event] /\ e.data \in [Entry -> Conn \cup {None}] /\ e.api \in Api
  BY DEF Evs
<1>6. [e.mask EXCEPT ![fd] = @ \cup mask] \in [Entry -> SUBSET Event]
  BY <1>5
<1>7. [e.data EXCEPT ![fd] = d] \in [Entry -> Conn \cup {None}]
  BY <1>5
<1>8. /\ a.api = e.api /\ a.r = ar /\ a.w = aw /\ a.maxfd = m
      /\ a.mask = [e.mask EXCEPT ![fd] = @ \cup mask] /\ a.data = [e.data EXCEPT ![fd] = d]
  BY <1>4 DEF Evs
<1>9. a \in Evs
  BY <1>2, <1>3, <1>4, <1>5, <1>6, <1>7 DEF Evs
<1> QED BY <1>2, <1>8, <1>9 DEF ar, aw

\* kvs_ev_del, field by field.
LEMMA DelFields ==
  ASSUME NEW e \in Evs, NEW fd \in Entry, NEW mask \in SUBSET Event, NEW a, a = Del(e, fd, mask)
  PROVE  /\ a \in Evs /\ a.api = e.api
         /\ a.mask = [e.mask EXCEPT ![fd] = @ \ mask]
         /\ a.data = e.data /\ a.maxfd = e.maxfd
         /\ a.r = GoneFrom(e, e.r, fd, "r", mask)
         /\ a.w = GoneFrom(e, e.w, fd, "w", mask)
<1>1. ~(fd >= Size)
  BY SizeAssumption DEF Entry
<1> DEFINE ar == GoneFrom(e, e.r, fd, "r", mask)
           aw == GoneFrom(e, e.w, fd, "w", mask)
<1>2. ar \in SUBSET Entry /\ aw \in SUBSET Entry
  BY WatchedAreEntries DEF Evs
<1> DEFINE b == [e EXCEPT !.r = ar, !.w = aw]
<1>3. a = [e EXCEPT !.r = ar, !.w = aw, !.mask[fd] = @ \ mask]
  <2>1. BackendDel(e, fd, mask) = b
    BY Zenon DEF BackendDel, GoneFrom, Left
  <2>2. b.mask = e.mask
    BY DEF Evs
  <2>3. a = [BackendDel(e, fd, mask) EXCEPT !.mask[fd] = @ \ mask]
    BY <1>1, Zenon DEF Del
  <2> HIDE DEF ar, aw
  <2>4. a = [b EXCEPT !.mask[fd] = @ \ mask]
    BY <2>1, <2>2, <2>3
  <2> QED BY <2>2, <2>4 DEF Evs
<1> HIDE DEF ar, aw
<1>4. e.mask \in [Entry -> SUBSET Event]
  BY DEF Evs
<1>5. [e.mask EXCEPT ![fd] = @ \ mask] \in [Entry -> SUBSET Event]
  BY <1>4
<1>6. a \in Evs
  BY <1>2, <1>3, <1>5 DEF Evs
<1>7. /\ a.api = e.api /\ a.r = ar /\ a.w = aw /\ a.maxfd = e.maxfd
      /\ a.mask = [e.mask EXCEPT ![fd] = @ \ mask] /\ a.data = e.data
  BY <1>3 DEF Evs
<1> QED BY <1>6, <1>7 DEF ar, aw

-----------------------------------------------------------------------------
(* Sound survives everything the callbacks do to a descriptor *)

LEMMA ListenIsBoth == Listen \in Entry /\ Listen \in Fd /\ Entry \subseteq Nat /\ Fd \subseteq Nat
BY SizeAssumption DEF Listen, Entry, Fd

\* A step that changes what is kept of the descriptor fd alone and keeps it right.
OnlyAt(fd, e, files, a, after) ==
  /\ e \in Evs /\ a \in Evs /\ files \in Files /\ after \in Files
  /\ fd \in Entry /\ fd # Listen /\ a.api = e.api
  /\ \A g \in Entry \ {fd} : /\ a.mask[g] = e.mask[g] /\ a.data[g] = e.data[g]
                             /\ g \in a.r <=> g \in e.r
                             /\ g \in a.w <=> g \in e.w
  /\ \A g \in Fd \ {fd} : after[g] = files[g]
  /\ a.maxfd >= e.maxfd
  /\ a.maxfd >= fd \/ fd \notin a.r \cup a.w
  /\ Entered(a, after, fd)
  /\ fd \in Fd => after[fd] = None \/ "r" \in a.mask[fd]

\* It suffices to look at the descriptor that is changed: Entered speaks of one.
LEMMA OthersStay ==
  ASSUME NEW fd, NEW e, NEW files, NEW a, NEW after,
         Sound(e, files), OnlyAt(fd, e, files, a, after)
  PROVE  Sound(a, after)
<1> USE DEF OnlyAt
<1>1. after[Listen] = None /\ a.mask[Listen] = {"r"}
  BY ListenIsBoth DEF Sound
<1>2. \A g \in Entry : Entered(a, after, g)
  BY DEF Sound, Entered, Agree, DeafTo
<1>3. a.r \cup a.w \subseteq 0..a.maxfd
  <2> SUFFICES ASSUME NEW g \in a.r \cup a.w PROVE g \in 0..a.maxfd
    OBVIOUS
  <2>1. g \in Entry /\ g \in Nat /\ a.maxfd \in Int /\ e.maxfd \in Int /\ fd \in Nat
    <3>1. a.r \in SUBSET Entry /\ a.w \in SUBSET Entry /\ a.maxfd \in Nat
      BY EvFields
    <3>2. e.maxfd \in Nat
      BY EvFields
    <3>3. g \in Entry
      BY <3>1
    <3>4. g \in Nat /\ fd \in Nat
      BY <3>3, ListenIsBoth
    <3> QED BY <3>1, <3>2, <3>3, <3>4
  <2>2. CASE g = fd
    BY <2>1, <2>2
  <2>3. CASE g # fd
    <3>1. g \in 0..e.maxfd
      BY <2>1, <2>3 DEF Sound
    <3> QED BY <2>1, <3>1
  <2> QED BY <2>2, <2>3
<1>4. \A g \in Fd : after[g] # None => g >= Size \/ "r" \in a.mask[g]
  <2> SUFFICES ASSUME NEW g \in Fd, after[g] # None, ~(g >= Size) PROVE "r" \in a.mask[g]
    OBVIOUS
  <2>1. g \in Entry
    BY SizeAssumption DEF Fd, Entry
  <2> QED BY <2>1 DEF Sound
<1> QED BY <1>1, <1>2, <1>3, <1>4 DEF Sound

\* kvs_ev_add for the descriptor that accept has just given.
LEMMA RegisteredSound ==
  ASSUME NEW e, NEW files, Sound(e, files), NEW fd \in Fd \ {Listen}, files[fd] = None,
         NEW k \in Conn, NEW a, a = Add(e, fd, {"r"}, k), NEW after, after = [files EXCEPT ![fd] = k]
  PROVE  Sound(a, after) /\ a.api = e.api /\ a.maxfd >= e.maxfd
<1>0. e \in Evs /\ files \in Files /\ k # None /\ e.maxfd \in Int
  BY SizeAssumption DEF Sound, Conn, None, Evs, Entry
<1>1. after \in Files /\ after[fd] = k /\ \A g \in Fd \ {fd} : after[g] = files[g]
  BY <1>0 DEF Files
<1>2. CASE fd >= Size
  <2>1. a = e /\ fd \notin Entry
    BY <1>2, SizeAssumption DEF Add, Entry
  <2>2. \A g \in Entry : Entered(e, after, g)
    BY <1>0, <1>1, <2>1 DEF Sound, Entered, Agree, DeafTo
  <2>3. \A g \in Fd : after[g] # None => g >= Size \/ "r" \in a.mask[g]
    BY <1>1, <1>2, <2>1 DEF Sound
  <2>4. after[Listen] = None
    BY <1>1, ListenIsBoth DEF Sound
  <2>5. e.mask[Listen] = {"r"} /\ e.r \cup e.w \subseteq 0..e.maxfd
    BY DEF Sound
  <2>6. Sound(e, after)
    BY <1>0, <1>1, <2>1, <2>2, <2>3, <2>4, <2>5 DEF Sound
  <2> QED BY <1>0, <2>1, <2>6
<1>3. CASE ~(fd >= Size)
  <2>1. fd \in Entry
    BY <1>3, SizeAssumption DEF Fd, Entry
  <2>2. /\ a \in Evs /\ a.api = e.api
        /\ a.mask = [e.mask EXCEPT ![fd] = @ \cup {"r"}]
        /\ a.data = [e.data EXCEPT ![fd] = k]
        /\ a.maxfd >= e.maxfd /\ a.maxfd >= fd
        /\ a.r = AddedTo(e, e.r, fd, "r", {"r"})
        /\ a.w = AddedTo(e, e.w, fd, "w", {"r"})
    BY <1>0, <2>1, AddFields DEF Event
  <2>3. e.mask[fd] = {} /\ fd \notin e.r /\ fd \notin e.w
    BY <2>1 DEF Sound, Entered, Agree, DeafTo
  <2>4. a.mask[fd] = {"r"} /\ a.data[fd] = k /\ \A g \in Entry \ {fd} : a.mask[g] = e.mask[g] /\ a.data[g] = e.data[g]
    BY <1>0, <2>1, <2>2, <2>3 DEF Evs
  <2>5. fd \in a.r /\ fd \notin a.w
    BY <2>2, <2>3 DEF AddedTo, With, Modified
  <2>6. \A g \in Entry \ {fd} : (g \in a.r <=> g \in e.r) /\ (g \in a.w <=> g \in e.w)
    BY <2>2 DEF AddedTo, With, Modified
  <2>7. Entered(a, after, fd)
    BY <1>0, <1>1, <2>4, <2>5 DEF Entered, Agree
  <2>8. \A g \in Entry \ {fd} : /\ a.mask[g] = e.mask[g] /\ a.data[g] = e.data[g]
                                /\ g \in a.r <=> g \in e.r
                                /\ g \in a.w <=> g \in e.w
    BY <2>4, <2>6
  <2>9. fd # Listen /\ "r" \in a.mask[fd]
    BY <2>4
  <2>10. Sound(a, after)
    <3>1. fd \in Fd => after[fd] = None \/ "r" \in a.mask[fd]
      BY <2>9
    <3>2. a.maxfd >= fd \/ fd \notin a.r \cup a.w
      BY <2>2
    <3>3. OnlyAt(fd, e, files, a, after)
      BY <1>0, <1>1, <2>1, <2>2, <2>7, <2>8, <2>9, <3>1, <3>2 DEF OnlyAt
    <3> QED BY <3>3, OthersStay
  <2> QED BY <2>2, <2>10
<1> QED BY <1>2, <1>3

\* An answer is registered for writing, for a client that is open.
LEMMA AnswerSound ==
  ASSUME NEW e, NEW files, Sound(e, files), NEW fd \in Entry \ {Listen}, fd \in Fd,
         files[fd] # None, NEW a, a = Add(e, fd, {"w"}, files[fd])
  PROVE  Sound(a, files) /\ a.api = e.api /\ a.maxfd >= e.maxfd
<1>1. e \in Evs /\ files \in Files /\ files[fd] \in Conn \cup {None} /\ e.maxfd \in Nat
  BY EvFields DEF Sound, Files
<1>2. /\ a \in Evs /\ a.api = e.api
      /\ a.mask = [e.mask EXCEPT ![fd] = @ \cup {"w"}]
      /\ a.data = [e.data EXCEPT ![fd] = files[fd]]
      /\ a.maxfd >= e.maxfd /\ a.maxfd >= fd
      /\ a.r = AddedTo(e, e.r, fd, "r", {"w"})
      /\ a.w = AddedTo(e, e.w, fd, "w", {"w"})
  BY <1>1, AddFields DEF Event
<1>3. Entered(e, files, fd)
  BY DEF Sound
<1>4. e.mask \in [Entry -> SUBSET Event] /\ e.data \in [Entry -> Conn \cup {None}]
  BY <1>1, EvFields
<1>5. /\ a.mask[fd] = e.mask[fd] \cup {"w"} /\ a.data[fd] = files[fd]
      /\ \A g \in Entry \ {fd} : a.mask[g] = e.mask[g] /\ a.data[g] = e.data[g]
  BY <1>2, <1>4
<1>6. fd \in a.w /\ (fd \in a.r <=> "r" \in a.mask[fd])
  BY <1>2, <1>3, <1>5 DEF AddedTo, With, Modified, Entered, Agree, DeafTo
<1>7. \A g \in Entry \ {fd} : /\ a.mask[g] = e.mask[g] /\ a.data[g] = e.data[g]
                              /\ g \in a.r <=> g \in e.r
                              /\ g \in a.w <=> g \in e.w
  BY <1>2, <1>5 DEF AddedTo, With, Modified
<1>8. Entered(a, files, fd)
  BY <1>5, <1>6 DEF Entered, Agree
<1>9. "r" \in a.mask[fd]
  <2>1. "r" \in e.mask[fd]
    BY SizeAssumption DEF Sound, Entry
  <2> QED BY <2>1, <1>5
<1>10. OnlyAt(fd, e, files, a, files)
  BY <1>1, <1>2, <1>7, <1>8, <1>9 DEF OnlyAt
<1> QED BY <1>2, <1>10, OthersStay

\* An answer was written: with epoll, the descriptor is then deaf, or only just
\* closed to both.
LEMMA WrittenSound ==
  ASSUME NEW e, NEW files, Sound(e, files), NEW fd \in Entry \ {Listen}, fd \in Fd,
         files[fd] # None, NEW a, a = Del(e, fd, {"w"})
  PROVE  Sound(a, files) /\ a.api = e.api /\ a.maxfd >= e.maxfd
<1>1. e \in Evs /\ files \in Files /\ e.maxfd \in Nat
  BY EvFields DEF Sound
<1>2. /\ a \in Evs /\ a.api = e.api
      /\ a.mask = [e.mask EXCEPT ![fd] = @ \ {"w"}]
      /\ a.data = e.data /\ a.maxfd = e.maxfd
      /\ a.r = GoneFrom(e, e.r, fd, "r", {"w"})
      /\ a.w = GoneFrom(e, e.w, fd, "w", {"w"})
  BY <1>1, DelFields DEF Event
<1>3. Entered(e, files, fd)
  BY DEF Sound
<1>4. e.mask \in [Entry -> SUBSET Event] /\ e.api \in Api
  BY <1>1, EvFields
<1>5. /\ a.mask[fd] = e.mask[fd] \ {"w"} /\ a.data[fd] = e.data[fd]
      /\ \A g \in Entry \ {fd} : a.mask[g] = e.mask[g] /\ a.data[g] = e.data[g]
  BY <1>2, <1>4
<1>6. "r" \in e.mask[fd] /\ e.mask[fd] \subseteq {"r", "w"}
  BY <1>4, SizeAssumption DEF Sound, Entry, Event
<1>7. a.mask[fd] = {"r"} /\ Left(e, fd, {"w"}) = {"w"}
  BY <1>5, <1>6 DEF Left
<1>8. Agree(a, fd) \/ DeafTo(a, fd)
  <2>1. CASE e.api = "select"
    BY <1>2, <1>3, <1>6, <1>7, <2>1 DEF GoneFrom, Without, Entered, Agree, DeafTo
  <2>2. CASE e.api # "select"
    <3>1. fd \in a.w /\ fd \notin a.r
      BY <1>2, <1>7, <2>2 DEF GoneFrom, Modified
    <3> QED BY <1>2, <1>4, <1>7, <2>2, <3>1 DEF DeafTo, Api
  <2> QED BY <2>1, <2>2
<1>9. \A g \in Entry \ {fd} : /\ a.mask[g] = e.mask[g] /\ a.data[g] = e.data[g]
                              /\ g \in a.r <=> g \in e.r
                              /\ g \in a.w <=> g \in e.w
  BY <1>2, <1>5 DEF GoneFrom, Without, Modified
<1>10. Entered(a, files, fd)
  BY <1>3, <1>5, <1>6, <1>7, <1>8 DEF Entered
<1>11. a.maxfd >= fd \/ fd \notin a.r \cup a.w
  <2>1. fd \in e.r \cup e.w
    BY <1>3, <1>6 DEF Entered, Agree, DeafTo
  <2>2. fd \in 0..e.maxfd
    BY <2>1 DEF Sound
  <2> QED BY <1>1, <1>2, <2>2
<1>12. OnlyAt(fd, e, files, a, files)
  BY <1>1, <1>2, <1>7, <1>9, <1>10, <1>11 DEF OnlyAt
<1> QED BY <1>1, <1>2, <1>12, OthersStay

\* A client has left: its descriptor is closed behind its registrations.
LEMMA ClosedSound ==
  ASSUME NEW e, NEW files, Sound(e, files), NEW fd \in Entry \ {Listen}, fd \in Fd,
         NEW a, a = Closed(Del(e, fd, Event), fd),
         NEW after, after = [files EXCEPT ![fd] = None]
  PROVE  Sound(a, after) /\ a.api = e.api /\ a.maxfd >= e.maxfd
<1>1. e \in Evs /\ files \in Files /\ e.maxfd \in Nat
  BY EvFields DEF Sound
<1> DEFINE d == Del(e, fd, Event)
<1>2. /\ d \in Evs /\ d.api = e.api
      /\ d.mask = [e.mask EXCEPT ![fd] = @ \ Event]
      /\ d.data = e.data /\ d.maxfd = e.maxfd
      /\ d.r = GoneFrom(e, e.r, fd, "r", Event)
      /\ d.w = GoneFrom(e, e.w, fd, "w", Event)
  BY <1>1, DelFields
<1>3. e.mask \in [Entry -> SUBSET Event] /\ e.api \in Api
  BY <1>1, EvFields
<1>4. Left(e, fd, Event) = {}
  BY <1>3 DEF Left
<1>5. fd \notin d.r /\ fd \notin d.w
  BY <1>2, <1>4 DEF GoneFrom, Without, Modified, Event
<1> HIDE DEF d
<1>6. /\ a \in Evs /\ a.api = d.api /\ a.mask = d.mask /\ a.data = d.data /\ a.maxfd = d.maxfd
      /\ a.r = d.r \ {fd} /\ a.w = d.w \ {fd}
  <2>1. a = Closed(d, fd)
    BY DEF d
  <2>2. CASE d.api = "select"
    BY <1>2, <1>5, <2>1, <2>2 DEF Closed
  <2>3. CASE d.api # "select"
    <3>1. a = [d EXCEPT !.r = @ \ {fd}, !.w = @ \ {fd}]
      BY <2>1, <2>3 DEF Closed
    <3>2. d.r \ {fd} \in SUBSET Entry /\ d.w \ {fd} \in SUBSET Entry
      BY <1>2, EvFields
    <3>3. a \in Evs
      BY <1>2, <3>1, <3>2 DEF Evs
    <3> QED BY <1>2, <3>1, <3>3 DEF Evs
  <2> QED BY <2>2, <2>3
<1>7. /\ a.mask[fd] = {} /\ fd \notin a.r /\ fd \notin a.w
      /\ \A g \in Entry \ {fd} : a.mask[g] = e.mask[g] /\ a.data[g] = e.data[g]
  BY <1>2, <1>3, <1>6
<1>8. \A g \in Entry \ {fd} : /\ a.mask[g] = e.mask[g] /\ a.data[g] = e.data[g]
                              /\ g \in a.r <=> g \in e.r
                              /\ g \in a.w <=> g \in e.w
  BY <1>2, <1>6, <1>7 DEF GoneFrom, Without, Modified
<1>9. Entered(a, after, fd)
  BY <1>7 DEF Entered, Agree
<1>10. after \in Files /\ after[fd] = None /\ \A g \in Fd \ {fd} : after[g] = files[g]
  BY <1>1 DEF Files
<1>11. OnlyAt(fd, e, files, a, after)
  BY <1>1, <1>2, <1>6, <1>7, <1>8, <1>9, <1>10 DEF OnlyAt
<1> QED BY <1>1, <1>2, <1>6, <1>11, OthersStay

-----------------------------------------------------------------------------
(* accept_fd *)

Fit(s) == Sound(s.ev, s.file) /\ s.waiting \in Nat /\ s.made \in Nat /\ s.waiting + s.made <= MaxConns

\* What a step may do to the loop: the backend stays, maxfd does not get smaller.
Grown(e, a) == a.api = e.api /\ a.maxfd >= e.maxfd

LEMMA AcceptOneFits ==
  ASSUME NEW s, Fit(s)
  PROVE  Fit(AcceptOne(s)) /\ Grown(s.ev, AcceptOne(s).ev)
<1>1. s.ev.maxfd \in Nat
  BY EvFields DEF Fit, Sound
<1>2. CASE s.waiting = 0 \/ FreeIn(s.file) = {}
  BY <1>1, <1>2 DEF AcceptOne, Grown
<1>3. CASE ~(s.waiting = 0 \/ FreeIn(s.file) = {})
  <2> DEFINE fd == Min(FreeIn(s.file))
             k  == s.made + 1
             a  == Add(s.ev, fd, {"r"}, k)
             f  == [s.file EXCEPT ![fd] = k]
  <2>1. fd \in FreeIn(s.file)
    <3>1. FreeIn(s.file) \subseteq Nat
      BY ListenIsBoth DEF FreeIn
    <3> QED BY <1>3, <3>1, MinIsIn
  <2>2. k \in Conn /\ k \in Nat /\ s.waiting - 1 \in Nat /\ (s.waiting - 1) + k <= MaxConns
    BY <1>3, SizeAssumption DEF Fit, Conn
  <2>3. fd \in Fd \ {Listen} /\ s.file[fd] = None
    BY <2>1 DEF FreeIn
  <2> HIDE DEF fd, k
  <2>4. Sound(a, f) /\ a.api = s.ev.api /\ a.maxfd >= s.ev.maxfd
    BY <2>2, <2>3, RegisteredSound DEF Fit
  <2> HIDE DEF a, f
  <2>5. AcceptOne(s) = [ev |-> a, file |-> f, waiting |-> s.waiting - 1, made |-> k]
    BY <1>3 DEF AcceptOne, fd, k, a, f
  <2> QED BY <2>2, <2>4, <2>5 DEF Fit, Grown
<1> QED BY <1>2, <1>3

LEMMA AcceptSound ==
  ASSUME Sound(ev, file), Counted, Accept
  PROVE  Sound(ev', file') /\ Counted' /\ Grown(ev, ev') /\ status' = status
<1> DEFINE s0 == [ev |-> ev, file |-> file, waiting |-> waiting, made |-> made]
           s1 == AcceptOne(s0)
           s2 == AcceptOne(s1)
           s3 == AcceptOne(s2)
<1>1. Fit(s0)
  BY DEF Fit, Counted
<1>2. s0.ev = ev
  OBVIOUS
<1> HIDE DEF s0
<1>3. Fit(s1) /\ Grown(s0.ev, s1.ev)
  BY <1>1, AcceptOneFits
<1> HIDE DEF s1
<1>4. Fit(s2) /\ Grown(s1.ev, s2.ev)
  BY <1>3, AcceptOneFits
<1> HIDE DEF s2
<1>5. Fit(s3) /\ Grown(s2.ev, s3.ev)
  BY <1>4, AcceptOneFits
<1> HIDE DEF s3
<1>6. ev' = s3.ev /\ file' = s3.file /\ waiting' = s3.waiting /\ made' = s3.made /\ status' = status
  BY DEF Accept, s0, s1, s2, s3
<1>7. s0.ev.maxfd \in Nat /\ s1.ev.maxfd \in Nat /\ s2.ev.maxfd \in Nat /\ s3.ev.maxfd \in Nat
  BY <1>1, <1>3, <1>4, <1>5, EvFields DEF Fit, Sound
<1> QED BY <1>2, <1>3, <1>4, <1>5, <1>6, <1>7 DEF Fit, Grown, Counted

-----------------------------------------------------------------------------
(* select and epoll_wait *)

LEMMA StoredEntries ==
  ASSUME active \in Actives, NEW R \in SUBSET Entry, NEW W \in SUBSET Entry, NEW place
  PROVE  /\ Stored(place, R, W) \in Actives
         /\ \A j \in Entry : (\E x \in R \cup W : place[x] = j) => Stored(place, R, W)[j].fd # Wild
<1> DEFINE At(j) == {x \in R \cup W : place[x] = j}
           New(j) == [fd   |-> CHOOSE x \in At(j) : TRUE,
                      mask |-> active[j].mask \cup (IF At(j) \subseteq R THEN {"r"} ELSE {})
                                              \cup (IF At(j) \subseteq W THEN {"w"} ELSE {})]
<1>1. Stored(place, R, W) = [j \in Entry |-> IF At(j) = {} THEN active[j] ELSE New(j)]
  BY DEF Stored
<1>2. ASSUME NEW j \in Entry, At(j) # {}
      PROVE  New(j).fd \in Entry /\ New(j) \in [fd : Entry \cup {Wild}, mask : SUBSET Event]
  <2>1. (CHOOSE x \in At(j) : TRUE) \in Entry
    BY <1>2
  <2>2. active[j].mask \in SUBSET Event
    BY DEF Actives
  <2>3. New(j).mask \in SUBSET Event
    BY <2>2 DEF Event
  <2> QED BY <2>1, <2>3
<1>3. \A j \in Entry : active[j] \in [fd : Entry \cup {Wild}, mask : SUBSET Event]
  BY DEF Actives
<1> HIDE DEF New
<1>4. Stored(place, R, W) \in Actives
  BY <1>1, <1>2, <1>3 DEF Actives
<1>5. \A j \in Entry : j # Wild
  BY SizeAssumption DEF Entry, Wild
<1>6. ASSUME NEW j \in Entry, NEW x \in R \cup W, place[x] = j
      PROVE  Stored(place, R, W)[j].fd # Wild
  BY <1>1, <1>2, <1>5, <1>6
<1> QED BY <1>4, <1>6

LEMMA CountUpTo ==
  ASSUME NEW m \in Nat, NEW S
  PROVE  /\ S \subseteq 0..m => Cardinality(S) \in Nat /\ Cardinality(S) <= m + 1
         /\ S \subseteq 1..m => Cardinality(S) \in Nat /\ Cardinality(S) <= m
         /\ S \subseteq 0..m => (Cardinality(S) = 0 <=> S = {})
<1>1. IsFiniteSet(0..m) /\ Cardinality(0..m) = m + 1
  BY FS_Interval
<1>2. IsFiniteSet(1..m) /\ Cardinality(1..m) = m
  BY FS_Interval
<1>3. ASSUME S \subseteq 0..m PROVE IsFiniteSet(S) /\ Cardinality(S) <= m + 1
  BY <1>1, <1>3, FS_Subset
<1>4. ASSUME S \subseteq 1..m PROVE IsFiniteSet(S) /\ Cardinality(S) <= m
  BY <1>2, <1>4, FS_Subset
<1>5. IsFiniteSet(S) => Cardinality(S) \in Nat /\ (Cardinality(S) = 0 <=> S = {})
  BY FS_CardinalityType, FS_EmptySet
<1> QED BY <1>3, <1>4, <1>5

\* A descriptor may count twice, but the listening one is never watched for writing.
LEMMA SelectStep ==
  ASSUME IInv, status = "ok", Select
  PROVE  IInv'
<1>0. ev \in Evs /\ ev.maxfd \in Nat /\ ev.r \in SUBSET Entry /\ ev.w \in SUBSET Entry
  BY EvFields DEF IInv, Sound
<1>1. PICK W \in SUBSET Asked(ev.w) :
        LET R == Asked(ev.r) \cap Readable
        IN /\ R \cup W # {}
           /\ active' = Collected(R, W)
           /\ n' = Cardinality(R) + Cardinality(W)
  BY DEF Select
<1> DEFINE R == Asked(ev.r) \cap Readable
<1>2. R \in SUBSET Entry /\ W \in SUBSET Entry
  BY <1>0 DEF Asked
<1>3. active' \in Actives
  BY <1>1, <1>2, StoredEntries DEF Collected, IInv, Round
<1>4. Listen \notin ev.w
  BY ListenIsBoth DEF IInv, Sound, Entered, Agree, DeafTo
<1>5. R \subseteq 0..ev.maxfd /\ W \subseteq 1..ev.maxfd
  <2>1. \A fd \in Entry : fd \in Nat /\ (fd # Listen => fd >= 1)
    BY SizeAssumption DEF Entry, Listen
  <2> QED BY <1>0, <1>2, <1>4, <2>1 DEF Asked
<1> HIDE DEF R
<1>6. W \subseteq 0..ev.maxfd
  BY <1>0, <1>5
<1>7. /\ Cardinality(R) \in Nat /\ Cardinality(R) <= ev.maxfd + 1 /\ (Cardinality(R) = 0 <=> R = {})
      /\ Cardinality(W) \in Nat /\ Cardinality(W) <= ev.maxfd /\ (Cardinality(W) = 0 <=> W = {})
  BY <1>0, <1>5, <1>6, CountUpTo
<1>8. n' = Cardinality(R) + Cardinality(W) /\ R \cup W # {}
  BY <1>1 DEF R
<1>9. n' \in Int /\ n' > 0 /\ n' <= 2 * ev.maxfd + 1
  BY <1>0, <1>7, <1>8
<1>10. ev.api = "select" /\ i' = 0 /\ pc' = "read"
       /\ UNCHANGED <<ev, file, waiting, made, input, status>>
  BY DEF Select
<1>11. Round'
  BY <1>3, <1>9, <1>10 DEF Round
<1> QED BY <1>10, <1>11 DEF IInv, Counted

LEMMA InterruptedStep ==
  ASSUME IInv, status = "ok", SelectInterrupted
  PROVE  IInv'
<1>1. ev.r \in SUBSET Entry /\ ev.w \in SUBSET Entry /\ ev.maxfd \in Nat
  BY EvFields DEF IInv, Sound
<1>2. Asked(ev.r) \in SUBSET Entry /\ Asked(ev.w) \in SUBSET Entry
  BY <1>1 DEF Asked
<1>3. active' \in Actives
  BY <1>2, StoredEntries DEF SelectInterrupted, Collected, IInv, Round
<1>4. n' = -1 /\ UNCHANGED <<ev, i, pc, file, waiting, made, input, status>> /\ pc = "select"
  BY DEF SelectInterrupted
<1>5. Round'
  BY <1>1, <1>3, <1>4 DEF Round, IInv
<1> QED BY <1>4, <1>5 DEF IInv, Counted

\* epoll_wait fills exactly the entries that the round visits.
LEMMA EpollStep ==
  ASSUME IInv, status = "ok", EpollWait
  PROVE  IInv'
<1>0. ev.r \in SUBSET Entry /\ ev.w \in SUBSET Entry /\ ev.maxfd \in Nat
  BY EvFields DEF IInv, Sound
<1>1. PICK W \in SUBSET ev.w :
        LET R == ev.r \cap Readable
            k == Cardinality(R \cup W)
        IN /\ k # 0
           /\ \E place \in Bijection(R \cup W, 0..k - 1) : active' = Stored(place, R, W)
           /\ n' = k
  BY DEF EpollWait
<1> DEFINE R == ev.r \cap Readable
           k == Cardinality(R \cup W)
<1>2. PICK place \in Bijection(R \cup W, 0..k - 1) : active' = Stored(place, R, W)
  BY <1>1
<1>3. R \in SUBSET Entry /\ W \in SUBSET Entry
  BY <1>0
<1>4. R \cup W \subseteq 0..ev.maxfd
  BY DEF IInv, Sound
<1>5. R \cup W \subseteq 0..Size - 1
  BY <1>3 DEF Entry
<1> HIDE DEF R
<1>6. k \in Nat /\ k <= ev.maxfd + 1
  BY <1>0, <1>4, CountUpTo
<1>7. k <= Size
  <2>1. Size - 1 \in Nat
    BY SizeAssumption
  <2>2. k <= (Size - 1) + 1
    BY <1>5, <2>1, CountUpTo
  <2> QED BY <2>2, <1>6, SizeAssumption
<1>8. k # 0 /\ n' = k
  BY <1>1 DEF R
<1>9. active' \in Actives
  BY <1>2, <1>3, StoredEntries DEF IInv, Round
<1>10. \A j \in 0..k - 1 : active'[j].fd # Wild
  <2> SUFFICES ASSUME NEW j \in 0..k - 1 PROVE active'[j].fd # Wild
    OBVIOUS
  <2>1. j \in Entry
    BY <1>6, <1>7, SizeAssumption DEF Entry
  <2>2. \E x \in R \cup W : place[x] = j
    BY <1>2 DEF Bijection, Surjection
  <2>3. active \in Actives
    BY DEF IInv, Round
  <2> QED BY <1>2, <1>3, <2>1, <2>2, <2>3, StoredEntries
<1> HIDE DEF k
<1>11. i' = 0 /\ pc' = "read" /\ UNCHANGED <<ev, file, waiting, made, input, status>>
  BY DEF EpollWait
<1>12. Round'
  BY <1>0, <1>6, <1>7, <1>8, <1>9, <1>10, <1>11 DEF Round
<1> QED BY <1>11, <1>12 DEF IInv, Counted

-----------------------------------------------------------------------------
(* The visits *)

\* A registered descriptor other than the listening one is open, with its own client.
LEMMA DueIsOpen ==
  ASSUME Sound(ev, file), NEW fd \in Entry, fd # Listen, ev.mask[fd] # {}
  PROVE  fd \in Fd /\ file[fd] # None /\ ev.data[fd] = file[fd]
BY DEF Sound, Entered

LEMMA ReadClientSound ==
  ASSUME Sound(ev, file), NEW fd \in Entry, fd # Listen, fd \in Fd, file[fd] # None,
         ReadClient(fd, file[fd])
  PROVE  Sound(ev', file') /\ Grown(ev, ev') /\ UNCHANGED <<waiting, made, status>>
<1>0. UNCHANGED <<waiting, made, status>> /\ ev.maxfd \in Nat
  BY EvFields DEF ReadClient, Sound
<1>1. CASE UNCHANGED <<ev, file>>
  BY <1>0, <1>1 DEF Grown
<1>2. CASE ev' = Add(ev, fd, {"w"}, file[fd]) /\ UNCHANGED file
  BY <1>0, <1>2, AnswerSound DEF Grown
<1>3. CASE ev' = Closed(Del(ev, fd, Event), fd) /\ file' = [file EXCEPT ![fd] = None]
  BY <1>0, <1>3, ClosedSound DEF Grown
<1> QED BY <1>1, <1>2, <1>3 DEF ReadClient

LEMMA WriteClientSound ==
  ASSUME Sound(ev, file), NEW fd \in Entry, fd # Listen, fd \in Fd, file[fd] # None,
         WriteClient(fd)
  PROVE  Sound(ev', file') /\ Grown(ev, ev') /\ UNCHANGED <<waiting, made, status>>
<1>0. UNCHANGED <<file, waiting, made, status>> /\ ev.maxfd \in Nat
  BY EvFields DEF WriteClient, Sound
<1>1. CASE UNCHANGED ev
  BY <1>0, <1>1 DEF Grown
<1>2. CASE ev' = Del(ev, fd, {"w"})
  BY <1>0, <1>2, WrittenSound DEF Grown
<1> QED BY <1>1, <1>2 DEF WriteClient

\* With epoll the loop stays inside; else the entry it falls over is left as it is.
LEMMA ReadStep ==
  ASSUME IInv, status = "ok", VisitRead
  PROVE  IInv'
<1>0. /\ pc = "read" /\ pc' = "write" /\ UNCHANGED <<active, n, i>>
      /\ ev.maxfd \in Nat /\ ev.api \in Api
  BY EvFields DEF VisitRead, IInv, Sound
<1>1. CASE Beyond
  <2>1. status' = "fault" /\ UNCHANGED <<ev, file, waiting, made>>
    BY <1>1 DEF VisitRead
  <2>2. ev.api = "select"
    <3>1. SUFFICES ASSUME ev.api = "epoll" PROVE FALSE
      BY <1>0 DEF Api
    <3>2. n <= Size /\ i < n /\ n \in Int /\ i \in Nat /\ \A j \in 0..n - 1 : active[j].fd # Wild
      BY <1>0, <3>1 DEF IInv, Round
    <3>3. i \in 0..n - 1 /\ ~(i >= Size)
      BY <3>2, SizeAssumption
    <3> QED BY <1>1, <3>2, <3>3 DEF Beyond
  <2>3. Beyond'
    BY <1>0, <1>1 DEF Beyond
  <2>4. Round'
    BY <1>0, <2>1, <2>2, <2>3 DEF IInv, Round
  <2> QED BY <2>1, <2>4 DEF IInv, Counted
<1>2. CASE ~Beyond
  <2> DEFINE fd == active[i].fd
  <2>1. i \in Entry /\ fd \in Entry
    <3>1. i \in Entry
      BY <1>2, SizeAssumption DEF Beyond, IInv, Round, Entry
    <3> QED BY <1>2, <3>1 DEF Beyond, IInv, Round, Actives
  <2>2. \/ Idle
        \/ Due("r") /\ fd = Listen /\ Accept
        \/ Due("r") /\ fd # Listen /\ (file[fd] = None \/ ev.data[fd] # file[fd])
        \/ Due("r") /\ fd # Listen /\ file[fd] # None /\ ev.data[fd] = file[fd]
                                   /\ ReadClient(fd, ev.data[fd])
    BY <1>2 DEF VisitRead
  <2>3. Due("r") => ev.mask[fd] # {}
    BY DEF Due
  <2> HIDE DEF fd
  <2>4. Sound(ev', file') /\ Grown(ev, ev') /\ Counted' /\ status' = "ok"
    <3>1. CASE Idle
      BY <1>0, <3>1 DEF IInv, Idle, Grown, Counted
    <3>2. CASE Due("r") /\ fd = Listen /\ Accept
      BY <3>2, AcceptSound DEF IInv
    <3>3. CASE Due("r") /\ fd # Listen /\ (file[fd] = None \/ ev.data[fd] # file[fd])
      BY <2>1, <2>3, <3>3, DueIsOpen DEF IInv
    <3>4. CASE Due("r") /\ fd # Listen /\ file[fd] # None /\ ev.data[fd] = file[fd]
                        /\ ReadClient(fd, ev.data[fd])
      <4>1. fd \in Fd
        BY <2>1, <2>3, <3>4, DueIsOpen DEF IInv
      <4>2. Sound(ev', file') /\ Grown(ev, ev') /\ UNCHANGED <<waiting, made, status>>
        BY <2>1, <3>4, <4>1, ReadClientSound DEF IInv
      <4> QED BY <4>2 DEF IInv, Counted
    <3> QED BY <2>2, <3>1, <3>2, <3>3, <3>4
  <2>5. ~Beyond'
    BY <1>0, <1>2 DEF Beyond
  <2>6. ev'.maxfd \in Nat
    BY <2>4, EvFields DEF Sound
  <2>7. Round'
    BY <1>0, <2>4, <2>5, <2>6 DEF IInv, Round, Grown
  <2> QED BY <2>4, <2>7 DEF IInv
<1> QED BY <1>1, <1>2

LEMMA WriteStep ==
  ASSUME IInv, status = "ok", VisitWrite
  PROVE  IInv'
<1> DEFINE fd == active[i].fd
<1>0. /\ pc = "write" /\ pc' = (IF Visited THEN "select" ELSE "read") /\ i' = i + 1
      /\ UNCHANGED <<active, n>> /\ ev.maxfd \in Nat
  BY EvFields DEF VisitWrite, IInv, Sound
<1>1. ~Beyond
  BY <1>0 DEF IInv, Round
<1>2. i \in Entry /\ fd \in Entry
  <2>1. i \in Entry
    BY <1>1, SizeAssumption DEF Beyond, IInv, Round, Entry
  <2> QED BY <1>1, <2>1 DEF Beyond, IInv, Round, Actives
<1>3. \/ Idle
      \/ Due("w") /\ (file[fd] = None \/ ev.data[fd] # file[fd])
      \/ Due("w") /\ file[fd] # None /\ ev.data[fd] = file[fd] /\ WriteClient(fd)
  BY DEF VisitWrite
<1>4. Due("w") => ev.mask[fd] # {} /\ fd # Listen
  BY <1>2 DEF Due, IInv, Sound
<1> HIDE DEF fd
<1>5. Sound(ev', file') /\ Grown(ev, ev') /\ Counted' /\ status' = "ok"
  <2>1. CASE Idle
    BY <1>0, <2>1 DEF IInv, Idle, Grown, Counted
  <2>2. CASE Due("w") /\ (file[fd] = None \/ ev.data[fd] # file[fd])
    BY <1>2, <1>4, <2>2, DueIsOpen DEF IInv
  <2>3. CASE Due("w") /\ file[fd] # None /\ ev.data[fd] = file[fd] /\ WriteClient(fd)
    <3>1. fd \in Fd
      BY <1>2, <1>4, <2>3, DueIsOpen DEF IInv
    <3>2. Sound(ev', file') /\ Grown(ev, ev') /\ UNCHANGED <<waiting, made, status>>
      BY <1>2, <1>4, <2>3, <3>1, WriteClientSound DEF IInv
    <3> QED BY <3>2 DEF IInv, Counted
  <2> QED BY <1>3, <2>1, <2>2, <2>3
<1>6. ev'.maxfd \in Nat
  BY <1>5, EvFields DEF Sound
<1>7. pc' # "select" => i' < n'
  BY <1>0 DEF Visited, IInv, Round
<1>8. pc' \in {"select", "read"} /\ i' \in Nat
  BY <1>0 DEF IInv, Round
<1>9. Round'
  BY <1>0, <1>5, <1>6, <1>7, <1>8 DEF IInv, Round, Grown
<1> QED BY <1>5, <1>9 DEF IInv

-----------------------------------------------------------------------------

LEMMA InitIsGood == Init => IInv
<1> SUFFICES ASSUME Init PROVE IInv
  OBVIOUS
<1>1. PICK api \in Apis : ev = Add(NewEv(api), Listen, {"r"}, None)
  BY DEF Init
<1> DEFINE e == NewEv(api)
<1>2. e \in Evs /\ e.api = api /\ e.mask = [f \in Entry |-> {}] /\ e.r = {} /\ e.w = {} /\ e.maxfd = 0
  <2>1. 0 \in Entry
    BY SizeAssumption DEF Entry
  <2> QED BY <2>1, ApisAssumption DEF NewEv, Evs, Api, None
<1> HIDE DEF e
<1>3. /\ ev \in Evs /\ ev.api = api
      /\ ev.mask = [e.mask EXCEPT ![Listen] = @ \cup {"r"}]
      /\ ev.maxfd >= 0
      /\ ev.r = AddedTo(e, e.r, Listen, "r", {"r"})
      /\ ev.w = AddedTo(e, e.w, Listen, "w", {"r"})
  <2>1. ev = Add(e, Listen, {"r"}, None)
    BY <1>1 DEF e
  <2>2. {"r"} \in SUBSET Event /\ None \in Conn \cup {None} /\ Listen \in Entry
    BY ListenIsBoth DEF Event
  <2>3. /\ ev \in Evs /\ ev.api = e.api
        /\ ev.mask = [e.mask EXCEPT ![Listen] = @ \cup {"r"}]
        /\ ev.maxfd >= e.maxfd
        /\ ev.r = AddedTo(e, e.r, Listen, "r", {"r"})
        /\ ev.w = AddedTo(e, e.w, Listen, "w", {"r"})
    <3>1. e \in Evs
      BY <1>2
    <3>2. /\ ev \in Evs /\ ev.api = e.api
          /\ ev.mask = [e.mask EXCEPT ![Listen] = @ \cup {"r"}]
          /\ ev.data = [e.data EXCEPT ![Listen] = None]
          /\ ev.maxfd >= e.maxfd /\ ev.maxfd >= Listen
          /\ ev.r = AddedTo(e, e.r, Listen, "r", {"r"})
          /\ ev.w = AddedTo(e, e.w, Listen, "w", {"r"})
      BY <2>1, <2>2, <3>1, AddFields DEF Event
    <3> QED BY <3>2
  <2> QED BY <1>2, <2>3
<1>4. ev.mask[Listen] = {"r"} /\ \A g \in Entry \ {Listen} : ev.mask[g] = {}
  BY <1>2, <1>3, ListenIsBoth
<1>5. ev.r = {Listen} /\ ev.w = {}
  <2>1. {"r"} \cup e.mask[Listen] = {"r"}
    BY <1>2, ListenIsBoth
  <2> QED BY <1>2, <1>3, <2>1 DEF AddedTo, With, Modified
<1>6. file \in Files /\ \A fd \in Fd : file[fd] = None
  BY DEF Init, Files
<1>7. \A fd \in Entry : Entered(ev, file, fd)
  BY <1>4, <1>5 DEF Entered, Agree
<1>8. ev.maxfd \in Nat
  BY <1>3, EvFields
<1>9. Listen \in 0..ev.maxfd
  BY <1>8 DEF Listen
<1>10. Sound(ev, file)
  BY <1>3, <1>4, <1>5, <1>6, <1>7, <1>9, ListenIsBoth DEF Sound
<1>11. active \in Actives
  BY InitFdsAssumption DEF Init, NewActive, Actives
<1>12. Round
  BY <1>8, <1>11 DEF Init, Round
<1> QED BY <1>10, <1>12, SizeAssumption DEF IInv, Init, Counted

\* The inductive invariant: registrations, kernel and descriptors agree, and a
\* round with epoll stays inside what was stored for it (kvs_ev.c:108-168, 211-233).
THEOREM Inductive == Spec => []IInv
<1>1. Init => IInv
  BY InitIsGood
<1>2. IInv /\ [Next]_vars => IInv'
  <2> SUFFICES ASSUME IInv, [Next]_vars PROVE IInv'
    OBVIOUS
  <2>1. CASE status = "ok" /\ Select
    BY <2>1, SelectStep
  <2>2. CASE status = "ok" /\ SelectInterrupted
    BY <2>2, InterruptedStep
  <2>3. CASE status = "ok" /\ EpollWait
    BY <2>3, EpollStep
  <2>4. CASE status = "ok" /\ VisitRead
    BY <2>4, ReadStep
  <2>5. CASE status = "ok" /\ VisitWrite
    BY <2>5, WriteStep
  <2>6. CASE Arrive
    <3>1. waiting' = waiting + 1 /\ waiting + made < MaxConns
          /\ UNCHANGED <<ev, active, n, i, pc, file, made, status>>
      BY <2>6 DEF Arrive
    <3>2. Counted'
      BY <3>1, SizeAssumption DEF IInv, Counted
    <3> QED BY <3>1, <3>2 DEF IInv, Round, Beyond
  <2>7. CASE \E k \in Conn : Speak(k) \/ Hangup(k)
    <3>1. UNCHANGED <<ev, active, n, i, pc, file, waiting, made, status>>
      BY <2>7 DEF Speak, Hangup
    <3> QED BY <3>1 DEF IInv, Round, Beyond, Counted
  <2>8. CASE UNCHANGED vars
    BY <2>8 DEF vars, IInv, Round, Beyond, Counted
  <2> QED BY <2>1, <2>2, <2>3, <2>4, <2>5, <2>6, <2>7, <2>8 DEF Next, Loop
<1> QED BY <1>1, <1>2, PTL DEF Spec

\* What the kernel watches is what the cache says, but for the descriptors that epoll has
\* made deaf, through every accept, registration and close
\* (kvs_ev_select.c:38-64, kvs_ev_epoll.c:55, 77-87).
THEOREM KernelAgrees == Spec => []CacheMatchesKernel
<1>1. IInv => CacheMatchesKernel
  BY DEF IInv, Sound, Entered, Agree, DeafTo, CacheMatchesKernel, Watches, Deaf
<1> QED BY <1>1, Inductive, PTL

\* A registered descriptor is open and has the client of its own connection, though
\* descriptors are used again (kvs_server.c:62, kvs_net.c:199-201).
THEOREM ClientsAreOwn == Spec => []OwnClient
<1>1. IInv => OwnClient
  BY DEF IInv, Sound, Entered, OwnClient
<1> QED BY <1>1, Inductive, PTL

\* No callback runs for a connection that is gone, although entries of active are left
\* over from older rounds (kvs_ev.c:218-228).
THEOREM NoneAstray == Spec => []NeverAstray
<1>1. IInv => NeverAstray
  BY DEF IInv, Round, NeverAstray
<1> QED BY <1>1, Inductive, PTL

\* An open connection is registered for reading, or its descriptor has no entry
\* (kvs_server.c:62).
THEOREM AllServed == Spec => []ServedUnlessTooHigh
<1>1. IInv => ServedUnlessTooHigh
  BY DEF IInv, Sound, ServedUnlessTooHigh
<1> QED BY <1>1, Inductive, PTL

\* Only a select that counts more events than there are entries, or one that counted a
\* descriptor twice, leads the loop to an entry that was never filled; never epoll
\* (kvs_ev.c:217, kvs_ev_select.c:91, kvs_ev_epoll.c:99).
THEOREM CrowdsAtFault == Spec => []FaultNeedsCrowd
<1>1. ASSUME IInv PROVE FaultNeedsCrowd
  <2>1. n <= 2 * ev.maxfd + 1
    BY <1>1 DEF IInv, Round
  <2>2. ASSUME status = "fault"
        PROVE  ev.api = "select" /\ (n > Size \/ (i < Size /\ active[i].fd = Wild))
    BY <1>1, <2>2, SizeAssumption DEF IInv, Round, Beyond
  <2> QED BY <2>1, <2>2 DEF FaultNeedsCrowd
<1> QED BY <1>1, Inductive, PTL
==============================================================================
