-------------------------------- MODULE KvsEv --------------------------------
(***************************************************************************)
(* The event loop: kvs_ev.c over the backend of kvs_ev_select.c, which the *)
(* server asks for, or that of kvs_ev_epoll.c, driving the callbacks of    *)
(* kvs_server.c (accept_fd) and kvs_net.c, which are reduced to what they  *)
(* do to descriptors.  What they do to data is in KvsServer.               *)
(*                                                                         *)
(* One round of the loop calls select or epoll_wait, copies the ready      *)
(* descriptors to the array active, and then visits the first n entries of *)
(* active, where n is the result of the call.  A visit has two steps, the  *)
(* callback for reading and the one for writing.  Clients act between any  *)
(* two steps.                                                              *)
(***************************************************************************)
EXTENDS Integers, FiniteSets, FiniteSetsExt, Functions

CONSTANTS Size,      \* entries of cache and active, 100 in kvs_server.c:69
          FdMax,     \* descriptors are 0..FdMax - 1; the kernel gives the lowest free
          MaxConns,  \* bound: the connections clients make
          InitFds,   \* what the fd of an active entry may be before it is filled
          Interrupts, \* whether select may fail with EINTR
          Apis       \* the backends asked for: "select", "epoll"

ASSUME ApisAssumption == Apis \subseteq {"select", "epoll"}
ASSUME SizeAssumption == /\ Size \in Nat \ {0} /\ FdMax \in Nat \ {0} /\ MaxConns \in Nat
                         /\ Interrupts \in BOOLEAN

Entry  == 0..Size - 1
Fd     == 0..FdMax - 1
Conn   == 1..MaxConns
Listen == 0          \* the listening descriptor
None   == 0          \* no connection
Wild   == -1         \* a descriptor read from memory nobody has written

ASSUME InitFdsAssumption == InitFds \subseteq Entry \cup {Wild}

Event  == {"r", "w"} \* KVS_EV_READ, KVS_EV_WRITE

VARIABLES
  ev,      \* kvs_ev_t: api_name, cache[fd].mask, cache[fd].user_data, maxfd, and what
           \* the backend watches, r and w
  active,  \* the array active
  n,       \* the result of select or epoll_wait
  i,       \* the entry being visited
  pc,      \* "select", "read" or "write": the next step of the loop
  file,    \* file[fd] is the connection open under fd, or None
  waiting, \* connections not yet accepted
  made,    \* how many connections were accepted
  input,   \* what a connection has for its reader: "none", "data", "eof"
  status   \* "ok"; "fault": memory beyond active or cache was read;
           \* "astray": a callback ran for a connection that is not open

vars == <<ev, active, n, i, pc, file, waiting, made, input, status>>

-----------------------------------------------------------------------------
(* kvs_ev_add and kvs_ev_del *)

\* kvs_ev_select_add and kvs_ev_select_del on one of the sets.
With(S, fd, what, mask)    == IF what \in mask THEN S \cup {fd} ELSE S
Without(S, fd, what, mask) == IF what \in mask THEN S \ {fd} ELSE S

\* epoll_ctl with EPOLL_CTL_MOD: the events are replaced by those given.
Modified(S, fd, what, events) == IF what \in events THEN S \cup {fd} ELSE S \ {fd}

\* ev_add of the backends: epoll is given what the cache knows and what is new.
BackendAdd(e, fd, mask) ==
  IF e.api = "select"
  THEN [e EXCEPT !.r = With(@, fd, "r", mask), !.w = With(@, fd, "w", mask)]
  ELSE LET events == mask \cup e.mask[fd]
       IN [e EXCEPT !.r = Modified(@, fd, "r", events), !.w = Modified(@, fd, "w", events)]

\* ev_del of the backends: when something remains, epoll is given the events that
\* are to go, not those that remain.
BackendDel(e, fd, mask) ==
  IF e.api = "select"
  THEN [e EXCEPT !.r = Without(@, fd, "r", mask), !.w = Without(@, fd, "w", mask)]
  ELSE LET events == IF e.mask[fd] \ mask = {} THEN {} ELSE mask
       IN [e EXCEPT !.r = Modified(@, fd, "r", events), !.w = Modified(@, fd, "w", events)]

\* Mutant of Add: the events of an entry are replaced, not added to.
AddReplaces(e, fd, mask, data) ==
  IF fd >= Size THEN e
  ELSE [BackendAdd(e, fd, mask) EXCEPT !.mask[fd] = mask, !.data[fd] = data,
                                       !.maxfd = Max({@, fd})]

\* kvs_ev_add: a descriptor that has no entry is refused.
Add(e, fd, mask, data) ==
  IF fd >= Size THEN e
  ELSE [BackendAdd(e, fd, mask) EXCEPT !.mask[fd] = @ \cup mask,
                                       !.data[fd] = data,
                                       !.maxfd = Max({@, fd})]

\* Mutant of Del: the set of the writers is not told.
DelReadersOnly(e, fd, mask) ==
  IF fd >= Size THEN e
  ELSE [BackendDel(e, fd, mask \ {"w"}) EXCEPT !.mask[fd] = @ \ mask]

\* kvs_ev_del.  The loop that would lower maxfd is
\* behind a condition that the first test of the function excludes.
Del(e, fd, mask) ==
  IF fd >= Size THEN e
  ELSE [BackendDel(e, fd, mask) EXCEPT !.mask[fd] = @ \ mask]

-----------------------------------------------------------------------------
(* The callbacks *)

FreeIn(files) == {fd \in Fd \ {Listen} : files[fd] = None}
Free == FreeIn(file)

\* One accept and what accept_fd does with its result: the descriptor is registered for
\* reading unless it is too high, and stays open all the same.
AcceptOne(s) ==
  IF s.waiting = 0 \/ FreeIn(s.file) = {} THEN s
  ELSE LET fd == Min(FreeIn(s.file))
           k  == s.made + 1
       IN [ev |-> Add(s.ev, fd, {"r"}, k), file |-> [s.file EXCEPT ![fd] = k],
           waiting |-> s.waiting - 1, made |-> k]

\* accept_fd tries three times; a failure changes nothing for the tries that are left.
Accept ==
  LET now   == [ev |-> ev, file |-> file, waiting |-> waiting, made |-> made]
      after == AcceptOne(AcceptOne(AcceptOne(now)))
  IN /\ ev' = after.ev /\ file' = after.file
     /\ waiting' = after.waiting /\ made' = after.made
     /\ UNCHANGED <<input, status>>

\* epoll forgets a descriptor that is closed, the sets of select do not.
Closed(e, fd) ==
  IF e.api = "select" THEN e ELSE [e EXCEPT !.r = @ \ {fd}, !.w = @ \ {fd}]

\* Mutant of ReadClient: the descriptor is closed while it is registered.
ClosesRegistered(fd, k) ==
  /\ IF input[k] = "eof" THEN file' = [file EXCEPT ![fd] = None] /\ ev' = Closed(ev, fd)
                          ELSE UNCHANGED <<file, ev>>
  /\ input' = [input EXCEPT ![k] = IF @ = "data" THEN "none" ELSE @]
  /\ UNCHANGED <<waiting, made, status>>

\* kvs_net_read for connection k: nothing there, a request that may leave an
\* answer, or the end of file.
ReadClient(fd, k) ==
  /\ \/ /\ input[k] = "none"
        /\ UNCHANGED <<ev, file, input>>
     \/ /\ input[k] = "data"
        /\ input' = [input EXCEPT ![k] = "none"]
        /\ ev' \in {ev, Add(ev, fd, {"w"}, k)}
        /\ UNCHANGED file
     \/ /\ input[k] = "eof"
        /\ ev' = Closed(Del(ev, fd, Event), fd)
        /\ file' = [file EXCEPT ![fd] = None]
        /\ UNCHANGED input
  /\ UNCHANGED <<waiting, made, status>>

\* kvs_net_write: the socket takes the whole answer, or not.
WriteClient(fd) ==
  /\ ev' \in {ev, Del(ev, fd, {"w"})}
  /\ UNCHANGED <<file, waiting, made, input, status>>

\* A callback with a connection that is not, or no longer, the one under fd.
Astray == /\ status' = "astray"
          /\ UNCHANGED <<ev, file, waiting, made, input>>

Idle == UNCHANGED <<ev, file, waiting, made, input, status>>

-----------------------------------------------------------------------------
(* The loop *)

\* The ready descriptors fill the first entries; an entry's mask only ever grows.
Stored(place, R, W) ==
  [j \in Entry |->
     LET f == {x \in R \cup W : place[x] = j}
     IN IF f = {} THEN active[j]
        ELSE [fd   |-> CHOOSE x \in f : TRUE,
              mask |-> active[j].mask \cup (IF f \subseteq R THEN {"r"} ELSE {})
                                      \cup (IF f \subseteq W THEN {"w"} ELSE {})]]

\* kvs_ev_select_cycle looks at the descriptors in ascending order.
Collected(R, W) == Stored([x \in R \cup W |-> Cardinality({y \in R \cup W : y < x})], R, W)

Readable == {fd \in Fd : IF fd = Listen THEN waiting > 0
                         ELSE file[fd] # None /\ input[file[fd]] # "none"}

\* Mutant of Asked: select is asked for the descriptors below maxfd.
AskedBelow(S) == {fd \in S : fd < ev.maxfd}

\* Only the descriptors up to maxfd are asked for and looked at.
Asked(S) == {fd \in S : fd <= ev.maxfd}

\* select counts a descriptor that is ready for both twice.  Sockets may or may
\* not have room for an answer.
Select ==
  /\ ev.api = "select" /\ pc = "select"
  /\ \E W \in SUBSET Asked(ev.w) :
       LET R == Asked(ev.r) \cap Readable
       IN /\ R \cup W # {}
          /\ active' = Collected(R, W)
          /\ n' = Cardinality(R) + Cardinality(W)
  /\ i' = 0 /\ pc' = "read"
  /\ UNCHANGED <<ev, file, waiting, made, input, status>>

\* An interrupted select leaves the sets as they were asked for; they are
\* collected, and nothing is visited.
SelectInterrupted ==
  /\ ev.api = "select" /\ Interrupts /\ pc = "select"
  /\ active' = Collected(Asked(ev.r), Asked(ev.w))
  /\ n' = -1
  /\ UNCHANGED <<ev, i, pc, file, waiting, made, input, status>>

\* epoll_wait: each ready descriptor once, in any order.
EpollWait ==
  /\ ev.api = "epoll" /\ pc = "select"
  /\ \E W \in SUBSET ev.w :
       LET R == ev.r \cap Readable
           k == Cardinality(R \cup W)
       IN /\ k # 0
          /\ \E place \in Bijection(R \cup W, 0..k - 1) : active' = Stored(place, R, W)
          /\ n' = k
  /\ i' = 0 /\ pc' = "read"
  /\ UNCHANGED <<ev, file, waiting, made, input, status>>

\* An entry that does not exist, or whose descriptor was never stored.
Beyond == i >= Size \/ active[i].fd = Wild

\* Mutant of Due: the events that select found are not compared with those registered now.
DueThen(what) == what \in active[i].mask

\* Whether a callback is due: the entry asks for it, and it is registered now.
Due(what) == what \in ev.mask[active[i].fd] \cap active[i].mask

\* Mutant of Visited: the entry behind the last is visited too.
VisitedLate == i = n

\* Mutant of Visited: the last entry is not visited.
VisitedEarly == i + 2 >= n

\* The entry being visited is the last of the round.
Visited == i + 1 = n

VisitRead ==
  /\ pc = "read"
  /\ IF Beyond
     THEN /\ status' = "fault"
          /\ UNCHANGED <<ev, file, waiting, made, input>>
     ELSE LET fd == active[i].fd
          IN IF ~Due("r") THEN Idle
             ELSE IF fd = Listen THEN Accept
             ELSE IF file[fd] = None \/ ev.data[fd] # file[fd] THEN Astray
             ELSE ReadClient(fd, ev.data[fd])
  /\ pc' = "write"
  /\ UNCHANGED <<active, n, i>>

VisitWrite ==
  /\ pc = "write"
  /\ LET fd == active[i].fd
     IN IF ~Due("w") THEN Idle
        ELSE IF file[fd] = None \/ ev.data[fd] # file[fd] THEN Astray
        ELSE WriteClient(fd)
  /\ i' = i + 1
  /\ pc' = IF Visited THEN "select" ELSE "read"
  /\ UNCHANGED <<active, n>>

-----------------------------------------------------------------------------
(* The clients *)

Arrive == /\ waiting + made < MaxConns
          /\ waiting' = waiting + 1
          /\ UNCHANGED <<ev, active, n, i, pc, file, made, input, status>>

Open(k) == \E fd \in Fd : file[fd] = k

Speak(k) == /\ Open(k) /\ input[k] = "none"
            /\ input' = [input EXCEPT ![k] = "data"]
            /\ UNCHANGED <<ev, active, n, i, pc, file, waiting, made, status>>

Hangup(k) == /\ Open(k) /\ input[k] # "eof"
             /\ input' = [input EXCEPT ![k] = "eof"]
             /\ UNCHANGED <<ev, active, n, i, pc, file, waiting, made, status>>

-----------------------------------------------------------------------------
\* What kvs_ev_api_new allocates.  It gives a value to the masks of active only;
\* the masks of cache and maxfd are taken to be zero.
NewEv(api) == [api |-> api, mask |-> [f \in Entry |-> {}], data |-> [f \in Entry |-> None],
               r |-> {}, w |-> {}, maxfd |-> 0]
NewActive == [Entry -> [fd : InitFds, mask : {{}}]]

\* kvs_server_init.
Init ==
  /\ \E api \in Apis : ev = Add(NewEv(api), Listen, {"r"}, None)
  /\ active \in NewActive
  /\ n = 0 /\ i = 0 /\ pc = "select"
  /\ file = [f \in Fd |-> None]
  /\ waiting = 0 /\ made = 0
  /\ input = [k \in Conn |-> "none"]
  /\ status = "ok"

Loop == Select \/ SelectInterrupted \/ EpollWait \/ VisitRead \/ VisitWrite

Next == /\ status = "ok"
        /\ Loop \/ Arrive \/ \E k \in Conn : Speak(k) \/ Hangup(k)

Spec == Init /\ [][Next]_vars

\* The process keeps running, and select is not interrupted for ever.
Fairness == /\ WF_vars(status = "ok" /\ (Select \/ EpollWait))
            /\ WF_vars(status = "ok" /\ (VisitRead \/ VisitWrite))

FairSpec == Spec /\ Fairness

-----------------------------------------------------------------------------
(* Properties *)

Watches(fd) == /\ fd \in ev.r <=> "r" \in ev.mask[fd]
               /\ fd \in ev.w <=> "w" \in ev.mask[fd]
Deaf(fd)    == fd # Listen /\ ev.mask[fd] = {"r"} /\ fd \in ev.w \ ev.r

\* What the kernel watches is what the cache says, though descriptors are closed and
\* used again.  With select it reaches no further than maxfd.  With epoll the call is
\* never refused, a descriptor being known to it exactly when the cache has events,
\* but a connection that has got an answer is deaf: watched for writing only, where
\* only reading is registered (kvs_ev_select.c:38-64, kvs_ev_epoll.c:55, 77-87).
CacheMatchesKernel ==
  /\ \A fd \in Entry : Watches(fd) \/ (ev.api = "epoll" /\ Deaf(fd))
  /\ ev.r \cup ev.w \subseteq 0..ev.maxfd

\* A registered descriptor is open, and its callbacks get the client_t of the
\* connection that has it now, though descriptors are used again
\* (kvs_server.c:62, kvs_net.c:199-201).
OwnClient ==
  \A fd \in Entry \ {Listen} :
    ev.mask[fd] # {} => file[fd] # None /\ ev.data[fd] = file[fd]

\* No callback runs for a connection that is gone, whatever an earlier callback
\* of the same round closed, accepted or registered, and whatever old entries
\* of active are visited (kvs_ev.c:218-228).
NeverAstray == status # "astray"

\* The loop reads an entry that does not exist only when select counts more
\* events than there are entries, which descriptors below half the size cannot
\* bring about; else it reads only an entry that was never filled.  epoll_wait
\* reports a descriptor once: then the loop stays inside (kvs_ev.c:217,
\* kvs_ev_select.c:73, 91, kvs_ev_epoll.c:99).
FaultNeedsCrowd ==
  /\ status = "fault" => ev.api = "select" /\ (n > Size \/ (i < Size /\ active[i].fd = Wild))
  /\ n <= 2 * ev.maxfd + 1

\* An open connection that the loop does not serve has a descriptor beyond the
\* array (kvs_server.c:62 ignores what kvs_ev_add returns).
ServedUnlessTooHigh ==
  \A fd \in Fd : file[fd] # None => fd >= Size \/ "r" \in ev.mask[fd]

Served(k) == \E fd \in Fd : fd < Size /\ file[fd] = k

\* What a connection served by select has for its reader is read: data is taken,
\* and at the end of file the descriptor is freed.  With epoll data is read, unless an
\* answer that was written first has made the connection deaf (kvs_ev.c:211,
\* kvs_net.c:198, kvs_ev_epoll.c:81, 99-110).
InputIsHandled ==
  \A k \in Conn :
    LET watched == \E fd \in ev.r : file[fd] = k
    IN /\ ev.api = "select" /\ Served(k) /\ input[k] = "data" ~> input[k] # "data"
       /\ ev.api = "select" /\ Served(k) /\ input[k] = "eof" ~> ~Open(k)
       /\ watched /\ input[k] = "data" ~> ~watched \/ input[k] # "data"

\* A connection that waits is accepted, unless all descriptors are in use
\* (kvs_server.c:44).
WaitingIsAccepted == waiting > 0 ~> waiting = 0 \/ Free = {}
==============================================================================
