------------------------------ MODULE KvsEvSize ------------------------------
(***************************************************************************)
(* The arrays of the event loop: how kvs_ev.c makes them, kvs_ev_resize    *)
(* makes them larger and smaller, and what kvs_ev_add, kvs_ev_del and the  *)
(* rounds of the loop use of them.  What the callbacks do to connections   *)
(* is in KvsEv, where the size is fixed as it is in the server, which      *)
(* never calls kvs_ev_resize.  Here a callback may make any calls.         *)
(*                                                                         *)
(* `size` is what the loop believes all arrays have; `room` is what they   *)
(* have.  Any malloc or realloc may fail, also one that makes a block      *)
(* smaller.                                                                *)
(***************************************************************************)
EXTENDS Integers, FiniteSets, Functions

CONSTANTS Sizes,     \* the sizes callers ask for
          Fds,       \* the descriptors callers have
          SetBytes,  \* sizeof(fd_set), 128; an fd_set has eight bits per byte
          EventBytes \* sizeof(struct epoll_event), 12

ASSUME EvSizeAssumption == /\ Sizes \subseteq Nat /\ Fds \subseteq Nat
                           /\ SetBytes \in Nat /\ EventBytes \in Nat \ {0}

Array == {"cache", "active", "events"}
Event == {"r", "w"} \* KVS_EV_READ, KVS_EV_WRITE

VARIABLES
  backend,    \* "select" or "epoll"
  pc,         \* "none": kvs_ev_api_new not called; "idle": kvs_ev_cycle not called;
              \* "visit": behind a callback, or before one for reading; "second": before
              \* one for writing; "reading", "writing": in a callback; "freed"
  backed,     \* e->ev is not NULL
  size, maxfd,
  mask,       \* the events registered for a descriptor
  room,       \* the entries each array has; select has no array of its own
  filled,     \* the descriptors of the entries of active that ever got one
  raw,        \* the entries of cache and active whose mask nobody has set
  n, i,       \* the result of select or epoll_wait, and the entry being visited
  twice,      \* history: n counts a descriptor twice
  moved,      \* the block behind kvs_ev_cycle's pointer `cache` was given to realloc
  resized, torn, grown, \* history: kvs_ev_resize got as far as the backend, failed
                        \* behind a cache made smaller, made the arrays larger
  status      \* "ok"; "overrun": memory that is not there was used; "wild": a
              \* descriptor nobody has stored; "stray": a mask nobody has set;
              \* "stale": the block `cache` pointed into

loop == <<n, i, twice, moved>>
history == <<resized, torn, grown>>
vars == <<backend, pc, backed, size, maxfd, mask, room, filled, raw, loop, history, status>>

Init == /\ backend \in {"select", "epoll"} /\ pc = "none" /\ backed = FALSE
        /\ size = 0 /\ maxfd = 0 /\ mask = [fd \in Fds |-> {}]
        /\ room = [a \in Array |-> 0] /\ filled = <<>> /\ raw = [cache |-> {}, active |-> {}]
        /\ n = 0 /\ i = 0 /\ twice = FALSE /\ moved = FALSE
        /\ resized = FALSE /\ torn = FALSE /\ grown = FALSE /\ status = "ok"

\* kvs_ev_api_new and kvs_ev_api_select.  A backend that could not be made is not
\* noticed: ev is tested for it, not ev->ev.  The masks of active are cleared; those
\* of cache and maxfd are taken to be zero, as in KvsEv.
New(k, backs) ==
  /\ pc = "none" /\ k > 0
  /\ pc' = "idle" /\ backed' = backs
  /\ size' = k
  /\ room' = [a \in Array |-> IF a = "events" /\ ~backs THEN 0 ELSE k]
  /\ UNCHANGED <<backend, maxfd, mask, filled, raw, loop, history, status>>

\* The backend's free: that of epoll looks into e->ev.
BackendFrees(backs) == IF backs \/ backend = "select" THEN status ELSE "overrun"

\* There is no memory for cache or active.
NewFails(k, backs) ==
  /\ pc = "none" /\ k > 0
  /\ pc' = "freed" /\ backed' = backs
  /\ status' = BackendFrees(backs)
  /\ UNCHANGED <<backend, size, maxfd, mask, room, filled, raw, loop, history>>

\* Before the loop and in a callback any call may be made; kvs_ev_cycle never returns.
Calling == pc \in {"idle", "reading", "writing"}

\* What kvs_ev_add and kvs_ev_del use of a descriptor: e->ev, the bit of an fd_set,
\* which select's backend does not look for the end of, and the mask in cache.
Used(fd) ==
  IF ~backed \/ fd >= room["cache"] \/ (backend = "select" /\ fd >= 8 * SetBytes) THEN "overrun"
  ELSE IF fd \in raw.cache THEN "stray" ELSE status

\* kvs_ev_add.  A call that epoll_ctl refuses changes nothing.
Add(fd, events) ==
  /\ Calling /\ fd < size
  /\ status' = Used(fd)
  /\ mask' = [mask EXCEPT ![fd] = @ \cup events]
  /\ maxfd' = IF fd > maxfd THEN fd ELSE maxfd
  /\ UNCHANGED <<backend, pc, backed, size, room, filled, raw, loop, history>>

\* kvs_ev_del; maxfd stays.
Del(fd, events) ==
  /\ Calling /\ fd < size
  /\ status' = Used(fd)
  /\ mask' = [mask EXCEPT ![fd] = @ \ events]
  /\ UNCHANGED <<backend, pc, backed, size, maxfd, room, filled, raw, loop, history>>

-----------------------------------------------------------------------------
(* kvs_ev_resize *)

\* Mutant of Refused: off by one.
RefusedLate(k) == maxfd > k

\* The largest descriptor ever added must stay inside.
Refused(k) == maxfd >= k

\* kvs_ev_epoll_resize gives realloc the number of events for a number of bytes;
\* kvs_ev_select_resize compares the number of descriptors with one.
EventsFor(k) == IF backend = "epoll" THEN k \div EventBytes ELSE room["events"]
BackendRefuses(k) == backend = "select" /\ k > SetBytes

\* The entries a resize to k adds to an array.
Behind(a, k) == room[a]..k - 1

\* The masks of the entries behind `size` are cleared in cache, at the end, and in
\* active they get no value.
RawAfter(k, got) ==
  [cache  |-> {j \in raw.cache \cup Behind("cache", k) : j < k /\ (got = Array => j < size)},
   active |-> IF got = Array THEN {j \in raw.active : j < k} \cup Behind("active", k)
              ELSE raw.active]

\* `got` says which of the arrays were changed: realloc failed for the next.
Resize(k, got) ==
  /\ Calling /\ k # size /\ ~Refused(k) /\ ~BackendRefuses(k)
  /\ got \in {{}, {"events"}, {"events", "cache"}, Array}
  /\ backend = "select" => "events" \in got
  /\ status' = IF backed \/ backend = "select" THEN status ELSE "overrun"
  /\ room' = [a \in Array |-> IF a \notin got THEN room[a]
                              ELSE IF a = "events" THEN EventsFor(k) ELSE k]
  /\ raw' = IF "cache" \in got THEN RawAfter(k, got) ELSE raw
  /\ filled' = IF got = Array THEN Restrict(filled, {j \in DOMAIN filled : j < k}) ELSE filled
  /\ size' = IF got = Array THEN k ELSE size
  /\ moved' = (moved \/ (pc = "reading" /\ "cache" \in got))
  /\ resized' = (resized \/ "events" \in got)
  /\ torn' = (torn \/ ("cache" \in got /\ got # Array /\ k < size))
  /\ grown' = (grown \/ (got = Array /\ k > size))
  /\ UNCHANGED <<backend, pc, backed, maxfd, mask, n, i, twice>>

-----------------------------------------------------------------------------
(* kvs_ev_cycle *)

Readers == {fd \in Fds : "r" \in mask[fd]}
Writers == {fd \in Fds : "w" \in mask[fd]}

\* The ways to give entries to the descriptors of S, from the first entry on, and
\* the one of select, which looks at the descriptors in ascending order.
Placings(S)  == Bijection(0..Cardinality(S) - 1, S)
Ascending(S) == {p \in Placings(S) : \A a, b \in DOMAIN p : a < b => p[a] < p[b]}

\* The loop asks the backend, at its start and behind the last entry; the masks of
\* active are added to.
Round(place, result) ==
  /\ pc = "idle" \/ (pc \in {"visit", "writing"} /\ i >= n)
  /\ LET used == DOMAIN place
     IN /\ status' = IF ~backed \/ (\E j \in used : \/ j >= room["active"]
                                                    \/ backend = "epoll" /\ j >= room["events"])
                     THEN "overrun" ELSE IF used \cap raw.active # {} THEN "stray" ELSE status
        /\ filled' = [j \in DOMAIN filled \cup used |-> IF j \in used THEN place[j] ELSE filled[j]]
  /\ n' = result /\ i' = 0 /\ pc' = "visit"
  /\ UNCHANGED <<backend, backed, size, maxfd, mask, room, raw, moved, history>>

\* select counts a descriptor that is ready for reading and for writing twice.
Select(R, W) ==
  /\ backend = "select"
  /\ \E place \in Ascending(R \cup W) : Round(place, Cardinality(R) + Cardinality(W))
  /\ twice' = (R \cap W # {})

\* An interrupted select leaves the sets as they were asked for, and they are collected.
SelectInterrupted ==
  /\ backend = "select"
  /\ \E place \in Ascending(Readers \cup Writers) : Round(place, -1)
  /\ twice' = FALSE

\* epoll_wait reports a descriptor once, in any order; it is given `size` for the
\* number of events there is room for.  It may fail: then nothing is stored.
EpollWait(S) ==
  /\ backend = "epoll"
  /\ \/ \E place \in Placings(S) : Round(place, Cardinality(S))
     \/ S = {} /\ Round(<<>>, -1)
  /\ twice' = FALSE

\* Mutant of Remaining: the entry behind the last is visited too.
RemainingLate == i <= n

\* There is an entry to be visited.
Remaining == i < n

\* The loop looks at entry i and, through it, at cache.  The callback for reading
\* runs when the event is registered and the entry asks for it.
Visit ==
  /\ pc \in {"visit", "writing"} /\ Remaining
  /\ status' = IF i >= room["active"] THEN "overrun"
               ELSE IF i \notin DOMAIN filled THEN "wild"
               ELSE IF filled[i] >= room["cache"] THEN "overrun"
               ELSE IF i \in raw.active \/ filled[i] \in raw.cache THEN "stray" ELSE status
  /\ pc' \in {"second"} \cup {x \in {"reading"} : i \in DOMAIN filled /\ filled[i] \in Readers}
  /\ moved' = FALSE
  /\ UNCHANGED <<backend, backed, size, maxfd, mask, room, filled, raw, n, i, twice, history>>

\* Behind the callback for reading, the loop looks at cache through the pointer it had.
VisitSecond ==
  /\ pc \in {"reading", "second"}
  /\ status' = IF moved THEN "stale" ELSE status
  /\ pc' \in {"visit"} \cup {x \in {"writing"} : ~moved /\ filled[i] \in Writers}
  /\ i' = i + 1
  /\ UNCHANGED <<backend, backed, size, maxfd, mask, room, filled, raw, n, twice, moved, history>>

\* kvs_ev_free.
Free == /\ pc = "idle" /\ pc' = "freed"
        /\ status' = BackendFrees(backed)
        /\ room' = [a \in Array |-> 0] /\ mask' = [fd \in Fds |-> {}]
        /\ raw' = [cache |-> {}, active |-> {}]
        /\ UNCHANGED <<backend, backed, size, maxfd, filled, loop, history>>

Next == /\ status = "ok"
        /\ \/ \E k \in Sizes, backs \in BOOLEAN : New(k, backs) \/ NewFails(k, backs)
           \/ \E fd \in Fds, events \in SUBSET Event \ {{}} : Add(fd, events) \/ Del(fd, events)
           \/ \E k \in Sizes, got \in SUBSET Array : Resize(k, got)
           \/ \E R \in SUBSET Readers, W \in SUBSET Writers : Select(R, W)
           \/ SelectInterrupted
           \/ \E S \in SUBSET (Readers \cup Writers) : EpollWait(S)
           \/ Visit \/ VisitSecond \/ Free

Spec == Init /\ [][Next]_vars

-----------------------------------------------------------------------------
(* Properties *)

TypeOK ==
  /\ backend \in {"select", "epoll"} /\ backed \in BOOLEAN
  /\ pc \in {"none", "idle", "visit", "reading", "second", "writing", "freed"}
  /\ size \in Nat /\ maxfd \in Nat /\ mask \in [Fds -> SUBSET Event]
  /\ room \in [Array -> Nat] /\ raw \in [cache : SUBSET Nat, active : SUBSET Nat]
  /\ filled \in [DOMAIN filled -> Fds] /\ DOMAIN filled \subseteq Nat
  /\ n \in Int /\ n >= -1 /\ i \in Nat /\ twice \in BOOLEAN /\ moved \in BOOLEAN
  /\ resized \in BOOLEAN /\ torn \in BOOLEAN /\ grown \in BOOLEAN
  /\ status \in {"ok", "overrun", "wild", "stray", "stale"}

Made == pc \notin {"none", "freed"}

\* No resize cuts off the entry of a registered descriptor, not even one that
\* fails when the cache is smaller already (kvs_ev.c:178, 186-195).
RegisteredKeepEntries ==
  status = "ok" /\ Made => \A fd \in Readers \cup Writers : fd < size /\ fd < room["cache"]

\* The entries the loop has yet to visit are there, each with a descriptor that has
\* a place in cache, whatever a callback of the same round adds, deletes or resizes,
\* unless select counted a descriptor twice (kvs_ev.c:217, 178, kvs_ev_select.c:91).
VisitsStayInside ==
  status = "ok" /\ Made /\ ~twice =>
    \A j \in i..n - 1 : j < room["active"] /\ j \in DOMAIN filled /\ filled[j] < room["cache"]

\* The loop uses memory that is not there only when its backend was never made, when
\* a resize that makes the arrays smaller failed between cache and active, with epoll
\* behind a resize, which makes the events too few, and with select when it counts some
\* descriptor twice and more events than there are entries, or when the loop was
\* made for more descriptors than an fd_set has (kvs_ev.c:77, 186-195, 217,
\* kvs_ev_epoll.c:38, 99, kvs_ev_select.c:20, 42, 91).  A descriptor nobody has
\* stored is used only when select counts one twice; a mask nobody has set, only behind a
\* resize that made the arrays larger or failed half way (kvs_ev.c:24, 198); and a
\* pointer into the old cache only behind a resize (kvs_ev.c:218, 226).
FaultsAreEarned ==
  /\ status = "overrun" =>
       \/ ~backed \/ torn
       \/ backend = "epoll" /\ resized
       \/ backend = "select" /\ ((twice /\ n > size) \/ size > 8 * SetBytes)
  /\ status = "wild"  => backend = "select" /\ twice
  /\ status = "stray" => grown \/ torn
  /\ status = "stale" => resized
==============================================================================
