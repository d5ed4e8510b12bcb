------------------------------ MODULE KvsServer ------------------------------
(***************************************************************************)
(* The server and its clients: the callbacks of kvs_net.c that the event   *)
(* loop calls, the parser, the commands, and the byte streams between a    *)
(* client and its connection.                                              *)
(*                                                                         *)
(* The server is one thread, so a callback is one action; which callback   *)
(* runs next is left open here and is the subject of KvsEv.  Pieces that a *)
(* client wrote stay in up until a callback reads them, whether they are   *)
(* still in the network or already in the socket.                          *)
(***************************************************************************)
EXTENDS KvsProtocol, KvsCommand, SequencesExt

CONSTANTS Client,        \* the clients, each of which connects once
          Word,          \* all words: commands, keys, values
          Nets,          \* what clients and the network may be like, see Net
          MaxRequests,   \* how many requests a client sends
          MaxBack        \* the answers a client leaves unread before the
                         \* server's socket takes no more

\* clients: those that connect.  requests: what they send, sequences of words.
\* depth: how many of a client's requests may be without an answer.  parts: the
\* clients whose requests may arrive in parts.  partial: whether a socket may
\* take a part of an answer.
Net == [clients : SUBSET Client, requests : SUBSET Seq(Word), depth : Nat,
        parts : SUBSET Client, partial : BOOLEAN]
Request == UNION {x.requests : x \in Nets}

ASSUME NetAssumption     == \A x \in Nets : /\ x.clients \cup x.parts \subseteq Client
                                           /\ x.depth \in Nat /\ x.partial \in BOOLEAN
ASSUME RequestAssumption == \A r \in Request : r \in Seq(Word) /\ r # <<>>
ASSUME WordAssumption    == Leftover \subseteq Word /\ Uninit \notin Word
ASSUME BoundAssumption   == MaxRequests \in Nat /\ MaxBack \in Nat

VARIABLES
  net,     \* the clients and the network of this behaviour
  conn,    \* the server's client_t of each client
  peer,    \* the client's end: not connected yet, here, left, or reset (broken
           \* once the server has been told of the reset)
  up,      \* pieces written by the client and not read by the server
  back,    \* answers written by the server and not read by the client
  store,   \* the stored values, the dictionary of KvsHash
  status,  \* the process: ok, fault (undefined behaviour), killed (SIGPIPE)
  sent,    \* history: the requests of each client
  seen,    \* history: the whole answers each client has read
  ran,     \* history: the commands carried out for each client
  cut      \* history: whether a read found anything but exactly one request
           \* of this client, or a write was cut short

vars == <<net, conn, peer, up, back, store, status, sent, seen, ran, cut>>

-----------------------------------------------------------------------------
(* The connection *)

\* open is TRUE while the descriptor is registered for reading, want while it
\* is registered for writing; ok is the flag KVS_CMD_OK; wbuf is NoReply when
\* wpos is 0.
NewClient == [open |-> TRUE, want |-> FALSE, rbuf |-> <<>>, nargs |-> 0, argv |-> <<>>,
              argc |-> 0, ok |-> FALSE, wbuf |-> NoReply]

\* kvs_ev_del of both events, kvs_client_free and close: the client_t leaks and
\* is not used again.
Closed(k) == [k EXCEPT !.open = FALSE, !.want = FALSE, !.rbuf = <<>>, !.wbuf = NoReply]

Half(r) == [t |-> "half", v |-> r.v]

\* Mutant of Written: wpos is not set back to 0.
KeepsOutput(k) == [k EXCEPT !.want = FALSE, !.ok = FALSE]

\* The callback for writing after write has taken everything.
Written(k) == [k EXCEPT !.want = FALSE, !.wbuf = NoReply, !.ok = FALSE]

\* Mutant of Cleared: the receive buffer is not emptied.
KeepsInput(k) == [k EXCEPT !.argc = 0]

\* What kvs_net_read does behind kvs_command_process.
Cleared(k) == [k EXCEPT !.argc = 0, !.rbuf = <<>>]

\* The elements of argv that the parser stored or the command looks at, and
\* that are not there or not filled.
Unfilled(k) ==
  {i \in 1..Max({k.argc, IF Known(k.argv[1]) THEN Reads[k.argv[1]] ELSE 1}) :
     i > Len(k.argv) \/ k.argv[i] = Uninit}

\* Mutant of Answering: kvs_ev_add is forgotten.
AnswersUnscheduled(k, e) ==
  [k EXCEPT !.wbuf = IF e.reply = NoReply THEN k.wbuf ELSE e.reply]

\* The connection after a command with effect e.
Answering(k, e) ==
  LET wbuf == IF e.reply = NoReply THEN k.wbuf ELSE e.reply
  IN [k EXCEPT !.wbuf = wbuf,
               !.want = @ \/ wbuf # NoReply,
               !.argv = IF e.kept THEN [@ EXCEPT ![3] = Uninit] ELSE @]

\* The rest of kvs_net_read for the parsed connection k of client c: nothing
\* to do, words dropped because the request is not complete, undefined
\* behaviour, or a command carried out.
Process(c, k, ending) ==
  LET After(kk) == conn' = [conn EXCEPT ![c] = IF ending = "eof" THEN Closed(kk) ELSE kk]
  IN \/ /\ k.argc = 0
        /\ After(k)
        /\ UNCHANGED <<store, status, ran>>
     \/ /\ k.argc > 0 /\ ~k.ok
        /\ After(Cleared(k))
        /\ UNCHANGED <<store, status, ran>>
     \/ /\ k.argc > 0 /\ k.ok /\ Unfilled(k) # {}
        /\ status' = "fault"
        /\ UNCHANGED <<conn, store, ran>>
     \/ /\ k.argc > 0 /\ k.ok /\ Unfilled(k) = {}
        /\ LET e == Execute(k.argv, store)
           IN store' = e.store /\ After(Cleared(Answering(k, e)))
        /\ ran' = [ran EXCEPT ![c] = Append(@, SubSeq(k.argv, 1, k.argc))]
        /\ UNCHANGED status

-----------------------------------------------------------------------------
(* The clients *)

Init ==
  /\ net \in Nets
  /\ conn = [c \in Client |-> Closed(NewClient)]
  /\ peer = [c \in Client |-> "away"]
  /\ up = [c \in Client |-> <<>>] /\ back = [c \in Client |-> <<>>]
  /\ store = [w \in Word |-> Absent]
  /\ status = "ok"
  /\ sent = [c \in Client |-> <<>>] /\ seen = [c \in Client |-> <<>>]
  /\ ran = [c \in Client |-> <<>>]
  /\ cut = [c \in Client |-> FALSE]

\* accept_fd gives the connection a client_t and registers it for reading.
Accept(c) ==
  /\ peer[c] = "away" /\ c \in net.clients
  /\ peer' = [peer EXCEPT ![c] = "here"]
  /\ conn' = [conn EXCEPT ![c] = NewClient]
  /\ UNCHANGED <<up, back, store, status, sent, seen, ran, cut>>

Send(c, r) ==
  /\ peer[c] = "here"
  /\ Len(sent[c]) < MaxRequests /\ Len(sent[c]) - Len(seen[c]) < net.depth
  /\ sent' = [sent EXCEPT ![c] = Append(@, r)]
  /\ up' = [up EXCEPT ![c] = @ \o Encode(r)]
  /\ UNCHANGED <<conn, peer, back, store, status, seen, ran, cut>>

Receive(c) ==
  /\ peer[c] = "here" /\ back[c] # <<>>
  /\ seen' = IF Head(back[c]).t = "half" THEN seen ELSE [seen EXCEPT ![c] = Append(@, Head(back[c]))]
  /\ back' = [back EXCEPT ![c] = Tail(@)]
  /\ UNCHANGED <<conn, peer, up, store, status, sent, ran, cut>>

\* A client that leaves with an answer unread resets the connection, and what
\* it wrote last may be lost.
Leave(c) ==
  /\ peer[c] = "here"
  /\ IF back[c] = <<>>
     THEN /\ peer' = [peer EXCEPT ![c] = "left"]
          /\ UNCHANGED up
     ELSE /\ peer' = [peer EXCEPT ![c] = "reset"]
          /\ \E rest \in {up[c], <<>>} : up' = [up EXCEPT ![c] = rest]
  /\ back' = [back EXCEPT ![c] = <<>>]
  /\ UNCHANGED <<conn, store, status, sent, seen, ran, cut>>

-----------------------------------------------------------------------------
(* The callbacks *)

\* How much a read may find.
Arrivals(c) == IF c \in net.parts THEN 0..Len(up[c]) ELSE {Len(up[c])}

\* Whether the first n pieces are one request.
OneRequest(c, n) == n = 0 \/ (up[c][1].t = "*" /\ n = Len(Encode([i \in 1..up[c][1].v |-> 0])))

\* How the loop of reads ends behind n pieces: no more for now, end of file, or
\* the error of a reset connection.
Endings(c, n) ==
  (IF n > 0 THEN {"again"} ELSE {})
    \cup (IF n = Len(up[c]) /\ peer[c] \in {"left", "broken"} THEN {"eof"} ELSE {})
    \cup (IF n = Len(up[c]) /\ peer[c] = "reset" THEN {"error"} ELSE {})

\* kvs_net_read.  The connection is closed at the end of file only.
Read(c) ==
  /\ conn[c].open
  /\ \E n \in Arrivals(c) : \E ending \in Endings(c, n) :
       LET k == [conn[c] EXCEPT !.rbuf = @ \o SubSeq(up[c], 1, n)]
       IN /\ \E kk \in IF k.rbuf = <<>> THEN {k} ELSE Parsed(k) : Process(c, kk, ending)
          /\ up' = [up EXCEPT ![c] = SubSeq(@, n + 1, Len(@))]
          /\ cut' = [cut EXCEPT ![c] = @ \/ ~OneRequest(c, n)]
          /\ peer' = IF ending = "error" THEN [peer EXCEPT ![c] = "broken"] ELSE peer
  /\ UNCHANGED <<back, sent, seen>>

\* kvs_net_write, all of it taken.  The client may have left: its end then
\* answers with a reset.
Write(c) ==
  /\ conn[c].want /\ peer[c] \in {"here", "left"} /\ Len(back[c]) < MaxBack
  /\ IF peer[c] = "here"
     THEN /\ back' = [back EXCEPT ![c] = Append(@, conn[c].wbuf)]
          /\ UNCHANGED peer
     ELSE /\ peer' = [peer EXCEPT ![c] = "reset"]
          /\ UNCHANGED back
  /\ conn' = [conn EXCEPT ![c] = Written(@)]
  /\ UNCHANGED <<up, store, status, sent, seen, ran, cut>>

\* kvs_net_write, a part of it taken: how much is a local variable, and the
\* next call starts again.
WritePart(c) ==
  /\ net.partial
  /\ conn[c].want /\ peer[c] = "here" /\ Len(back[c]) < MaxBack
  /\ back' = [back EXCEPT ![c] = Append(@, Half(conn[c].wbuf))]
  /\ cut' = [cut EXCEPT ![c] = TRUE]
  /\ UNCHANGED <<conn, peer, up, store, status, sent, seen, ran>>

\* kvs_net_write on a reset connection: the error is reported once, the next
\* write raises SIGPIPE, which the server does not handle.
WriteFails(c) ==
  /\ conn[c].want
  /\ \/ /\ peer[c] = "reset"
        /\ peer' = [peer EXCEPT ![c] = "broken"]
        /\ UNCHANGED status
     \/ /\ peer[c] = "broken"
        /\ status' = "killed"
        /\ UNCHANGED peer
  /\ UNCHANGED <<conn, up, back, store, sent, seen, ran, cut>>

Next ==
  /\ status = "ok" /\ UNCHANGED net
  /\ \E c \in Client : \/ Accept(c) \/ Receive(c) \/ Leave(c)
                       \/ \E r \in net.requests : Send(c, r)
                       \/ Read(c) \/ Write(c) \/ WritePart(c) \/ WriteFails(c)

Spec == Init /\ [][Next]_vars

\* The event loop serves every ready descriptor in each of its rounds, and a
\* client waits for its answer.
Fairness == \A c \in Client : /\ WF_vars(status = "ok" /\ UNCHANGED net /\ Read(c))
                              /\ WF_vars(status = "ok" /\ UNCHANGED net /\ Write(c))
                              /\ WF_vars(status = "ok" /\ UNCHANGED net /\ Receive(c))

FairSpec == Spec /\ Fairness

-----------------------------------------------------------------------------
(* Properties *)

\* Requests arrive whole, one at a time, with the words their commands look at,
\* and answers are taken whole.
Enough(r) == Known(r[1]) => Len(r) >= Reads[r[1]]
Orderly == /\ net.parts = {} /\ net.depth = 1 /\ ~net.partial
           /\ \A r \in net.requests : Enough(r)

\* An answer waits in wbuf exactly while its connection is registered for
\* writing: none is forgotten, and the writing callback never runs without one.  A
\* part is never the last a client gets: while there is nothing behind it, the
\* connection stays registered (kvs_command.c:216, kvs_net.c:131-144).
AnswerIsScheduled ==
  \A c \in Client : /\ conn[c].want <=> conn[c].wbuf # NoReply
                    /\ conn[c].want => conn[c].open
                    /\ back[c] # <<>> /\ Last(back[c]).t = "half" => conn[c].want

\* With whole requests, one at a time, the process neither reads an argv it did
\* not fill nor is killed by a client that leaves; otherwise it reads one only after
\* a request arrived in parts or with too few words (kvs_net.c:76, 131, 199,
\* kvs_command.c:193, 208).
StaysUp ==
  /\ Orderly => status = "ok"
  /\ status = "fault" =>
       \E c \in Client : cut[c] \/ \E i \in DOMAIN sent[c] : ~Enough(sent[c][i])

\* Whatever happens on other connections, a client whose requests arrive whole
\* has exactly these carried out, each once and in order (kvs_net.c:187-195).
UncutRunAsSent == \A c \in Client : ~cut[c] => IsPrefix(ran[c], sent[c])

\* The commands carried out for a client are those it sent, and argc and argv
\* hold their words (README.md:20-21).
RunAsSent == \A c \in Client : IsPrefix(ran[c], sent[c])

\* The receive buffer starts with what the parser cannot take for the header or
\* the word it expects.  (A word's own characters are abstracted: in the code, one that
\* begins with '*' or '$' could be taken for them.)
Stuck(c) == conn[c].rbuf # <<>> /\ conn[c].rbuf[1].t # IF Header(conn[c]) THEN "*" ELSE "$"

\* A connection that has lost its place in the stream never finds it again: no
\* command is carried out on it until it is closed (kvs_net.c:64, 97).
StuckForGood ==
  [][\A c \in Client :
       Stuck(c) => ran'[c] = ran[c] /\ (Stuck(c)' \/ ~conn'[c].open)]_vars

\* However requests are cut and answers overwritten, no answer is sent twice and
\* none without a command carried out (kvs_net.c:144-148, kvs_command.c:216).
AnswersAreEarned ==
  \A c \in Client :
    Len(seen[c]) + Cardinality({j \in DOMAIN back[c] : back[c][j].t # "half"})
      + (IF conn[c].wbuf # NoReply THEN 1 ELSE 0) <= Len(ran[c])

\* What a client sent is carried out, and the answer, if there is one, reaches it,
\* unless it leaves; whole requests, one at a time (kvs_net.c:121, 152).
UnderWay(c) == up[c] # <<>> \/ conn[c].wbuf # NoReply \/ back[c] # <<>>
Answered == \A c \in Client : Orderly /\ UnderWay(c) ~> ~UnderWay(c) \/ peer[c] # "here"

\* A client's orderly request is carried out at one instant, by the callback that
\* reads it, and its answer is the one that this client gets.
Kv == INSTANCE KvsKv WITH
        dict <- IF Orderly THEN store ELSE [w \in Word |-> Absent],
        here <- [c \in Client |-> Orderly /\ peer[c] = "here"],
        ask  <- [c \in Client |-> IF ~Orderly \/ up[c] = <<>> THEN <<>> ELSE Last(sent[c])],
        ans  <- [c \in Client |-> IF ~Orderly \/ peer[c] # "here" THEN NoReply
                                 ELSE IF back[c] # <<>> THEN back[c][1] ELSE conn[c].wbuf]

ImplementsKv == Kv!Spec
==============================================================================
