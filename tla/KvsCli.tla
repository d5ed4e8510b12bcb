------------------------------- MODULE KvsCli -------------------------------
(***************************************************************************)
(* The conversation of the client kvs_cli.c: a line is sent, one read      *)
(* takes what has come of the answer into the array val, and main prints   *)
(* what it finds there.  Lines and requests are in KvsSplit and KvsMarshal; *)
(* the server answers each request once, or, for a list command, never.    *)
(*                                                                         *)
(* val is not cleared between answers.  A byte is known by the request it  *)
(* answers; a number is one byte.                                          *)
(***************************************************************************)
EXTENDS Integers, Sequences, SequencesExt

CONSTANTS Room,      \* sizeof(val), 513 in kvs_cli.c:86
          Kinds,     \* the kinds of answers, see Answer
          MaxLines   \* bound: lines typed

CliAssumption == /\ Room \in Nat /\ Room >= 8 /\ MaxLines \in Nat
                 /\ Kinds \subseteq [t: {"line", "bulk", "nil", "none"}, n: Nat]

VARIABLES asked,  \* the kinds of the requests sent
          up, back, \* requests the server has not handled, and bytes for the client
          srv,    \* "up", "gone"
          pc,     \* "prompt", "recv", "quit", "dead"
          val, shown, \* the array, and what the last answer was printed as
          late,   \* history: no read left a part of an answer ("no"), the last one did
                  \* ("now"), or an earlier one ("since")
          status  \* "ok", "overrun"

vars == <<asked, up, back, srv, pc, val, shown, late, status>>

Byte(r, b) == [of |-> r, b |-> b, num |-> 0]
Text(r, n) == [j \in 1..n |-> Byte(r, "x")]
CRLF(r) == <<Byte(r, "cr"), Byte(r, "lf")>>
Terminator == Byte(0, "nul")

\* What the server writes: "+...", "$n..." with n bytes, "$-1", or nothing.
Answer(r, kind) ==
  CASE kind.t = "line" -> <<Byte(r, "+")>> \o Text(r, kind.n) \o CRLF(r)
    [] kind.t = "bulk" -> <<Byte(r, "$"), [Byte(r, "num") EXCEPT !.num = kind.n]>> \o CRLF(r) \o Text(r, kind.n)
    [] kind.t = "nil"  -> <<Byte(r, "$"), [Byte(r, "num") EXCEPT !.num = -1]>> \o CRLF(r)
    [] kind.t = "none" -> <<>>

Index == 0..Room - 1
Put(v, i) == IF i \in Index THEN [v EXCEPT ![i] = Terminator] ELSE v

\* The place of the first byte from i on that is one of B, or Room.
FirstIn(v, i, B) == LET found == {j \in i..Room - 1 : v[j].b \in B}
                    IN IF found = {} THEN Room ELSE CHOOSE j \in found : \A m \in found : j <= m

String(v, i) == [j \in 1..FirstIn(v, i, {"nul"}) - i |-> v[i + j - 1]]

Nothing == [t |-> "nothing", text |-> <<>>]
Nil == [t |-> "nil", text |-> <<>>]
Shown(text) == [t |-> "text", text |-> text]
Printed(what, v, bad) == [what |-> what, v |-> v, bad |-> bad]

-----------------------------------------------------------------------------
(* What main makes of val *)

\* strtoul: the number behind the '$', 0 when there is none.
Number(v) == IF v[1].b = "num" THEN v[1].num ELSE 0

\* Mutant of BodyAt: the line feed is left.
BodyAtLF(v) == LET i == IF v[1].b = "num" THEN 2 ELSE 1 IN i + (IF v[i].b = "cr" THEN 1 ELSE 0)

\* Behind the number and what there is of its CRLF.
BodyAt(v) == LET i == IF v[1].b = "num" THEN 2 ELSE 1
                 j == i + (IF v[i].b = "cr" THEN 1 ELSE 0)
             IN j + (IF v[j].b = "lf" THEN 1 ELSE 0)

\* A bulk answer is as long as its number says, whatever the read took.
BulkPrinted(v) ==
  LET p   == BodyAt(v)
      end == p + Number(v)
  IN IF Number(v) = -1 THEN Printed(Nil, Put(v, p + 3), FALSE)
     ELSE Printed(Shown(String(Put(v, end), p)), Put(v, end), end >= Room)

\* The sign is not part of the text: p is val + 1, and rv is less by one.
LineEnd(rv) == rv

LinePrinted(v, rv) ==
  LET cr   == FirstIn(v, 1, {"cr", "nul"})
      last == IF cr < Room /\ v[cr].b = "cr" THEN Put(v, cr) ELSE v
  IN Printed(Shown(String(Put(last, LineEnd(rv)), 1)), Put(last, LineEnd(rv)),
             cr >= Room \/ LineEnd(rv) >= Room)

\* A single byte is not printed.
Result(v, rv) == IF rv <= 1 THEN Printed(Nothing, v, FALSE)
                 ELSE IF v[0].b = "$" THEN BulkPrinted(v) ELSE LinePrinted(v, rv)

-----------------------------------------------------------------------------

Init == /\ asked = <<>> /\ up = <<>> /\ back = <<>> /\ srv = "up" /\ pc = "prompt"
        /\ val = [j \in Index |-> Terminator] /\ shown = Nothing /\ late = "no" /\ status = "ok"

\* kvs_cli_send.  Without a server it succeeds, reports an error, or SIGPIPE ends
\* the client.
Send(kind) ==
  /\ pc = "prompt" /\ Len(asked) < MaxLines
  /\ asked' = Append(asked, kind)
  /\ up' = IF srv = "up" THEN Append(up, Len(asked')) ELSE up
  /\ pc' \in IF srv = "up" THEN {"recv"} ELSE {"recv", "dead"}
  /\ UNCHANGED <<back, srv, val, shown, late, status>>

\* Mutant of AfterRead: the client reads again.
AfterReadAgain == "recv"

\* There is one read for each line.
AfterRead == "prompt"

\* kvs_cli_recv takes k bytes, which are all that there is, all that val holds, or
\* what the network has brought.
Recv(k) ==
  /\ pc = "recv" /\ k \in 1..Len(back) /\ k <= Room
  /\ LET p == Result([j \in Index |-> IF j < k THEN back[j + 1] ELSE val[j]], k)
     IN /\ shown' = p.what
        /\ val' = Put(p.v, 0)
        /\ status' = IF p.bad THEN "overrun" ELSE "ok"
  /\ back' = SubSeq(back, k + 1, Len(back))
  /\ late' = IF late # "no" THEN "since" ELSE IF k < Len(back) THEN "now" ELSE "no"
  /\ pc' = AfterRead
  /\ UNCHANGED <<asked, up, srv>>

\* The end of the connection, which is not looked at.
RecvNothing ==
  /\ pc = "recv" /\ srv = "gone" /\ back = <<>>
  /\ shown' = Nothing /\ val' = Put(val, 0)
  /\ pc' = AfterRead
  /\ UNCHANGED <<asked, up, back, srv, late, status>>

Quit == pc = "prompt" /\ pc' = "quit" /\ UNCHANGED <<asked, up, back, srv, val, shown, late, status>>

\* The server.
Serve == /\ srv = "up" /\ up # <<>>
         /\ back' = back \o Answer(up[1], asked[up[1]])
         /\ up' = Tail(up)
         /\ UNCHANGED <<asked, srv, pc, val, shown, late, status>>

Gone == srv = "up" /\ srv' = "gone" /\ UNCHANGED <<asked, up, back, pc, val, shown, late, status>>

Next == /\ status = "ok"
        /\ \/ \E kind \in Kinds : Send(kind)
           \/ \E k \in 1..Room : Recv(k)
           \/ RecvNothing \/ Quit \/ Serve \/ Gone

Spec == Init /\ [][Next]_vars

Fairness == WF_vars(status = "ok" /\ (Serve \/ RecvNothing \/ \E k \in 1..Room : Recv(k)))

FairSpec == Spec /\ Fairness

-----------------------------------------------------------------------------
(* Properties *)

Expected(r) == CASE asked[r].t = "none" -> Nothing
                 [] asked[r].t = "nil"  -> Nil
                 [] OTHER               -> Shown(Text(r, asked[r].n))

\* While each read takes all there is, each line is answered by what the server
\* says of it, with no byte of an older answer, which val still holds.  The first read
\* that does not is printed no longer than the answer would be, and bytes of older
\* answers appear only behind those of this one.  A byte behind val is written only for
\* an answer that does not fit with a terminator (kvs_cli.c:109-138).
ShownIsAnswer ==
  LET r == Len(asked)
      answered == pc = "prompt" /\ srv = "up" /\ asked # <<>> /\ status = "ok"
  IN /\ late = "no" /\ answered => shown = Expected(r)
     /\ late = "now" /\ answered =>
          /\ Len(shown.text) <= asked[r].n
          /\ \A i, j \in DOMAIN shown.text :
               i < j /\ shown.text[j].of = r => shown.text[i].of = r
     /\ late # "since" /\ status = "overrun" =>
          \E q \in DOMAIN asked : Len(Answer(q, asked[q])) >= Room

\* The client and the server each wait for the other.
BothWait == pc = "recv" /\ srv = "up" /\ up = <<>> /\ back = <<>>

\* They do so only behind a line that has no answer, however the answers were cut
\* and whatever was left of them (kvs_cli.c:105-109).
BothWaitOnlyUnanswered == BothWait => Last(asked).t = "none"

\* Every line leads back to the prompt, also when the server is gone, unless it has
\* no answer and the client and the server wait for each other for ever
\* (kvs_cli.c:109).
Prompted ==
  pc = "recv" ~> \/ pc # "recv" \/ status # "ok"
                 \/ BothWait /\ Last(asked).t = "none"
=============================================================================
