----------------------------- MODULE KvsProtocol ----------------------------
(***************************************************************************)
(* The request format and kvs_net_parse, the parser of kvs_net.c.          *)
(*                                                                         *)
(* A request of n words travels as "*n", CRLF and, for each word, "$length",*)
(* CRLF, the word, CRLF.  The stream is modelled as a sequence of pieces,  *)
(* each of them one of these parts; a piece is never cut, so that a stream *)
(* is cut between the parts of a request only.  (A cut inside "*n", "$n",  *)
(* CRLF or a word leads the parser to one of the same outcomes.)           *)
(*                                                                         *)
(* kvs_net_parse starts from the beginning of the receive buffer at every  *)
(* call: the place it has reached is a local variable, only the number of  *)
(* words it still expects is kept in the connection.                       *)
(***************************************************************************)
EXTENDS Integers, Sequences, FiniteSetsExt

CONSTANTS Leftover   \* what bytes left in the buffer behind the received ones
                     \* may read as

Uninit == "uninit"   \* an element of argv that was never filled, or is NULL

Star(n) == [t |-> "*", v |-> n]
Dollar  == [t |-> "$", v |-> ""]
CRLF    == [t |-> "\r\n", v |-> ""]
Body(w) == [t |-> "body", v |-> w]

\* The kind of the ith piece behind the header.
Kind(i) == CASE i % 4 = 1 -> "$" [] i % 4 = 3 -> "body" [] OTHER -> "\r\n"

\* What a client writes for a request, a sequence of words.
Encode(req) ==
  <<Star(Len(req)), CRLF>> \o
  [i \in 1..4 * Len(req) |-> CASE Kind(i) = "$"    -> Dollar
                               [] Kind(i) = "body" -> Body(req[(i + 3) \div 4])
                               [] OTHER            -> CRLF]

\* A connection that expects no more words takes what it has for a header.
Header(c) == c.nargs = 0
HeaderArrived(c) == Len(c.rbuf) >= 2 /\ c.rbuf[1].t = "*" /\ c.rbuf[2] = CRLF

\* Where the words start, and how many are expected.
Start(c)    == IF Header(c) THEN 2 ELSE 0
Expected(c) == IF Header(c) THEN c.rbuf[1].v ELSE c.nargs

\* Mutant of Arrived: the character before a word's length is not looked at.
ArrivedAnyhow(c) ==
  Max({g \in 0..Expected(c) : Start(c) + 4 * g <= Len(c.rbuf)})

\* The number of words, of those expected, that have wholly arrived.
Arrived(c) ==
  Max({g \in 0..Expected(c) :
         /\ Start(c) + 4 * g <= Len(c.rbuf)
         /\ \A i \in 1..4 * g : c.rbuf[Start(c) + i].t = Kind(i)})

\* What has arrived behind them.
Rest(c) == SubSeq(c.rbuf, Start(c) + 4 * Arrived(c) + 1, Len(c.rbuf))

\* The words one call stores in argv.  The word whose "$length" has arrived is
\* copied even if its bytes have not; the parser is then beyond the received
\* bytes and may stop there or take for words what it finds.
Words(c) ==
  LET whole == [g \in 1..Arrived(c) |-> c.rbuf[Start(c) + 4 * g - 1].v]
      Beyond(w) == UNION {{whole \o <<w>> \o more : more \in [1..m -> Leftover]} :
                            m \in 0..Expected(c) - Arrived(c) - 1}
  IN IF Arrived(c) = Expected(c) THEN {whole}
     ELSE IF Rest(c) = <<Dollar, CRLF>> THEN UNION {Beyond(w) : w \in Leftover}
     ELSE IF Len(Rest(c)) = 3 /\ SubSeq(Rest(c), 1, 2) = <<Dollar, CRLF>> THEN Beyond(Rest(c)[3].v)
     ELSE {whole}

\* Mutant of Vector: argv is allocated for the first request only.
AllocatedOnce(c) == IF c.argv = <<>> THEN [i \in 1..Expected(c) |-> Uninit] ELSE c.argv

\* argv before the words of this call: a header replaces it.
Vector(c) == IF Header(c) THEN [i \in 1..Expected(c) |-> Uninit] ELSE c.argv

\* Words w stored behind the first argc elements.
Filled(argv, argc, w) ==
  [i \in 1..Len(argv) |-> IF i \in argc + 1..argc + Len(w) THEN w[i - argc] ELSE argv[i]]

\* kvs_net_parse: the connections it may leave.
Parsed(c) ==
  IF Header(c) /\ ~HeaderArrived(c) THEN {c}
  ELSE {[c EXCEPT !.argc  = @ + Len(w),
                  !.argv  = Filled(Vector(c), c.argc, w),
                  !.nargs = Expected(c) - Len(w),
                  !.ok    = @ \/ Len(w) = Expected(c)] : w \in Words(c)}

=============================================================================
