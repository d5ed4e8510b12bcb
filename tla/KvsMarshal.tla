----------------------------- MODULE KvsMarshal -----------------------------
(***************************************************************************)
(* How the client kvs_cli.c puts a request together: marshal, step by step *)
(* over the buffers of KvsStr.  It ignores what the calls return, and      *)
(* writes as many bytes as the buffer's len says.                          *)
(***************************************************************************)
EXTENDS KvsStr, FiniteSets, SequencesExt

CONSTANTS Requests,   \* the requests: sequences of words, a word is a sequence of bytes
          AllocFails  \* whether malloc and realloc may return NULL

\* A line has 1023 bytes at most (kvs_cli.c:68), so that four digits are enough;
\* "*%d\r\n" and "$%d\r\n" fit into an empty array.
MarshalAssumption ==
  /\ AllocFails \in BOOLEAN /\ Dsize \in Nat /\ Dsize > 7
  /\ Requests \subseteq Seq(Seq(0..255))
  /\ \A ws \in Requests : Len(ws) < 10000 /\ \A j \in 1..Len(ws) : Len(ws[j]) < 10000

VARIABLES argv, k,  \* the words, and how many have been put into the buffer
          pc,       \* the next step of marshal
          b, starved, \* the buffer; history: a call ran out of memory
          spoilt,   \* history: append_sprintf was given more than the room
          out       \* what was given to write

vars == <<argv, k, pc, b, starved, spoilt, out>>

\* Bytes by their code.
CRLF == <<13, 10>>
Tens      == <<1, 10, 100, 1000, 10000>>
Width(n)  == CHOOSE w \in 1..4 : n < Tens[w + 1] /\ (w = 1 \/ n >= Tens[w])
Digits(n) == [j \in 1..Width(n) |-> 48 + ((n \div Tens[Width(n) - j + 1]) % 10)]
CountLine(n)  == <<42>> \o Digits(n) \o CRLF   \* "*%d\r\n"
LengthLine(n) == <<36>> \o Digits(n) \o CRLF   \* "$%d\r\n"

\* The bytes write is given: what lies behind the block is whatever is there.
Bytes(c) == IF c.p = "null" THEN <<>>
            ELSE [j \in 1..c.len |-> IF j - 1 \in Holds(c) THEN c.mem[j - 1] ELSE Junk]

Failures == IF AllocFails THEN BOOLEAN ELSE {FALSE}

Prints(s) == \E fails \in Failures :
  /\ b' = Sprintf(b, s, fails)
  /\ spoilt' = (spoilt \/ (Accepted(Ready(b), s) /\ ~Fits(Ready(b), s)))
  /\ starved' = (starved \/ SprintfFails(b, s, fails))

Init == /\ argv \in Requests /\ k = 0 /\ pc = "count"
        /\ b = Null("buffer") /\ starved = FALSE /\ spoilt = FALSE /\ out = <<>>

Start == IF k' < Len(argv) THEN "length" ELSE "write"

Count == /\ pc = "count"
         /\ Prints(CountLine(Len(argv)))
         /\ k' = 0 /\ pc' = Start
         /\ UNCHANGED <<argv, out>>

Length == /\ pc = "length"
          /\ Prints(LengthLine(Len(argv[k + 1])))
          /\ pc' = "word"
          /\ UNCHANGED <<argv, k, out>>

Word == /\ pc = "word"
        /\ \E fails \in Failures :
             /\ b' = Appended(b, argv[k + 1], fails)
             /\ starved' = (starved \/ SetRangeFails(b, b.len, argv[k + 1], fails))
        /\ pc' = "crlf"
        /\ UNCHANGED <<argv, k, spoilt, out>>

EndOfWord == /\ pc = "crlf"
             /\ Prints(CRLF)
             /\ k' = k + 1 /\ pc' = Start
             /\ UNCHANGED <<argv, out>>

Write == /\ pc = "write"
         /\ out' = Bytes(b)
         /\ pc' = "written"
         /\ UNCHANGED <<argv, k, b, starved, spoilt>>

Next == b.ok /\ (Count \/ Length \/ Word \/ EndOfWord \/ Write)

Spec == Init /\ [][Next]_vars

-----------------------------------------------------------------------------
(* Properties *)

\* The form of a request (kvs_cli.c:13).
Formatted(words) ==
  CountLine(Len(words)) \o FlattenSeq([j \in 1..Len(words) |->
                             LengthLine(Len(words[j])) \o words[j] \o CRLF])

\* A request goes out as formatted unless a formatted piece did not fit the room
\* left, and that takes a request longer than the array; only then can a later piece
\* be written behind the block, a missing block does not do it (kvs_str.c:156-164).
SentUnlessSpoilt ==
  /\ pc = "written" /\ ~spoilt /\ ~starved => out = Formatted(argv)
  /\ spoilt => Len(Formatted(argv)) >= Dsize
  /\ ~b.ok => spoilt
==============================================================================
