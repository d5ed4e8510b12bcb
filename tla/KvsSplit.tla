------------------------------ MODULE KvsSplit ------------------------------
(***************************************************************************)
(* How the client gets its words: the array line of kvs_cli.c, filled by   *)
(* read, and kvs_strs_split of kvs_str.c, which cuts it at the separators. *)
(*                                                                         *)
(* The array is not cleared between lines, so behind the terminator of a   *)
(* short line lies the rest of a longer one.  A word is a place and a      *)
(* length in the array.  `room` is the number of elements the block argv   *)
(* has, which is not what the code records in `alloc`.                     *)
(***************************************************************************)
EXTENDS Integers, Sequences, SequencesExt

CONSTANTS Lines,     \* what is typed: sequences of "sep" and "char"
          LineSize,  \* the array, 1024 in kvs_cli.c:68
          AllocFails \* whether realloc may return NULL

SplitAssumption ==
  /\ LineSize \in Nat \ {0} /\ AllocFails \in BOOLEAN
  /\ Lines \subseteq Seq({"sep", "char"}) /\ \A t \in Lines : Len(t) < LineSize

VARIABLES line,   \* line[0..LineSize - 1]: "sep", "char", "nul", or "junk" at first
          typed,  \* the last line typed
          p,      \* where kvs_strs_split is
          argv, alloc, room,  \* kvs_strs_t
          pc,     \* "read", "split", "send"
          short,  \* realloc failed in this round
          status  \* "ok"; "overrun": an element was stored behind the block and the
                  \* program lives; "dead": it does not; "fault": behind the array

vars == <<line, typed, p, argv, alloc, room, pc, short, status>>

Index == 0..LineSize - 1

\* The first index from i on whose byte is in S, or LineSize.
FirstIn(i, S) == LET found == {j \in i..LineSize - 1 : line[j] \in S}
                 IN IF found = {} THEN LineSize ELSE CHOOSE j \in found : \A m \in found : j <= m

\* strspn(s, dem): the separators the whole line starts with.
Leading == FirstIn(0, {"char", "nul", "junk"})

\* Before the first line the array holds whatever there was, or zeros.
Init == /\ \E byte \in {"junk", "nul"} : line = [j \in Index |-> byte]
        /\ typed = <<>> /\ p = 0 /\ argv = <<>> /\ alloc = 0 /\ room = 0
        /\ pc = "read" /\ short = FALSE /\ status = "ok"

\* kvs_strs_reset forgets the words and keeps the block.
Reset == argv' = <<>> /\ short' = FALSE /\ UNCHANGED <<alloc, room>>

\* read, and the newline becomes the terminator.
ReadLine(t) == /\ pc = "read"
               /\ line' = [j \in Index |-> IF j < Len(t) THEN t[j + 1]
                                           ELSE IF j = Len(t) THEN "nul" ELSE line[j]]
               /\ typed' = t /\ p' = 0 /\ pc' = "split"
               /\ Reset /\ UNCHANGED status

\* At the end of the input read returns 0 and the array is as it was.
EndOfInput == /\ pc = "read"
              /\ p' = 0 /\ pc' = "split"
              /\ Reset /\ UNCHANGED <<line, typed, status>>

\* What alloc becomes when the block gets 2 * alloc + 1 elements.
Grown == 2 * alloc

\* Behind the block: the element may land in memory nobody uses, or end the program.
Stored(w) ==
  \/ argv' = Append(argv, w) /\ status' = IF Len(argv) < room' THEN status ELSE "overrun"
  \/ Len(argv) >= room' /\ status' = "dead" /\ UNCHANGED argv

\* Mutant of WordAt: the separator belongs to the word.
WordAtWithSep(start) == [at |-> start, len |-> FirstIn(start, {"sep", "nul"}) - start + 1]

WordAt(start) == [at |-> start, len |-> FirstIn(start, {"sep", "nul"}) - start]

\* The separators skipped before a word are those at the start of the line.
Skip == p + Leading

\* One round of the loop of kvs_strs_split.
NextWord ==
  /\ pc = "split" /\ line[p] # "nul"
  /\ Skip < LineSize /\ FirstIn(Skip, {"sep", "nul"}) < LineSize
  /\ IF Len(argv) >= alloc THEN alloc' = Grown /\ room' = 2 * alloc + 1
                           ELSE UNCHANGED <<alloc, room>>
  /\ LET w   == WordAt(Skip)
         end == w.at + w.len
     IN /\ Stored(w)
        /\ p' = end + 1
        /\ pc' = IF line[end] = "nul" THEN "send" ELSE "split"
  /\ UNCHANGED <<line, typed, short>>

\* The caller does not look at the -1.
NoMemory == /\ AllocFails /\ pc = "split" /\ line[p] # "nul"
            /\ Len(argv) >= alloc
            /\ pc' = "send" /\ short' = TRUE
            /\ UNCHANGED <<line, typed, p, argv, alloc, room, status>>

EndOfLine == /\ pc = "split" /\ line[p] = "nul"
             /\ pc' = "send"
             /\ UNCHANGED <<line, typed, p, argv, alloc, room, short, status>>

\* The loop runs on behind the array.
BehindTheArray == /\ pc = "split" /\ line[p] # "nul"
                  /\ Skip >= LineSize \/ FirstIn(Skip, {"sep", "nul"}) >= LineSize
                  /\ status' = "fault"
                  /\ UNCHANGED <<line, typed, p, argv, alloc, room, pc, short>>

\* kvs_cli_send, the answer, and the next prompt.
Send == /\ pc = "send"
        /\ pc' = "read"
        /\ UNCHANGED <<line, typed, p, argv, alloc, room, short, status>>

Next == /\ status \notin {"dead", "fault"}
        /\ \/ \E t \in Lines : ReadLine(t)
           \/ EndOfInput \/ NextWord \/ NoMemory \/ EndOfLine \/ BehindTheArray \/ Send

Spec == Init /\ [][Next]_vars

-----------------------------------------------------------------------------
(* Properties *)

Text(w) == [j \in 1..w.len |-> line[w.at + j - 1]]
Joined  == FlattenSeq([j \in 1..Len(argv) |-> (IF j = 1 THEN <<>> ELSE <<"sep">>) \o Text(argv[j])])

\* A line that does not start with a separator is cut into words that make it up
\* again, but for a last separator; two separators in a row enclose an empty word.
\* The block has room for the first word and for no other: a line of one word ends
\* nothing, and the second word of a line is stored behind the block.
\* When memory runs out the words in front are sent as if they were all.
\* At the end of the input the last line is cut, and sent, once more.  Only behind
\* separators in front of a line, or before the first line, does the loop leave the
\* array for good (kvs_str.c:257-288, kvs_cli.c:92-101).
WordsAreTheLine ==
  /\ pc = "send" /\ status # "dead" /\ Leading = 0 =>
       IF short THEN IsPrefix(Joined, typed) ELSE typed \in {Joined, Joined \o <<"sep">>}
  /\ status = "dead" => argv # <<>>
  /\ Len(argv) > 1 => status # "ok"
  /\ status = "fault" => Leading > 0 \/ line[0] = "junk"
=============================================================================
