------------------------------ MODULE KvsText -------------------------------
(***************************************************************************)
(* What a buffer of kvs_str.h is to its users: a text that is written to   *)
(* at an offset, appended to, shortened from the front and read in slices. *)
(* A write makes the text end where the write ends; a write behind the end *)
(* fills the gap with NULs.  A call that fails changes nothing.            *)
(*                                                                         *)
(* The promise ends with the first call that breaks the buffer (`sound`);  *)
(* a text that is there is broken by two calls only.                       *)
(***************************************************************************)
EXTENDS Integers, Sequences

CONSTANTS Texts,   \* the texts written
          Offsets, \* offsets and the ends of slices, negative ones included
          NUL

VARIABLES text, sound,
          res      \* the last call and what it gave back

Result(op, rv) == [op |-> op, rv |-> rv, span |-> <<>>, out |-> <<>>]
Read(start, end, out) == [op |-> "getrange", rv |-> 0, span |-> <<start, end>>, out |-> out]

\* The first n bytes, with NULs behind the end of the text.
FirstBytes(s, n) == [i \in 1..n |-> IF i <= Len(s) THEN s[i] ELSE NUL]

\* A negative position counts from the end, -1 is the last byte.
Position(s, x) == IF x < 0 THEN Len(s) + x ELSE x

\* The bytes from start to end, both included, as far as there are any; a
\* single NUL when there are none.
Slice(s, start, end) ==
  LET last == IF Position(s, end) < Len(s) THEN Position(s, end) ELSE Len(s) - 1
  IN IF Position(s, start) > last THEN <<NUL>> ELSE SubSeq(s, Position(s, start) + 1, last + 1)

Init == text = <<>> /\ sound = TRUE /\ res = Result("none", 0)

WriteAt(offset, s) == /\ text' = FirstBytes(text, offset) \o s
                      /\ res' = Result("setrange", 0)

AppendText(s) == /\ text' = text \o s
                 /\ res' \in {Result("append", 0), Result("sprintf", Len(s))}

DropFirst(k) == /\ text' = SubSeq(text, k + 1, Len(text))
                /\ res' = Result("truncate", 0)

Clear == /\ text' \in {<<>>, text}
         /\ res' \in {Result("reset", 0), Result("free", 0)}

Make(s) == text' = s /\ res' = Result("new", 0)

\* A slice that starts in front of the text may hold anything.
GetRange(start, end) ==
  /\ res' = Read(start, end, IF Position(text, start) >= 0 THEN Slice(text, start, end) ELSE res'.out)
  /\ UNCHANGED text

Fails == res' \in {Result(op, -1) : op \in {"setrange", "append", "sprintf", "truncate", "getrange"}}
         /\ UNCHANGED text

Call == \/ \E offset \in Offsets \cap Nat, s \in Texts : WriteAt(offset, s)
        \/ \E s \in Texts : AppendText(s) \/ Make(s)
        \/ \E k \in 0..Len(text) : DropFirst(k)
        \/ \E start, end \in Offsets : GetRange(start, end)
        \/ Clear \/ Fails

\* Nothing is promised from here on.
Break == /\ sound' = FALSE /\ text' = <<>>
         /\ text # <<>> => res'.op \in {"truncate", "sprintf"}

Next == sound /\ (Break \/ (Call /\ UNCHANGED sound))

Spec == Init /\ [][Next]_<<text, sound, res>>
==============================================================================
