------------------------------- MODULE KvsStr -------------------------------
(***************************************************************************)
(* The calls on the growing buffers of kvs_str.c, as operators from buffer *)
(* to buffer.  A kvs_buf_t keeps its bytes on the heap; a kvs_buffer_t     *)
(* starts in an array of its own and moves to the heap when the array is   *)
(* too small.  `alloc` is what the code believes the block holds; the      *)
(* block itself is `mem`, and the two can differ.                          *)
(*                                                                         *)
(* `fails` says whether malloc and realloc return NULL in the call.  A     *)
(* write outside the block makes the buffer not `ok`; bytes nobody wrote,  *)
(* and those read outside the block, are Junk.                             *)
(***************************************************************************)
EXTENDS Integers, Sequences

CONSTANTS Dsize,      \* kvs_buf_dsize, 64 in kvs_str.h
          NUL, Junk

ASSUME DsizeAssumption == Dsize \in Nat \ {0}

Block(n) == [i \in 0..n - 1 |-> Junk]
Holds(c) == DOMAIN c.mem            \* the indices inside the block

\* kvs_buf_null and kvs_buffer_null; kvs_buf_null leaves alloc 0.
Null(flag) == [p |-> "null", flag |-> flag, len |-> 0, alloc |-> 0,
               mem |-> Block(0), ok |-> TRUE]

Broken(c) == [c EXCEPT !.ok = FALSE]

\* memcpy, memset and the terminator: s written at offset i.
Put(c, i, s) ==
  IF i..i + Len(s) - 1 \subseteq Holds(c)
  THEN [c EXCEPT !.mem = [j \in DOMAIN @ |-> IF j \in i..i + Len(s) - 1 THEN s[j - i + 1] ELSE @[j]]]
  ELSE Broken(c)

\* malloc and memcpy, or realloc: a heap block of n bytes with the first `kept`.
Moved(c, n, kept) ==
  [c EXCEPT !.p = "heap", !.alloc = n,
            !.mem = [j \in 0..n - 1 |-> IF j < kept /\ j \in Holds(c) THEN c.mem[j] ELSE Junk]]

\* Mutant of Grown: the bytes of the array are not copied.
GrownEmpty(c, n) == Moved(c, n, IF c.p = "buf" THEN 0 ELSE c.alloc)

Grown(c, n) == Moved(c, n, IF c.p = "buf" THEN c.len ELSE c.alloc)

InArray(c) == [c EXCEPT !.p = "buf", !.len = 0, !.alloc = Dsize, !.mem = Block(Dsize)]

NULs(n) == [i \in 1..n |-> NUL]

-----------------------------------------------------------------------------
(* kvs_buf_setrange and kvs_buf_append *)

\* The first write: the array, or a block large enough.  The result of malloc
\* is not looked at.
Prepared(c, need, fails) ==
  IF c.p # "null" THEN c
  ELSE IF c.flag = "buffer" THEN InArray(c)
  ELSE IF fails THEN Broken(c)
  ELSE Moved([c EXCEPT !.len = 0], IF Dsize > need THEN Dsize ELSE need, 0)

Enough(c, need) == need <= c.alloc

\* Mutant of Filled: the gap keeps what was there.
NotFilled(c, offset) == c

\* A gap between the text and the offset.
Filled(c, offset) == IF c.len < offset THEN Put(c, c.len, NULs(offset - c.len)) ELSE c

\* Mutant of Ended: no terminator is written.
NotEnded(c, n) == [c EXCEPT !.len = n]

Ended(c, n) == [Put(c, n, <<NUL>>) EXCEPT !.len = n]

\* The data is copied, then the gap in front of it is filled; the text ends
\* where the write ends, also when it went on behind it before.
SetRange(c, offset, s, fails) ==
  LET need == offset + Len(s) + 1
      q    == Prepared(c, need, fails)
      g    == IF Enough(q, need) THEN q
              ELSE Grown(q, IF need < 2 * q.alloc THEN 2 * q.alloc ELSE need)
  IN IF offset < 0 THEN c
     ELSE IF ~Enough(q, need) /\ fails THEN q
     ELSE Ended(Filled(Put(g, offset, s), offset), offset + Len(s))

SetRangeFails(c, offset, s, fails) ==
  offset < 0 \/ (fails /\ LET need == offset + Len(s) + 1
                          IN ~Enough(Prepared(c, need, FALSE), need))

\* kvs_buf_append: a write at the end.
Appended(c, s, fails) == SetRange(c, c.len, s, fails)

-----------------------------------------------------------------------------
(* kvs_buf_append_sprintf *)

\* What has p set before the first vsnprintf.
Ready(c) == IF c.p # "null" THEN c
            ELSE IF c.flag = "buffer" THEN InArray(c)
            ELSE Moved([c EXCEPT !.len = 0], Dsize, 0)

\* vsnprintf into what is left of alloc: cut there, and always terminated.  No
\* room at all writes nothing; a negative room is taken for a huge one.
Printed(c, s) ==
  LET room == c.alloc - c.len
  IN IF room = 0 THEN c
     ELSE IF room > 0 /\ Len(s) >= room THEN Put(c, c.len, SubSeq(s, 1, room - 1) \o <<NUL>>)
     ELSE Put(c, c.len, s \o <<NUL>>)

\* The test is with the whole of alloc, not with the room.
Accepted(c, s) == Len(s) < c.alloc

Fits(c, s) == Len(s) < c.alloc - c.len

\* What vsnprintf would have written is counted, whatever was cut.
Counted(c, s) == [c EXCEPT !.len = @ + Len(s)]

\* When the text is not accepted alloc is raised first; a failing malloc leaves
\* no buffer, a failing realloc leaves the old one.
Sprintf(c, s, fails) ==
  LET q == Ready(c)
      a == q.len + Len(s) + 1
  IN IF c.p = "null" /\ c.flag = "buf" /\ fails THEN [c EXCEPT !.len = 0, !.alloc = Dsize]
     ELSE IF Accepted(q, s) THEN Counted(Printed(q, s), s)
     ELSE IF ~fails THEN Counted(Printed(Grown(Printed(q, s), a), s), s)
     ELSE IF q.p = "buf" THEN [q EXCEPT !.p = "null", !.alloc = a, !.mem = Block(0)]
     ELSE [Printed(q, s) EXCEPT !.alloc = a]

SprintfFails(c, s, fails) == fails /\ (~Accepted(Ready(c), s) \/ (c.p = "null" /\ c.flag = "buf"))

\* The two ways in which the call breaks a buffer: a text longer than the room
\* but shorter than alloc, and a block that could not grow.
Spoils(c, s, fails) == LET q == Ready(c)
                       IN IF Accepted(q, s) THEN ~Fits(q, s) ELSE fails

-----------------------------------------------------------------------------
(* The other calls *)

\* kvs_buf_truncate: the rest moves to the front, the terminator does not.
Truncated(c, n) ==
  [c EXCEPT !.len = @ - n,
            !.mem = [j \in DOMAIN @ |-> IF j < c.len - n THEN (IF j + n \in Holds(c) THEN @[j + n] ELSE Junk)
                                                          ELSE @[j]]]

TruncateRefused(c, n) == n < 0 \/ (c.p = "buf" /\ n > Dsize)

\* A negative position counts from the end.
From(c, x) == IF x < 0 THEN c.len + x ELSE x

\* Nothing lies between the two positions.
NoSlice(c, start, end) == From(c, start) > From(c, end) \/ From(c, start) >= c.len

\* kvs_buf_getrange: the bytes it copies.  A position still negative reads in
\* front of the block.  Where there is nothing it gives "" with a length of 1.
GetRange(c, start, end) ==
  LET s == From(c, start)
      e == IF From(c, end) >= c.len THEN c.len - 1 ELSE From(c, end)
  IN IF NoSlice(c, start, end) THEN <<NUL>>
     ELSE [j \in 1..e - s + 1 |-> IF s + j - 1 \in Holds(c) THEN c.mem[s + j - 1] ELSE Junk]

\* kvs_buf_new; the result of the inner malloc is not looked at.
New(s, fails) ==
  IF fails THEN Broken(Null("buf"))
  ELSE [Put(Put(Moved(Null("buf"), Len(s) + 1, 0), Len(s), <<NUL>>), 0, s) EXCEPT !.len = Len(s)]
==============================================================================
