------------------------------- MODULE KvsBuf -------------------------------
(***************************************************************************)
(* One buffer and the calls its users make on it, in any order.            *)
(***************************************************************************)
EXTENDS KvsStr

CONSTANTS Texts,      \* what callers write
          Offsets,    \* the offsets and slice ends they give
          MaxLen,     \* bound: no write is begun that would end beyond it
          AllocFails  \* whether malloc and realloc may return NULL

ASSUME BufAssumption == /\ MaxLen \in Nat /\ Offsets \subseteq Int
                        /\ AllocFails \in BOOLEAN

VARIABLES b,     \* the kvs_buf_t or kvs_buffer_t
          spoilt, \* history: append_sprintf broke b, see Spoils
          res    \* what the last call gave back, as in KvsText

vars == <<b, spoilt, res>>

Result(op, rv) == [op |-> op, rv |-> rv, span |-> <<>>, out |-> <<>>]
Read(start, end, out) == [op |-> "getrange", rv |-> 0, span |-> <<start, end>>, out |-> out]
Called(op, failed) == res' = Result(op, IF failed THEN -1 ELSE 0)

Failures == IF AllocFails THEN BOOLEAN ELSE {FALSE}

\* A freed buffer is not used; what becomes of a broken one is in KvsMarshal.
Usable == b.ok /\ b.p # "freed" /\ ~spoilt

DoSetRange(offset, s, fails) ==
  /\ Usable /\ offset + Len(s) <= MaxLen
  /\ b' = SetRange(b, offset, s, fails)
  /\ Called("setrange", SetRangeFails(b, offset, s, fails))
  /\ UNCHANGED spoilt

DoAppend(s, fails) ==
  /\ Usable /\ b.len + Len(s) <= MaxLen
  /\ b' = Appended(b, s, fails)
  /\ Called("append", SetRangeFails(b, b.len, s, fails))
  /\ UNCHANGED spoilt

DoSprintf(s, fails) ==
  /\ Usable /\ b.len + Len(s) <= MaxLen
  /\ b' = Sprintf(b, s, fails)
  /\ res' = Result("sprintf", IF SprintfFails(b, s, fails) THEN -1 ELSE Len(s))
  /\ spoilt' = (spoilt \/ Spoils(b, s, fails))

\* More than there is makes the length given to memmove negative.
DoTruncate(n) ==
  /\ Usable
  /\ b' = IF TruncateRefused(b, n) THEN b
          ELSE IF n > b.len THEN Broken(b) ELSE Truncated(b, n)
  /\ Called("truncate", TruncateRefused(b, n))
  /\ UNCHANGED spoilt

DoReset == /\ Usable
           /\ b' = [b EXCEPT !.len = 0]
           /\ Called("reset", FALSE)
           /\ UNCHANGED spoilt

\* With no block there is nothing to copy from.
DoGetRange(start, end, fails) ==
  /\ Usable
  /\ LET out == GetRange(b, start, end)
         bad == b.p = "null" /\ ~NoSlice(b, start, end) /\ out # <<>>
     IN IF fails /\ ~NoSlice(b, start, end)
        THEN b' = b /\ Called("getrange", TRUE)
        ELSE IF bad THEN b' = Broken(b) /\ UNCHANGED res
                    ELSE b' = b /\ res' = Read(start, end, out)
  /\ UNCHANGED spoilt

\* kvs_buf_free leaves the array alone and p as it is.
DoFree == /\ Usable
          /\ b' = IF b.p = "heap" THEN [b EXCEPT !.p = "freed", !.mem = Block(0)] ELSE b
          /\ Called("free", FALSE)
          /\ UNCHANGED spoilt

DoNew(s, fails) == /\ b.p \in {"null", "freed"} /\ b.ok /\ ~spoilt
                   /\ b' = New(s, fails)
                   /\ Called("new", FALSE)
                   /\ UNCHANGED spoilt

Init == /\ \E flag \in {"buf", "buffer"} : b = Null(flag)
        /\ spoilt = FALSE
        /\ res = Result("none", 0)

Next == \/ \E s \in Texts, fails \in Failures :
             \/ \E offset \in Offsets : DoSetRange(offset, s, fails)
             \/ DoAppend(s, fails) \/ DoSprintf(s, fails) \/ DoNew(s, fails)
        \/ \E x \in Offsets :
             DoTruncate(x) \/ \E y \in Offsets, fails \in Failures : DoGetRange(x, y, fails)
        \/ DoReset \/ DoFree

Spec == Init /\ [][Next]_vars

-----------------------------------------------------------------------------
(* Properties *)

HasBlock == b.p \in {"buf", "heap"}
Sound    == b.ok /\ ~spoilt

\* While append_sprintf has not broken the buffer, alloc is the size of the block,
\* the text lies inside, and a NUL follows it there, whatever was written where,
\* cut off the front, where kvs_buf_truncate does not move the NUL, or refused for
\* want of memory (kvs_str.c:57, 79-125).
InBlock ==
  Sound => IF HasBlock
           THEN /\ DOMAIN b.mem = 0..b.alloc - 1 /\ b.len < b.alloc
                /\ b.len > 0 => \E j \in b.len..b.alloc - 1 : b.mem[j] = NUL
           ELSE b.p = "null" => b.len = 0

\* Until a call breaks it, a buffer is the text that was put together, and a call
\* that fails leaves it as it was; a buffer with a text in it is broken by
\* kvs_buf_truncate and kvs_buf_append_sprintf only (kvs_str.c:57, 63-132, 158,
\* 190-214).
Contents == [j \in 1..b.len |-> b.mem[j - 1]]
Text == INSTANCE KvsText WITH text <- IF Sound /\ HasBlock THEN Contents ELSE <<>>,
                              sound <- Sound
ImplementsText == Text!Spec
==============================================================================
