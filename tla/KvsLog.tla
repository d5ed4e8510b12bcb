------------------------------- MODULE KvsLog -------------------------------
(***************************************************************************)
(* The log of kvs_log.c, written to by several threads: each call formats  *)
(* its line, into an array of its own or a block made to measure, and      *)
(* gives it to write, under the lock if the log has KVS_LOG_ATOMIC.  The   *)
(* kernel takes the bytes of a write in pieces and may take them in part.  *)
(* A line is a number of bytes of title and one of text.                   *)
(***************************************************************************)
EXTENDS Integers, Sequences, FiniteSets

CONSTANTS Thread,
          BufSize,     \* BUF_SIZE, 1024 in kvs_log.h
          Titles, Texts, \* how long titles and texts are
          MaxCalls,    \* bound: calls per thread
          Atomic,      \* flags = KVS_LOG_ATOMIC
          AllocFails,  \* whether malloc may return NULL
          Nobody       \* the holder of a free lock

LogAssumption == /\ BufSize \in Nat \ {0} /\ MaxCalls \in Nat
                        /\ Titles \subseteq Nat /\ Texts \subseteq Nat
                        /\ Atomic \in BOOLEAN /\ AllocFails \in BOOLEAN /\ Nobody \notin Thread

VARIABLES pc,    \* "idle", "format", "lock", "write", "unlock", "return"
          title, text, \* the line of the call
          size,  \* buffer_size
          place, \* where p points: "array", "heap", "null"
          right, \* how many bytes at p are those of the line
          done,  \* how many of them write has taken
          short, \* history: write took less than it was given
          calls, \* history: how many calls a thread began
          lock,  \* log->lock
          out,   \* the output, as pieces of lines
          status \* "ok"; "fault": NULL was written to; "overrun": behind the array

vars == <<pc, title, text, size, place, right, done, short, calls, lock, out, status>>
entry == <<title, text, calls>>
block == <<size, place, right>>

Length(t) == title[t] + text[t]
Begun(t) == [who |-> t, call |-> calls[t]]

Init == /\ pc = [t \in Thread |-> "idle"]
        /\ title = [t \in Thread |-> 0] /\ text = [t \in Thread |-> 0]
        /\ size = [t \in Thread |-> BufSize] /\ place = [t \in Thread |-> "array"]
        /\ right = [t \in Thread |-> 0] /\ done = [t \in Thread |-> 0]
        /\ short = [t \in Thread |-> FALSE] /\ calls = [t \in Thread |-> 0]
        /\ lock = Nobody /\ out = <<>> /\ status = "ok"

\* A call for a level that is logged; others return at once.
Call(t, ti, te) ==
  /\ pc[t] = "idle" /\ calls[t] < MaxCalls
  /\ title' = [title EXCEPT ![t] = ti] /\ text' = [text EXCEPT ![t] = te]
  /\ size' = [size EXCEPT ![t] = BufSize] /\ place' = [place EXCEPT ![t] = "array"]
  /\ right' = [right EXCEPT ![t] = 0] /\ done' = [done EXCEPT ![t] = 0]
  /\ short' = [short EXCEPT ![t] = FALSE]
  /\ calls' = [calls EXCEPT ![t] = @ + 1]
  /\ pc' = [pc EXCEPT ![t] = "format"]
  /\ UNCHANGED <<lock, out, status>>

\* There is room for the terminator, too.
Fits(t) == Length(t) < size[t]

\* What snprintf and vsnprintf leave at p.
Formatted(t) == IF Length(t) < size[t] THEN Length(t) ELSE size[t] - 1

\* The room for the text is taken for a huge one when the title has left none.
Overruns(t) == title[t] > size[t]

Ready == IF Atomic THEN "lock" ELSE "write"

\* One round of the loop.
Format(t) ==
  /\ pc[t] = "format" /\ place[t] # "null" /\ ~Overruns(t)
  /\ right' = [right EXCEPT ![t] = Formatted(t)]
  /\ IF Fits(t)
     THEN pc' = [pc EXCEPT ![t] = Ready] /\ UNCHANGED <<size, place>>
     ELSE /\ size' = [size EXCEPT ![t] = Length(t) + 1]
          /\ \E p \in {"heap"} \cup (IF AllocFails THEN {"null"} ELSE {}) :
               place' = [place EXCEPT ![t] = p]
          /\ UNCHANGED pc
  /\ UNCHANGED <<entry, done, short, lock, out, status>>

FormatFails(t) ==
  /\ pc[t] = "format" /\ (place[t] = "null" \/ Overruns(t))
  /\ status' = IF place[t] = "null" THEN "fault" ELSE "overrun"
  /\ UNCHANGED <<entry, block, pc, done, short, lock, out>>

\* Mutant of Obtainable: the lock is not waited for.
ObtainableAlways == TRUE

Obtainable == lock = Nobody

Lock(t) ==
  /\ pc[t] = "lock" /\ Obtainable
  /\ lock' = t
  /\ pc' = [pc EXCEPT ![t] = "write"]
  /\ UNCHANGED <<entry, block, done, short, out, status>>

\* The kernel takes k bytes of the write under way.
Write(t, k) ==
  /\ pc[t] = "write" /\ k \in 1..Length(t) - done[t]
  /\ done' = [done EXCEPT ![t] = @ + k]
  /\ out' = Append(out, [of |-> Begun(t), bytes |-> k])
  /\ UNCHANGED <<entry, block, pc, short, lock, status>>

Unlocking == IF Atomic THEN "unlock" ELSE "return"

\* write returns, with all bytes taken or not: its result is not looked at.
WriteReturns(t) ==
  /\ pc[t] = "write"
  /\ short' = [short EXCEPT ![t] = done[t] < Length(t)]
  /\ pc' = [pc EXCEPT ![t] = Unlocking]
  /\ UNCHANGED <<entry, block, done, lock, out, status>>

Unlock(t) ==
  /\ pc[t] = "unlock"
  /\ lock' = Nobody
  /\ pc' = [pc EXCEPT ![t] = "return"]
  /\ UNCHANGED <<entry, block, done, short, out, status>>

Freed(p) == IF p = "heap" THEN "array" ELSE p

Return(t) ==
  /\ pc[t] = "return"
  /\ place' = [place EXCEPT ![t] = Freed(@)]
  /\ pc' = [pc EXCEPT ![t] = "idle"]
  /\ UNCHANGED <<entry, size, right, done, short, lock, out, status>>

Step(t) == \/ Format(t) \/ FormatFails(t) \/ Lock(t) \/ Unlock(t) \/ Return(t)
           \/ WriteReturns(t) \/ \E k \in 1..Length(t) : Write(t, k)

Next == /\ status = "ok"
        /\ \E t \in Thread : Step(t) \/ \E ti \in Titles, te \in Texts : Call(t, ti, te)

Spec == Init /\ [][Next]_vars

-----------------------------------------------------------------------------
(* Properties *)

\* With KVS_LOG_ATOMIC the pieces of a line are not parted by those of another,
\* however the kernel cuts the writes; and a line that write took is the whole line,
\* without the terminator or a byte that nobody formatted.  A call overruns its array
\* only with a title longer than it, and writes to NULL only when a line that does not
\* fit finds no memory (kvs_log.c:97-117).
LinesStayWhole ==
  /\ Atomic => \A i, j, k \in DOMAIN out :
                 i < j /\ j < k /\ out[i].of = out[k].of => out[j].of = out[i].of
  /\ \A t \in Thread :
       /\ pc[t] = "write" => right[t] = Length(t)
       /\ pc[t] = "idle" /\ calls[t] > 0 /\ ~short[t] => done[t] = Length(t)
  /\ status = "overrun" => \E t \in Thread : title[t] > BufSize
  /\ status = "fault" => \E t \in Thread : Length(t) >= BufSize
=============================================================================
