--------------------------- MODULE KvsTextsProofs ---------------------------
(***************************************************************************)
(* What is proved of the places where text is put into an array of a fixed *)
(* size, for every size: the lines of the log (KvsLog), the growing        *)
(* buffers of kvs_str.c (KvsBuf), the answers the client prints (KvsCli),  *)
(* the words it makes of a line (KvsSplit) and the requests it makes of    *)
(* the words (KvsMarshal); at the end, the same of KvsTexts, where they    *)
(* are side by side.                                                       *)
(***************************************************************************)
EXTENDS KvsTexts, SequenceTheorems, WellFoundedInduction, TLAPS

CONSTANTS Char  \* what the texts of buffers are made of
-----------------------------------------------------------------------------
(***************************************************************************)
(* The log.  A line's room is the array, or a block made to measure for a  *)
(* line that does not fit; the pieces of the line that is being written    *)
(* are the last of the output, which only the holder of the lock adds to.  *)
(***************************************************************************)
Piece == [of: [who: Thread, call: Nat], bytes: Nat]

LogTyping ==
  /\ logAt \in [Thread -> {"idle", "format", "lock", "write", "unlock", "return"}]
  /\ title \in [Thread -> Nat] /\ text \in [Thread -> Nat] /\ size \in [Thread -> Nat]
  /\ place \in [Thread -> {"array", "heap", "null"}]
  /\ right \in [Thread -> Int] /\ done \in [Thread -> Nat] /\ partly \in [Thread -> BOOLEAN]
  /\ calls \in [Thread -> Nat] /\ lock \in Thread \cup {Nobody}
  /\ log \in Seq(Piece)
  /\ logStatus \in {"ok", "fault", "overrun"}

\* The line of a call and the block it is put into.
Measured(t) ==
  /\ \/ size[t] = BufSize
     \/ Log!Length(t) >= BufSize /\ size[t] = Log!Length(t) + 1
  /\ place[t] = "null" => Log!Length(t) >= BufSize
  /\ logAt[t] \in {"lock", "write"} => right[t] = Log!Length(t)
  /\ done[t] <= Log!Length(t)
  /\ logAt[t] \in {"unlock", "return"} \/ (logAt[t] = "idle" /\ calls[t] > 0)
       => partly[t] = (done[t] < Log!Length(t))

\* The lock is held from kvs_log's lock to its unlock.
Held(t) == lock = t <=> logAt[t] \in {"write", "unlock"}

\* The pieces in the output are of calls that got as far as write.
Written == \A i \in DOMAIN log :
             LET o == log[i].of
             IN /\ o.call <= calls[o.who]
                /\ logAt[o.who] \in {"format", "lock"} => o.call < calls[o.who]

\* What is written last is not followed by another line's pieces.
AtTheEnd(t) == logAt[t] = "write" =>
                 \A i, j \in DOMAIN log : i < j /\ log[i].of = Log!Begun(t) => log[j].of = Log!Begun(t)

Contiguous == \A i, j, k \in DOMAIN log :
                i < j /\ j < k /\ log[i].of = log[k].of => log[j].of = log[i].of

Ends == /\ logStatus = "overrun" => \E t \in Thread : title[t] > BufSize
        /\ logStatus = "fault" => \E t \in Thread : Log!Length(t) >= BufSize

LogInv == /\ LogTyping
          /\ \A t \in Thread : Measured(t)
          /\ Atomic => /\ \A t \in Thread : Held(t) /\ AtTheEnd(t)
                       /\ Written /\ Contiguous
          /\ Ends

\* What a piece of the output is.
LEMMA Pieces ==
  ASSUME LogTyping, NEW i \in DOMAIN log
  PROVE  /\ log[i].of.who \in Thread /\ log[i].of.call \in Nat
         /\ log[i].of = [who |-> log[i].of.who, call |-> log[i].of.call]
<1>1. log[i] \in Piece
  BY DEF LogTyping
<1>2. log[i].of \in [who: Thread, call: Nat]
  BY <1>1 DEF Piece
<1> QED
  BY <1>2

\* Nobody has called yet.
LEMMA LogBegins ==
  ASSUME Log!LogAssumption, Log!Init
  PROVE  LogInv
<1>1. LogTyping
  BY DEF Log!Init, Log!LogAssumption, LogTyping
<1>2. ASSUME NEW t \in Thread
      PROVE  Measured(t) /\ Held(t) /\ AtTheEnd(t)
  BY <1>2 DEF Log!Init, Log!LogAssumption, Measured, Held, AtTheEnd, Log!Length
<1>3. Written /\ Contiguous /\ Ends
  BY DEF Log!Init, Written, Contiguous, Ends
<1> QED
  BY <1>1, <1>2, <1>3 DEF LogInv

\* What a step of one thread leaves alone of the others.
LEMMA OneThread ==
  ASSUME LogInv, NEW t \in Thread,
         Log!Step(t) \/ \E ti \in Titles, te \in Lengths : Log!Call(t, ti, te)
  PROVE  \A u \in Thread \ {t} :
           /\ logAt'[u] = logAt[u] /\ title'[u] = title[u] /\ text'[u] = text[u]
           /\ size'[u] = size[u] /\ place'[u] = place[u] /\ right'[u] = right[u]
           /\ done'[u] = done[u] /\ partly'[u] = partly[u] /\ calls'[u] = calls[u]
<1>1. CASE Log!Step(t)
  BY <1>1 DEF LogInv, LogTyping, Log!Step, Log!Format, Log!FormatFails, Log!Lock, Log!Unlock,
              Log!Return, Log!WriteReturns, Log!Write, Log!entry, Log!block
<1>2. CASE \E ti \in Titles, te \in Lengths : Log!Call(t, ti, te)
  BY <1>2 DEF LogInv, LogTyping, Log!Call
<1> QED
  BY <1>1, <1>2

\* A call: its line is new to the output.
LEMMA CallKeeps ==
  ASSUME Log!LogAssumption, LogInv, NEW t \in Thread, NEW ti \in Titles, NEW te \in Lengths,
         Log!Call(t, ti, te), logStatus = "ok"
  PROVE  LogInv'
<1>1. ti \in Nat /\ te \in Nat /\ BufSize \in Nat
  BY DEF Log!LogAssumption
<1>2. LogTyping'
  BY SMTT(60), <1>1 DEF LogInv, LogTyping, Log!Call
<1>3. /\ logAt[t] = "idle" /\ logAt'[t] = "format" /\ title'[t] = ti /\ text'[t] = te
      /\ size'[t] = BufSize /\ place'[t] = "array" /\ done'[t] = 0
      /\ calls'[t] = calls[t] + 1 /\ lock' = lock /\ log' = log
  BY DEF LogInv, LogTyping, Log!Call
<1>4. \A u \in Thread \ {t} :
           /\ logAt'[u] = logAt[u] /\ title'[u] = title[u] /\ text'[u] = text[u]
           /\ size'[u] = size[u] /\ place'[u] = place[u] /\ right'[u] = right[u]
           /\ done'[u] = done[u] /\ partly'[u] = partly[u] /\ calls'[u] = calls[u]
  BY OneThread
<1>5. ASSUME NEW u \in Thread
      PROVE  Measured(u)'
  <2>1. CASE u = t
    BY <1>1, <1>3, <2>1 DEF Measured, Log!Length
  <2>2. CASE u # t
    BY <1>4, <2>2 DEF LogInv, Measured, Log!Length
  <2> QED
    BY <2>1, <2>2
<1>6. ASSUME Atomic, NEW u \in Thread
      PROVE  Held(u)' /\ AtTheEnd(u)'
  <2>1. CASE u = t
    BY <1>3, <1>6, <2>1 DEF LogInv, Held, AtTheEnd
  <2>2. CASE u # t
    BY <1>3, <1>4, <1>6, <2>2 DEF LogInv, Held, AtTheEnd, Log!Begun
  <2> QED
    BY <2>1, <2>2
<1>7. ASSUME Atomic
      PROVE  Written' /\ Contiguous'
  <2>1. ASSUME NEW i \in DOMAIN log
        PROVE  /\ log[i].of.call <= calls'[log[i].of.who]
               /\ logAt'[log[i].of.who] \in {"format", "lock"} => log[i].of.call < calls'[log[i].of.who]
    <3>1. log[i].of.who \in Thread /\ log[i].of.call \in Nat
      BY Pieces DEF LogInv
    <3>2. /\ log[i].of.call <= calls[log[i].of.who]
          /\ logAt[log[i].of.who] \in {"format", "lock"} => log[i].of.call < calls[log[i].of.who]
      BY <1>7 DEF LogInv, Written
    <3>3. calls[t] \in Nat
      BY DEF LogInv, LogTyping
    <3> QED
      BY <1>3, <1>4, <3>1, <3>2, <3>3
  <2> QED
    BY <1>3, <1>7, <2>1 DEF LogInv, Written, Contiguous
<1>8. Ends'
  BY DEF Ends, Log!Call, LogInv
<1> QED
  BY <1>2, <1>5, <1>6, <1>7, <1>8 DEF LogInv

\* Every step but that of write leaves the output alone: the parts of the invariant
\* that are about one thread follow from those of that thread.
LEMMA SilentKeeps ==
  ASSUME LogInv, LogTyping', NEW t \in Thread, Log!Step(t), log' = log,
         Measured(t)', Ends',
         Atomic => /\ \A u \in Thread : Held(u)' 
                   /\ AtTheEnd(t)'
                   /\ logAt'[t] \in {"format", "lock"} => logAt[t] \in {"format", "lock"}
  PROVE  LogInv'
<1>1. \A u \in Thread \ {t} :
           /\ logAt'[u] = logAt[u] /\ title'[u] = title[u] /\ text'[u] = text[u]
           /\ size'[u] = size[u] /\ place'[u] = place[u] /\ right'[u] = right[u]
           /\ done'[u] = done[u] /\ partly'[u] = partly[u] /\ calls'[u] = calls[u]
  BY OneThread
<1>2. calls' = calls
  BY DEF Log!Step, Log!Format, Log!FormatFails, Log!Lock, Log!Unlock, Log!Return,
         Log!WriteReturns, Log!Write, Log!entry
<1>3. ASSUME NEW u \in Thread
      PROVE  Measured(u)'
  BY <1>1 DEF LogInv, Measured, Log!Length
<1>4. ASSUME Atomic, NEW u \in Thread
      PROVE  AtTheEnd(u)'
  BY <1>1, <1>2, <1>4 DEF LogInv, AtTheEnd, Log!Begun
<1>5. ASSUME Atomic
      PROVE  Written' /\ Contiguous'
  <2>1. \A i \in DOMAIN log : log[i].of.who \in Thread
    BY Pieces DEF LogInv
  <2> QED
    BY <1>1, <1>2, <1>5, <2>1 DEF LogInv, Written, Contiguous
<1> QED
  BY <1>3, <1>4, <1>5 DEF LogInv

\* One round of the loop that formats the line.
LEMMA FormatKeeps ==
  ASSUME Log!LogAssumption, LogInv, NEW t \in Thread, Log!Format(t)
  PROVE  LogInv'
<1>1. /\ BufSize \in Nat \ {0} /\ Atomic \in BOOLEAN
      /\ title[t] \in Nat /\ text[t] \in Nat /\ size[t] \in Nat /\ Log!Length(t) \in Nat
  BY DEF Log!LogAssumption, LogInv, LogTyping, Log!Length
<1>2. Log!Formatted(t) \in Int
  BY <1>1 DEF Log!Formatted
<1>3. /\ logAt[t] = "format" /\ place[t] # "null" /\ ~Log!Overruns(t)
      /\ title' = title /\ text' = text /\ calls' = calls /\ done' = done
      /\ partly' = partly /\ lock' = lock /\ log' = log /\ logStatus' = logStatus
      /\ right' = [right EXCEPT ![t] = Log!Formatted(t)]
  BY DEF Log!Format, Log!entry
<1>4. \/ /\ Log!Fits(t) /\ logAt' = [logAt EXCEPT ![t] = Log!Ready]
         /\ size' = size /\ place' = place
      \/ /\ ~Log!Fits(t) /\ size' = [size EXCEPT ![t] = Log!Length(t) + 1]
         /\ \E p \in {"heap", "null"} : place' = [place EXCEPT ![t] = p]
         /\ logAt' = logAt
  BY DEF Log!Format
<1>5. Log!Ready \in {"lock", "write"} /\ (Atomic => Log!Ready = "lock")
  BY DEF Log!Ready
<1>6. LogTyping'
  <2>1. logAt' \in [Thread -> {"idle", "format", "lock", "write", "unlock", "return"}]
    BY <1>4, <1>5 DEF LogInv, LogTyping
  <2>2. place' \in [Thread -> {"array", "heap", "null"}]
    BY <1>4 DEF LogInv, LogTyping
  <2>3. Log!Length(t) + 1 \in Nat
    BY <1>1
  <2>4. size' \in [Thread -> Nat]
    BY <1>4, <2>3 DEF LogInv, LogTyping
  <2>5. right' \in [Thread -> Int]
    BY <1>2, <1>3 DEF LogInv, LogTyping
  <2> QED
    BY <1>3, <2>1, <2>2, <2>4, <2>5 DEF LogInv, LogTyping
<1>7. Measured(t)'
  <2>1. Log!Length(t)' = Log!Length(t)
    BY <1>3 DEF Log!Length
  <2>2. Log!Length(t) >= size[t] => Log!Length(t) >= BufSize
    BY <1>1 DEF LogInv, Measured
  <2>3. CASE Log!Fits(t)
    <3>1. right'[t] = Log!Length(t)
      BY <1>3, <2>3 DEF Log!Fits, Log!Formatted, LogInv, LogTyping
    <3>2. size' = size /\ place' = place /\ logAt'[t] \in {"lock", "write"}
      BY <1>4, <1>5, <2>3 DEF LogInv, LogTyping
    <3> QED
      BY <1>3, <2>1, <3>1, <3>2 DEF LogInv, Measured
  <2>4. CASE ~Log!Fits(t)
    <3>1. Log!Length(t) >= BufSize
      BY <1>1, <2>2, <2>4 DEF Log!Fits
    <3>2. size'[t] = Log!Length(t) + 1 /\ logAt' = logAt
      BY <1>4, <2>4 DEF LogInv, LogTyping
    <3> QED
      BY <1>3, <2>1, <3>1, <3>2 DEF LogInv, Measured
  <2> QED
    BY <2>3, <2>4
<1>8. Ends'
  BY <1>3 DEF LogInv, Ends, Log!Length
<1>9. ASSUME Atomic
      PROVE  (\A u \in Thread : Held(u)') /\ AtTheEnd(t)'
  BY <1>3, <1>4, <1>5, <1>9 DEF LogInv, LogTyping, Held, AtTheEnd
<1>10. Log!Step(t)
  BY DEF Log!Step
<1> QED
  BY <1>3, <1>6, <1>7, <1>8, <1>9, <1>10, SilentKeeps

\* NULL or a title that leaves no room: the call goes no further.
LEMMA FormatFailsKeeps ==
  ASSUME Log!LogAssumption, LogInv, NEW t \in Thread, Log!FormatFails(t)
  PROVE  LogInv'
<1>1. /\ logAt' = logAt /\ title' = title /\ text' = text /\ size' = size /\ place' = place
      /\ right' = right /\ calls' = calls /\ done' = done
      /\ partly' = partly /\ lock' = lock /\ log' = log
      /\ place[t] = "null" \/ Log!Overruns(t)
      /\ logStatus' = IF place[t] = "null" THEN "fault" ELSE "overrun"
      /\ logAt[t] = "format"
  BY DEF Log!FormatFails, Log!entry, Log!block
<1>2. LogTyping'
  BY <1>1 DEF LogInv, LogTyping
<1>3. Ends'
  <2>1. Log!Length(t)' = Log!Length(t)
    BY <1>1 DEF Log!Length
  <2>2. CASE place[t] = "null"
    <3>1. Log!Length(t) >= BufSize
      BY <2>2 DEF LogInv, Measured
    <3> QED
      BY <1>1, <2>1, <2>2, <3>1 DEF Ends
  <2>3. CASE place[t] # "null"
    <3>1. title[t] \in Nat /\ text[t] \in Nat /\ size[t] \in Nat /\ BufSize \in Nat
      BY DEF LogInv, LogTyping, Log!LogAssumption
    <3>2. title[t] > size[t]
      BY <1>1, <2>3 DEF Log!Overruns
    <3>3. title[t] > BufSize
      BY <3>1, <3>2 DEF LogInv, Measured, Log!Length
    <3> QED
      BY <1>1, <2>3, <3>3 DEF Ends
  <2> QED
    BY <2>2, <2>3
<1>4. Measured(t)' /\ AtTheEnd(t)'
  BY <1>1 DEF LogInv, Measured, Log!Length, AtTheEnd
<1>5. Atomic => \A u \in Thread : Held(u)'
  BY <1>1 DEF LogInv, Held
<1>6. Log!Step(t)
  BY DEF Log!Step
<1> QED
  BY <1>1, <1>2, <1>3, <1>4, <1>5, <1>6, SilentKeeps

\* The lock is had by one thread, whose line has not been begun.
LEMMA LockKeeps ==
  ASSUME Log!LogAssumption, LogInv, NEW t \in Thread, Log!Lock(t)
  PROVE  LogInv'
<1>1. /\ logAt[t] = "lock" /\ lock = Nobody /\ lock' = t
      /\ logAt' = [logAt EXCEPT ![t] = "write"]
      /\ title' = title /\ text' = text /\ size' = size /\ place' = place
      /\ right' = right /\ calls' = calls /\ done' = done
      /\ partly' = partly /\ log' = log /\ logStatus' = logStatus
  BY DEF Log!Lock, Log!Obtainable, Log!entry, Log!block
<1>2. LogTyping' /\ logAt'[t] = "write"
  BY <1>1 DEF LogInv, LogTyping
<1>3. Ends' /\ Measured(t)'
  BY <1>1, <1>2 DEF LogInv, Ends, Measured, Log!Length
<1>4. ASSUME Atomic, NEW u \in Thread
      PROVE  Held(u)'
  BY <1>1, <1>2, <1>4 DEF LogInv, LogTyping, Held, Log!LogAssumption
<1>5. ASSUME Atomic
      PROVE  AtTheEnd(t)'
  <2>1. ASSUME NEW i \in DOMAIN log
        PROVE  log[i].of # Log!Begun(t)
    <3>1. log[i].of.who = t => log[i].of.call < calls[t]
      BY <1>1, <1>5 DEF LogInv, Written
    <3>2. calls[t] \in Nat /\ log[i].of.call \in Nat
      BY Pieces DEF LogInv, LogTyping
    <3> QED
      BY <3>1, <3>2 DEF Log!Begun
  <2> QED
    BY <1>1, <2>1 DEF AtTheEnd, Log!Begun
<1>6. Log!Step(t)
  BY DEF Log!Step
<1> QED
  BY <1>1, <1>2, <1>3, <1>4, <1>5, <1>6, SilentKeeps

\* write returns; the line is whole or `partly` says that it is not.
LEMMA WriteReturnsKeeps ==
  ASSUME Log!LogAssumption, LogInv, NEW t \in Thread, Log!WriteReturns(t)
  PROVE  LogInv'
<1>1. /\ logAt[t] = "write" /\ lock' = lock
      /\ logAt' = [logAt EXCEPT ![t] = Log!Unlocking]
      /\ partly' = [partly EXCEPT ![t] = done[t] < Log!Length(t)]
      /\ title' = title /\ text' = text /\ size' = size /\ place' = place
      /\ right' = right /\ calls' = calls /\ done' = done
      /\ log' = log /\ logStatus' = logStatus
  BY DEF Log!WriteReturns, Log!entry, Log!block
<1>2. Log!Unlocking \in {"unlock", "return"} /\ (Atomic => Log!Unlocking = "unlock")
  BY DEF Log!Unlocking
<1>3. /\ LogTyping'
      /\ logAt'[t] = Log!Unlocking
      /\ partly'[t] = (done[t] < Log!Length(t))
  BY <1>1, <1>2 DEF LogInv, LogTyping
<1>4. Ends' /\ Measured(t)'
  BY <1>1, <1>2, <1>3 DEF LogInv, Ends, Measured, Log!Length
<1>5. ASSUME Atomic
      PROVE  (\A u \in Thread : Held(u)') /\ AtTheEnd(t)'
  BY <1>1, <1>2, <1>3, <1>5 DEF LogInv, LogTyping, Held, AtTheEnd
<1>6. Log!Step(t)
  BY DEF Log!Step
<1> QED
  BY <1>1, <1>2, <1>3, <1>4, <1>5, <1>6, SilentKeeps

\* The lock is given back, the block freed.
LEMMA LeavingKeeps ==
  ASSUME Log!LogAssumption, LogInv, NEW t \in Thread, Log!Unlock(t) \/ Log!Return(t)
  PROVE  LogInv'
<1>1. /\ title' = title /\ text' = text /\ size' = size
      /\ right' = right /\ calls' = calls /\ done' = done
      /\ partly' = partly /\ log' = log /\ logStatus' = logStatus
      /\ place' = [place EXCEPT ![t] = place'[t]]
      /\ place'[t] \in {"array", "heap", "null"} /\ (place'[t] = "null" => place[t] = "null")
  BY DEF LogInv, LogTyping, Log!Unlock, Log!Return, Log!entry, Log!block, Log!Freed
<1>2. \/ /\ logAt[t] = "unlock" /\ logAt' = [logAt EXCEPT ![t] = "return"] /\ lock' = Nobody
      \/ /\ logAt[t] = "return" /\ logAt' = [logAt EXCEPT ![t] = "idle"] /\ lock' = lock
  BY DEF Log!Unlock, Log!Return
<1>3. LogTyping'
  BY <1>1, <1>2 DEF LogInv, LogTyping
<1>4. logAt'[t] \in {"return", "idle"} /\ logAt[t] \in {"unlock", "return"}
  BY <1>2 DEF LogInv, LogTyping
<1>5. Ends' /\ Measured(t)'
  BY <1>1, <1>4 DEF LogInv, Ends, Measured, Log!Length
<1>6. ASSUME Atomic
      PROVE  (\A u \in Thread : Held(u)') /\ AtTheEnd(t)'
  <2>1. AtTheEnd(t)'
    BY <1>4 DEF AtTheEnd
  <2>2. \A u \in Thread : lock = u <=> logAt[u] \in {"write", "unlock"}
    BY <1>6 DEF LogInv, Held
  <2>3. ASSUME NEW u \in Thread
        PROVE  lock' = u <=> logAt'[u] \in {"write", "unlock"}
    <3>1. u # t => logAt'[u] = logAt[u]
      BY <1>2 DEF LogInv, LogTyping
    <3>2. u # Nobody
      BY DEF Log!LogAssumption
    <3>3. CASE logAt[t] = "unlock"
      BY <1>2, <1>4, <2>2, <3>1, <3>2, <3>3
    <3>4. CASE logAt[t] = "return"
      BY <1>2, <1>4, <2>2, <3>1, <3>4
    <3> QED
      BY <1>4, <3>3, <3>4
  <2> QED
    BY <2>1, <2>3 DEF Held
<1>7. Log!Step(t)
  BY DEF Log!Step
<1> QED
  BY <1>1, <1>3, <1>4, <1>5, <1>6, <1>7, SilentKeeps

\* The kernel takes a piece of the line of the lock's holder.
LEMMA WriteKeeps ==
  ASSUME Log!LogAssumption, LogInv, NEW t \in Thread, NEW n \in Nat, Log!Write(t, n)
  PROVE  LogInv'
<1> DEFINE o == Log!Begun(t)
           q == [of |-> o, bytes |-> n]
<1>1. /\ logAt[t] = "write" /\ done' = [done EXCEPT ![t] = @ + n] /\ log' = Append(log, q)
      /\ n \in 1..Log!Length(t) - done[t]
      /\ logAt' = logAt /\ title' = title /\ text' = text /\ size' = size /\ place' = place
      /\ right' = right /\ calls' = calls
      /\ partly' = partly /\ lock' = lock /\ logStatus' = logStatus
  BY DEF Log!Write, Log!entry, Log!block
<1>2. q \in Piece /\ log \in Seq(Piece) /\ calls[t] \in Nat
  BY DEF LogInv, LogTyping, Log!Begun, Piece
<1>3. o.who = t /\ o.call = calls[t] /\ q.of = o
  BY DEF Log!Begun
<1> HIDE DEF o, q
<1>4. /\ DOMAIN log = 1..Len(log) /\ DOMAIN log' = 1..Len(log) + 1 /\ Len(log) \in Nat
      /\ log' \in Seq(Piece)
      /\ \A i \in 1..Len(log) : log'[i] = log[i]
      /\ log'[Len(log) + 1] = q
  BY <1>1, <1>2
<1>5. LogTyping'
  BY SMTT(60), <1>1, <1>4 DEF LogInv, LogTyping
<1>6. ASSUME NEW u \in Thread
      PROVE  Measured(u)'
  <2>1. Log!Length(t) \in Int /\ done[t] \in Nat
    BY DEF LogInv, LogTyping, Log!Length
  <2>2. done'[t] <= Log!Length(t)
    BY <1>1, <2>1 DEF LogInv, LogTyping
  <2>3. Log!Length(u)' = Log!Length(u) /\ (u # t => done'[u] = done[u])
    BY <1>1 DEF LogInv, LogTyping, Log!Length
  <2> QED
    BY <1>1, <2>2, <2>3 DEF LogInv, Measured
<1>7. ASSUME Atomic
      PROVE  (\A u \in Thread : Held(u)' /\ AtTheEnd(u)') /\ Written' /\ Contiguous'
  <2>1. \A u \in Thread : lock = u <=> logAt[u] \in {"write", "unlock"}
    BY <1>7 DEF LogInv, Held
  <2>2. \A u \in Thread : Held(u)'
    BY <1>1, <2>1 DEF Held
  <2>3. \A u \in Thread : logAt[u] = "write" => u = t
    BY <1>1, <2>1
  <2>4. \A i, j \in DOMAIN log : i < j /\ log[i].of = o => log[j].of = o
    BY <1>1, <1>7 DEF LogInv, AtTheEnd, o
  <2>5. \A i, j \in DOMAIN log' : i < j /\ log'[i].of = o => log'[j].of = o
    BY <1>3, <1>4, <2>4
  <2>6. ASSUME NEW u \in Thread
        PROVE  AtTheEnd(u)'
    <3>1. logAt'[u] = "write" => u = t
      BY <1>1, <2>3
    <3>2. o = Log!Begun(t)'
      BY <1>1 DEF Log!Begun, o
    <3> QED
      BY <2>5, <3>1, <3>2 DEF AtTheEnd
  <2>7. Written'
    <3> SUFFICES ASSUME NEW i \in DOMAIN log'
                 PROVE  /\ log'[i].of.call <= calls[log'[i].of.who]
                        /\ logAt[log'[i].of.who] \in {"format", "lock"}
                             => log'[i].of.call < calls[log'[i].of.who]
      BY <1>1 DEF Written
    <3>1. CASE i = Len(log) + 1
      BY <1>1, <1>2, <1>3, <1>4, <3>1
    <3>2. CASE i # Len(log) + 1
      BY <1>4, <1>7, <3>2 DEF LogInv, Written
    <3> QED
      BY <3>1, <3>2
  <2>8. Contiguous'
    <3> SUFFICES ASSUME NEW i \in DOMAIN log', NEW j \in DOMAIN log', NEW m \in DOMAIN log',
                        i < j, j < m, log'[i].of = log'[m].of
                 PROVE  log'[j].of = log'[i].of
      BY DEF Contiguous
    <3>1. CASE m = Len(log) + 1
      BY <1>3, <1>4, <2>5, <3>1
    <3>2. CASE m # Len(log) + 1
      <4>1. i \in DOMAIN log /\ j \in DOMAIN log /\ m \in DOMAIN log
        BY <1>4, <3>2
      <4>2. Contiguous
        BY <1>7 DEF LogInv
      <4> QED
        BY <1>4, <4>1, <4>2 DEF Contiguous
    <3> QED
      BY <3>1, <3>2
  <2> QED
    BY <2>2, <2>6, <2>7, <2>8
<1>8. Ends'
  BY <1>1 DEF LogInv, Ends, Log!Length
<1> QED
  BY <1>5, <1>6, <1>7, <1>8 DEF LogInv

\* For any number of threads, any array and any lines: with KVS_LOG_ATOMIC no line
\* is parted by another, a line that write took is the whole line, and only a title
\* longer than the array, or a line that does not fit and finds no memory, breaks a
\* call of kvs_log.
THEOREM LogLinesStayWhole ==
  ASSUME Log!LogAssumption
  PROVE  Log!Spec => []Log!LinesStayWhole
<1>1. Log!Init => LogInv
  BY LogBegins
<1>2. LogInv /\ [Log!Next]_Log!vars => LogInv'
  <2> SUFFICES ASSUME LogInv, [Log!Next]_Log!vars
               PROVE  LogInv'
    OBVIOUS
  <2>1. CASE Log!Next
    <3>1. PICK t \in Thread : Log!Step(t) \/ \E ti \in Titles, te \in Lengths : Log!Call(t, ti, te)
      BY <2>1 DEF Log!Next
    <3>2. logStatus = "ok"
      BY <2>1 DEF Log!Next
    <3>3. CASE \E ti \in Titles, te \in Lengths : Log!Call(t, ti, te)
      BY <3>2, <3>3, CallKeeps
    <3>4. CASE \E n \in 1..Log!Length(t) : Log!Write(t, n)
      <4>1. PICK n \in 1..Log!Length(t) : Log!Write(t, n)
        BY <3>4
      <4>2. n \in Nat
        BY DEF LogInv, LogTyping, Log!Length
      <4> QED
        BY <4>1, <4>2, WriteKeeps
    <3> QED
      BY <3>1, <3>3, <3>4, FormatKeeps, FormatFailsKeeps, LockKeeps, WriteReturnsKeeps,
         LeavingKeeps DEF Log!Step
  <2>2. CASE UNCHANGED Log!vars
    BY SMTT(60), <2>2 DEF Log!vars, LogInv, LogTyping, Measured, Held, AtTheEnd, Written, Contiguous, Ends,
                Log!Length, Log!Begun
  <2> QED
    BY <2>1, <2>2
<1>3. LogInv => Log!LinesStayWhole
  <2> SUFFICES ASSUME LogInv
               PROVE  Log!LinesStayWhole
    OBVIOUS
  <2>1. Atomic => Contiguous
    BY DEF LogInv
  <2>2. ASSUME NEW t \in Thread
        PROVE  /\ logAt[t] = "write" => right[t] = Log!Length(t)
               /\ logAt[t] = "idle" /\ calls[t] > 0 /\ ~partly[t] => done[t] = Log!Length(t)
    <3>1. Log!Length(t) \in Int /\ done[t] \in Int
      BY DEF LogInv, LogTyping, Log!Length
    <3>2. /\ logAt[t] = "write" => right[t] = Log!Length(t)
          /\ logAt[t] = "idle" /\ calls[t] > 0 => partly[t] = (done[t] < Log!Length(t))
          /\ done[t] <= Log!Length(t)
      BY DEF LogInv, Measured
    <3>3. logAt[t] = "idle" /\ calls[t] > 0 /\ ~partly[t] => ~(done[t] < Log!Length(t))
      BY <3>2, Zenon
    <3> QED
      BY <3>1, <3>2, <3>3
  <2> QED
    BY <2>1, <2>2 DEF Log!LinesStayWhole, Contiguous, LogInv, Ends
<1> QED
  BY <1>1, <1>2, <1>3, PTL DEF Log!Spec
-----------------------------------------------------------------------------
(***************************************************************************)
(* A buffer.  What a call writes to is a block of alloc bytes that holds   *)
(* the text and has room behind it; the calls that write differ in how     *)
(* they come by that block.                                                *)
(***************************************************************************)
TextsAssumed == Texts \subseteq Seq(Char)

Cell == Char \cup {NUL, Junk}

Blocks == UNION {[0..n - 1 -> Cell] : n \in Nat}

Buffer == [p: {"null", "buf", "heap", "freed"}, flag: {"buf", "buffer"}, len: Nat, alloc: Nat,
           mem: Blocks, ok: BOOLEAN]

Blocked(c) == c.p \in {"buf", "heap"}

\* The text of a buffer that no call has broken.
TextOf(c) == IF Blocked(c) THEN [j \in 1..c.len |-> c.mem[j - 1]] ELSE <<>>

Terminated(c) == c.len > 0 => \E j \in c.len..c.alloc - 1 : c.mem[j] = NUL

Good(c) == /\ c \in Buffer /\ c.ok
           /\ IF Blocked(c)
              THEN c.mem \in [0..c.alloc - 1 -> Cell] /\ c.len < c.alloc /\ Terminated(c)
              ELSE c.p = "null" => c.len = 0

\* q is c with a block to write to.
Opened(c, q) == /\ q \in Buffer /\ q.ok /\ Blocked(q)
                /\ q.mem \in [0..q.alloc - 1 -> Cell] /\ q.len = c.len /\ q.len < q.alloc
                /\ \A j \in 0..q.len - 1 : q.mem[j] = c.mem[j]

\* A block is one of the blocks there are.
LEMMA ABlock ==
  ASSUME NEW n \in Nat, NEW m \in [0..n - 1 -> Cell]
  PROVE  m \in Blocks
BY DEF Blocks

\* A copy into a block that is long enough.
PutAt(r, c, i, s) ==
  /\ r \in Buffer /\ r.mem \in [0..c.alloc - 1 -> Cell]
  /\ r.p = c.p /\ r.len = c.len /\ r.alloc = c.alloc /\ r.flag = c.flag /\ r.ok = c.ok
  /\ \A j \in 0..c.alloc - 1 :
       r.mem[j] = IF j \in i..i + Len(s) - 1 THEN s[j - i + 1] ELSE c.mem[j]

LEMMA PutIs ==
  ASSUME NEW c \in Buffer, c.mem \in [0..c.alloc - 1 -> Cell],
         NEW i \in Nat, NEW s \in Seq(Cell), i + Len(s) <= c.alloc
  PROVE  PutAt(Put(c, i, s), c, i, s)
<1> DEFINE m == [j \in 0..c.alloc - 1 |-> IF j \in i..i + Len(s) - 1 THEN s[j - i + 1] ELSE c.mem[j]]
<1>1. c.alloc \in Nat /\ c.len \in Nat /\ c.p \in {"null", "buf", "heap", "freed"} /\ Len(s) \in Nat
  BY DEF Buffer
<1>2. Holds(c) = 0..c.alloc - 1
  BY DEF Holds
<1>3. i..i + Len(s) - 1 \subseteq Holds(c)
  BY <1>1, <1>2
<1>4. m \in [0..c.alloc - 1 -> Cell]
  <2>1. ASSUME NEW j \in 0..c.alloc - 1
        PROVE  (IF j \in i..i + Len(s) - 1 THEN s[j - i + 1] ELSE c.mem[j]) \in Cell
    <3>1. CASE j \in i..i + Len(s) - 1
      <4>1. j - i + 1 \in 1..Len(s)
        BY <1>1, <3>1
      <4> QED
        BY <3>1, <4>1
    <3>2. CASE j \notin i..i + Len(s) - 1
      BY <3>2
    <3> QED
      BY <3>1, <3>2
  <2> QED
    BY <2>1
<1>5. Put(c, i, s) = [c EXCEPT !.mem = m]
  BY <1>2, <1>3 DEF Put, Holds
<1>6. \A j \in 0..c.alloc - 1 : m[j] = IF j \in i..i + Len(s) - 1 THEN s[j - i + 1] ELSE c.mem[j]
  OBVIOUS
<1> HIDE DEF m
<1> DEFINE w == [c EXCEPT !.p = c.p, !.len = c.len, !.alloc = c.alloc, !.mem = m]
<1>7. [c EXCEPT !.mem = m] = w
  BY DEF Buffer
<1>8. /\ w \in Buffer
      /\ w.p = c.p /\ w.len = c.len /\ w.alloc = c.alloc /\ w.mem = m
      /\ w.flag = c.flag /\ w.ok = c.ok
  <2>1. m \in Blocks
    BY <1>1, <1>4, ABlock
  <2> QED
    BY <1>1, <2>1 DEF Buffer
<1> HIDE DEF w
<1> QED
  BY <1>4, <1>5, <1>6, <1>7, <1>8 DEF PutAt

\* malloc and realloc keep as much of the block as is asked for.
MovedTo(r, c, n, kept) ==
  /\ r \in Buffer /\ r.mem \in [0..n - 1 -> Cell]
  /\ r.p = "heap" /\ r.len = c.len /\ r.alloc = n /\ r.flag = c.flag /\ r.ok = c.ok
  /\ \A j \in 0..n - 1 : j < kept /\ j \in Holds(c) => r.mem[j] = c.mem[j]

LEMMA MovedIs ==
  ASSUME NEW c \in Buffer, NEW n \in Nat, NEW kept
  PROVE  MovedTo(Moved(c, n, kept), c, n, kept)
<1> DEFINE m == [j \in 0..n - 1 |-> IF j < kept /\ j \in Holds(c) THEN c.mem[j] ELSE Junk]
<1>1. \A j \in DOMAIN c.mem : c.mem[j] \in Cell
  BY DEF Buffer, Blocks
<1>2. m \in [0..n - 1 -> Cell]
  BY <1>1 DEF Holds, Cell
<1>3. \A j \in 0..n - 1 : j < kept /\ j \in Holds(c) => m[j] = c.mem[j]
  OBVIOUS
<1>4. Moved(c, n, kept) = [c EXCEPT !.p = "heap", !.alloc = n, !.mem = m]
  BY DEF Moved
<1> HIDE DEF m
<1>5. c.len \in Nat
  BY DEF Buffer
<1> DEFINE w == [c EXCEPT !.p = "heap", !.len = c.len, !.alloc = n, !.mem = m]
<1>6. [c EXCEPT !.p = "heap", !.alloc = n, !.mem = m] = w
  BY DEF Buffer
<1>7. /\ w \in Buffer
      /\ w.p = "heap" /\ w.len = c.len /\ w.alloc = n /\ w.mem = m
      /\ w.flag = c.flag /\ w.ok = c.ok
  <2>1. m \in Blocks
    BY <1>2, ABlock
  <2> QED
    BY <1>5, <2>1 DEF Buffer
<1> HIDE DEF w
<1> QED
  BY <1>2, <1>3, <1>4, <1>6, <1>7 DEF MovedTo

\* The array of a kvs_buffer_t.
LEMMA InArrayIs ==
  ASSUME NEW c \in Buffer
  PROVE  LET r == InArray(c) IN
         /\ r \in Buffer /\ r.mem \in [0..Dsize - 1 -> Cell]
         /\ r.p = "buf" /\ r.len = 0 /\ r.alloc = Dsize /\ r.flag = c.flag /\ r.ok = c.ok
<1>1. Dsize \in Nat /\ 0 \in Nat
  BY DsizeAssumption
<1>2. Block(Dsize) \in [0..Dsize - 1 -> Cell]
  BY DEF Block, Cell
<1> DEFINE m == Block(Dsize)
           w == [c EXCEPT !.p = "buf", !.len = 0, !.alloc = Dsize, !.mem = m]
<1>3. InArray(c) = w
  BY DEF InArray
<1> HIDE DEF m
<1>4. m \in [0..Dsize - 1 -> Cell]
  BY <1>2 DEF m
<1>5. /\ w \in Buffer
      /\ w.p = "buf" /\ w.len = 0 /\ w.alloc = Dsize /\ w.mem = m
      /\ w.flag = c.flag /\ w.ok = c.ok
  <2>1. m \in Blocks
    BY <1>1, <1>4, ABlock
  <2> QED
    BY <1>1, <2>1 DEF Buffer
<1> HIDE DEF w
<1> QED
  BY <1>3, <1>4, <1>5

\* The text is emptied.
LEMMA EmptiedIs ==
  ASSUME NEW c \in Buffer
  PROVE  LET r == [c EXCEPT !.len = 0] IN
         r \in Buffer /\ r.p = c.p /\ r.flag = c.flag /\ r.len = 0 /\ r.alloc = c.alloc
         /\ r.mem = c.mem /\ r.ok = c.ok
BY DEF Buffer

\* A buffer that has a block is open as it is.
LEMMA GoodIsOpen ==
  ASSUME NEW c, Good(c), Blocked(c)
  PROVE  Opened(c, c)
BY DEF Good, Opened

\* The block of the first write.
LEMMA PreparedIs ==
  ASSUME NEW c, Good(c), c.p # "freed", NEW need \in Nat, NEW fails \in BOOLEAN,
         ~(fails /\ c.p = "null" /\ c.flag = "buf")
  PROVE  /\ Opened(c, Prepared(c, need, fails))
         /\ c.p = "null" /\ c.flag = "buf" => Enough(Prepared(c, need, fails), need)
<1>1. c \in Buffer /\ c.ok /\ Dsize \in Nat \ {0}
  BY DsizeAssumption DEF Good
<1>2. CASE c.p # "null"
  <2>1. Blocked(c)
    BY <1>1, <1>2 DEF Buffer, Blocked
  <2> QED
    BY <1>2, <2>1, GoodIsOpen DEF Prepared
<1>3. CASE c.p = "null" /\ c.flag = "buffer"
  <2>1. Prepared(c, need, fails) = InArray(c) /\ c.len = 0
    BY <1>3 DEF Prepared, Good, Blocked
  <2> QED
    BY <1>1, <1>3, <2>1, InArrayIs DEF Opened, Blocked
<1>4. CASE c.p = "null" /\ c.flag = "buf"
  <2> DEFINE e == [c EXCEPT !.len = 0]
             n == IF Dsize > need THEN Dsize ELSE need
  <2>1. Prepared(c, need, fails) = Moved(e, n, 0) /\ c.len = 0
    BY <1>4 DEF Prepared, Good, Blocked
  <2>2. e \in Buffer /\ e.len = 0 /\ e.ok = c.ok
    BY <1>1, EmptiedIs
  <2>3. n \in Nat /\ n >= 1 /\ n >= need
    BY <1>1
  <2> HIDE DEF e, n
  <2> DEFINE r == Moved(e, n, 0)
  <2>4. /\ r \in Buffer /\ r.mem \in [0..n - 1 -> Cell]
        /\ r.p = "heap" /\ r.len = e.len /\ r.alloc = n /\ r.flag = e.flag /\ r.ok = e.ok
        /\ \A j \in 0..n - 1 : j < 0 /\ j \in Holds(e) => r.mem[j] = e.mem[j]
    <3>8. MovedTo(r, e, n, 0)
      BY <2>2, <2>3, MovedIs
    <3> QED BY <3>8 DEF MovedTo
  <2> HIDE DEF r
  <2>5. Prepared(c, need, fails) = r
    BY <2>1 DEF r
  <2>6. Opened(c, r)
    BY <1>1, <2>1, <2>2, <2>3, <2>4 DEF Opened, Blocked
  <2> QED
    BY <2>3, <2>4, <2>5, <2>6 DEF Enough
<1> QED
  BY <1>1, <1>2, <1>3, <1>4 DEF Buffer

\* A larger block with the same text.
LEMMA GrownIs ==
  ASSUME NEW c, NEW q, Opened(c, q), NEW n \in Nat, q.len < n
  PROVE  Opened(c, Grown(q, n)) /\ Grown(q, n).alloc = n
<1> DEFINE kept == IF q.p = "buf" THEN q.len ELSE q.alloc
           r == Moved(q, n, kept)
<1>1. Grown(q, n) = r
  BY DEF Grown
<1>2. /\ q \in Buffer /\ q.len \in Nat /\ q.alloc \in Nat /\ q.len < q.alloc
      /\ Holds(q) = 0..q.alloc - 1
  BY DEF Opened, Buffer, Holds
<1>3. q.len <= kept /\ kept \in Nat
  BY <1>2
<1> HIDE DEF kept
<1>4. /\ r \in Buffer /\ r.mem \in [0..n - 1 -> Cell]
      /\ r.p = "heap" /\ r.len = q.len /\ r.alloc = n /\ r.flag = q.flag /\ r.ok = q.ok
      /\ \A j \in 0..n - 1 : j < kept /\ j \in Holds(q) => r.mem[j] = q.mem[j]
  <2>1. q \in Buffer /\ n \in Nat
    BY <1>2
  <2>2. MovedTo(r, q, n, kept)
    BY <2>1, MovedIs
  <2> QED BY <2>2 DEF MovedTo
<1> HIDE DEF r
<1>5. \A j \in 0..q.len - 1 : r.mem[j] = q.mem[j]
  BY <1>2, <1>3, <1>4
<1>6. Opened(c, r)
  BY <1>4, <1>5 DEF Opened, Blocked
<1> QED
  BY <1>1, <1>4, <1>6

\* The text's bytes.
LEMMA TextIs ==
  ASSUME NEW c, Good(c), c.p # "freed"
  PROVE  /\ TextOf(c) \in Seq(Cell) /\ Len(TextOf(c)) = c.len /\ c.len \in Nat
         /\ \A j \in 1..c.len : TextOf(c)[j] = c.mem[j - 1]
<1>1. c \in Buffer /\ c.len \in Nat /\ c.alloc \in Nat
  BY DEF Good, Buffer
<1>2. CASE Blocked(c)
  <2>1. c.mem \in [0..c.alloc - 1 -> Cell] /\ c.len < c.alloc
    BY <1>2 DEF Good
  <2>2. \A j \in 1..c.len : c.mem[j - 1] \in Cell
    BY <1>1, <2>1
  <2>3. TextOf(c) = [j \in 1..c.len |-> c.mem[j - 1]]
    BY <1>2 DEF TextOf
  <2> QED
    BY <1>1, <2>2, <2>3
<1>3. CASE ~Blocked(c)
  <2>1. c.len = 0 /\ TextOf(c) = <<>>
    BY <1>1, <1>3 DEF Good, TextOf, Blocked, Buffer
  <2> QED
    BY <2>1
<1> QED
  BY <1>2, <1>3

\* Sequences with the same elements.
LEMMA SameText ==
  ASSUME NEW s \in Seq(Cell), NEW t \in Seq(Cell), Len(s) = Len(t),
         \A j \in 1..Len(t) : s[j] = t[j]
  PROVE  s = t
OBVIOUS

\* What a new length makes of a block that ends in a terminator there.
LEMMA EndedIs ==
  ASSUME NEW c \in Buffer, c.ok, Blocked(c), c.mem \in [0..c.alloc - 1 -> Cell],
         NEW n \in Nat, n < c.alloc
  PROVE  LET r == Ended(c, n) IN
         /\ Good(r) /\ Blocked(r) /\ r.p = c.p /\ r.len = n
         /\ \A j \in 0..n - 1 : r.mem[j] = c.mem[j]
<1> DEFINE w == Put(c, n, <<NUL>>)
           r == Ended(c, n)
<1>1. <<NUL>> \in Seq(Cell) /\ Len(<<NUL>>) = 1 /\ <<NUL>>[1] = NUL
  BY DEF Cell
<1>2. c.alloc \in Nat /\ n + Len(<<NUL>>) <= c.alloc
  BY <1>1 DEF Buffer
<1>3. /\ w \in Buffer /\ w.mem \in [0..c.alloc - 1 -> Cell]
      /\ w.p = c.p /\ w.len = c.len /\ w.alloc = c.alloc /\ w.flag = c.flag /\ w.ok = c.ok
      /\ \A j \in 0..c.alloc - 1 :
           w.mem[j] = IF j \in n..n + Len(<<NUL>>) - 1 THEN <<NUL>>[j - n + 1] ELSE c.mem[j]
  <2>8. PutAt(w, c, n, <<NUL>>)
    BY <1>1, <1>2, PutIs
  <2> QED BY <2>8 DEF PutAt
<1>4. r = [w EXCEPT !.len = n]
  BY DEF Ended
<1> HIDE DEF w, r
<1>5. /\ r \in Buffer /\ r.p = c.p /\ r.len = n /\ r.alloc = c.alloc /\ r.mem = w.mem /\ r.ok = c.ok
  BY <1>3, <1>4 DEF Buffer
<1>6. w.mem[n] = NUL
  <2>1. n \in 0..c.alloc - 1 /\ n \in n..n + Len(<<NUL>>) - 1 /\ n - n + 1 = 1
    BY <1>1, <1>2
  <2> QED
    BY <1>1, <1>3, <2>1
<1>7. ASSUME NEW j \in 0..n - 1
      PROVE  w.mem[j] = c.mem[j]
  <2>1. j \in 0..c.alloc - 1 /\ j \notin n..n + Len(<<NUL>>) - 1
    BY <1>2
  <2> QED
    BY <1>3, <2>1
<1>8. Terminated(r)
  <2>1. n \in r.len..r.alloc - 1
    BY <1>2, <1>5
  <2> QED
    BY <1>5, <1>6, <2>1 DEF Terminated
<1>9. Blocked(r)
  BY <1>5 DEF Blocked
<1>10. Good(r)
  BY <1>3, <1>5, <1>8, <1>9 DEF Good
<1>11. \A j \in 0..n - 1 : r.mem[j] = c.mem[j]
  BY <1>5, <1>7
<1> QED
  BY <1>5, <1>9, <1>10, <1>11 DEF r

\* kvs_buf_setrange in a block that is large enough: bytes of the text, or NULs, up to
\* the offset, and then what was written.
LEMMA WriteIs ==
  ASSUME NEW c, NEW g, Good(c), c.p # "freed", Opened(c, g),
         NEW offset \in Nat, NEW s \in Seq(Cell), offset + Len(s) + 1 <= g.alloc
  PROVE  LET r == Ended(Filled(Put(g, offset, s), offset), offset + Len(s)) IN
         Good(r) /\ Blocked(r) /\ TextOf(r) = Text!FirstBytes(TextOf(c), offset) \o s
<1> DEFINE u == Put(g, offset, s)
           v == Filled(u, offset)
           n == offset + Len(s)
           r == Ended(v, n)
           F == Text!FirstBytes(TextOf(c), offset)
<1>1. /\ g \in Buffer /\ g.ok /\ Blocked(g) /\ g.mem \in [0..g.alloc - 1 -> Cell]
      /\ g.len = c.len /\ g.len < g.alloc
      /\ g.alloc \in Nat /\ g.len \in Nat /\ Len(s) \in Nat /\ n \in Nat /\ n < g.alloc
      /\ \A j \in 0..g.len - 1 : g.mem[j] = c.mem[j]
  BY DEF Opened, Buffer
<1>2. g \in Buffer /\ g.mem \in [0..g.alloc - 1 -> Cell] /\ offset + Len(s) <= g.alloc
  BY <1>1
<1> HIDE DEF v, r, F, n
<1>3. /\ u \in Buffer /\ u.mem \in [0..g.alloc - 1 -> Cell]
      /\ u.p = g.p /\ u.len = g.len /\ u.alloc = g.alloc /\ u.flag = g.flag /\ u.ok = g.ok
      /\ \A j \in 0..g.alloc - 1 :
           u.mem[j] = IF j \in offset..offset + Len(s) - 1 THEN s[j - offset + 1] ELSE g.mem[j]
  <2>8. PutAt(u, g, offset, s)
    BY <1>2, PutIs
  <2> QED BY <2>8 DEF PutAt
<1> HIDE DEF u
<1>4. /\ v \in Buffer /\ v.mem \in [0..g.alloc - 1 -> Cell]
      /\ v.p = g.p /\ v.alloc = g.alloc /\ v.ok = g.ok
      /\ \A j \in 0..g.alloc - 1 :
           v.mem[j] = IF j \in g.len..offset - 1 THEN NUL ELSE u.mem[j]
  <2> USE DEF v
  <2>1. CASE u.len < offset
    <3> DEFINE z == NULs(offset - u.len)
    <3>1. offset - u.len \in Nat
      BY <1>1, <1>3, <2>1
    <3>2. /\ z \in Seq(Cell) /\ Len(z) = offset - u.len
          /\ \A j \in 1..Len(z) : z[j] = NUL
      BY <3>1 DEF NULs, Cell
    <3>3. v = Put(u, u.len, z) /\ u.len + Len(z) <= u.alloc
      BY <1>1, <1>3, <2>1, <3>2 DEF Filled, n
    <3> HIDE DEF z, v
    <3> DEFINE x == Put(u, u.len, z)
    <3>4. u.mem \in [0..u.alloc - 1 -> Cell] /\ u.len \in Nat
      BY <1>1, <1>3
    <3>5. /\ x \in Buffer /\ x.mem \in [0..u.alloc - 1 -> Cell]
          /\ x.p = u.p /\ x.len = u.len /\ x.alloc = u.alloc /\ x.flag = u.flag /\ x.ok = u.ok
          /\ \A j \in 0..u.alloc - 1 :
               x.mem[j] = IF j \in u.len..u.len + Len(z) - 1 THEN z[j - u.len + 1] ELSE u.mem[j]
      <4>8. PutAt(x, u, u.len, z)
        BY <1>3, <3>2, <3>3, <3>4, PutIs
      <4> QED BY <4>8 DEF PutAt
    <3> HIDE DEF x
    <3>6. ASSUME NEW j \in 0..g.alloc - 1
          PROVE  x.mem[j] = IF j \in g.len..offset - 1 THEN NUL ELSE u.mem[j]
      <4>1. CASE j \in g.len..offset - 1
        <5> u.len = g.len /\ g.len \in Nat /\ Len(z) = offset - g.len
          BY <1>1, <1>3, <3>2
        <5>1. j \in u.len..u.len + Len(z) - 1 /\ j - u.len + 1 \in 1..Len(z)
          BY SMTT(60), <4>1
        <5>2. x.mem[j] = z[j - u.len + 1]
          BY <1>3, <3>5, <5>1
        <5> QED
          BY <3>2, <4>1, <5>1, <5>2
      <4>2. CASE j \notin g.len..offset - 1
        <5>1. j \notin u.len..u.len + Len(z) - 1
          BY <1>1, <1>3, <3>2, <4>2
        <5> QED
          BY <1>3, <3>5, <4>2, <5>1
      <4> QED
        BY <4>1, <4>2
    <3> QED
      BY <1>3, <3>3, <3>5, <3>6 DEF x
  <2>2. CASE ~(u.len < offset)
    <3>1. v = u
      BY <2>2 DEF Filled
    <3>2. \A j \in 0..g.alloc - 1 : j \notin g.len..offset - 1
      BY <1>1, <1>3, <2>2
    <3> QED
      BY <1>3, <3>1, <3>2
  <2> QED
    BY <2>1, <2>2
<1> HIDE DEF v
<1>5. v.ok /\ Blocked(v) /\ v.mem \in [0..v.alloc - 1 -> Cell] /\ n < v.alloc
  BY <1>1, <1>4 DEF Blocked
<1>6. /\ Good(r) /\ Blocked(r) /\ r.p = v.p /\ r.len = n
      /\ \A j \in 0..n - 1 : r.mem[j] = v.mem[j]
  BY <1>1, <1>4, <1>5, EndedIs DEF r
<1> HIDE DEF r
<1>7. TextOf(c) \in Seq(Cell) /\ Len(TextOf(c)) = g.len /\ \A j \in 1..g.len : TextOf(c)[j] = c.mem[j - 1]
  BY <1>1, TextIs
<1>8. /\ F \in Seq(Cell) /\ Len(F) = offset
      /\ \A j \in 1..offset : F[j] = IF j <= g.len THEN c.mem[j - 1] ELSE NUL
  <2>1. F = [j \in 1..offset |-> IF j <= Len(TextOf(c)) THEN TextOf(c)[j] ELSE NUL]
    BY DEF Text!FirstBytes, F
  <2>2. \A j \in 1..offset : (IF j <= Len(TextOf(c)) THEN TextOf(c)[j] ELSE NUL) \in Cell
    BY <1>1, <1>7 DEF Cell
  <2>3. F \in Seq(Cell) /\ Len(F) = offset
    BY <2>1, <2>2
  <2>4. ASSUME NEW j \in 1..offset
        PROVE  F[j] = IF j <= g.len THEN c.mem[j - 1] ELSE NUL
    <3>1. F[j] = IF j <= g.len THEN TextOf(c)[j] ELSE NUL
      BY <1>7, <2>1
    <3>2. j <= g.len => j \in 1..g.len
      BY <1>1
    <3> QED
      BY <1>7, <3>1, <3>2
  <2> QED
    BY <2>3, <2>4
<1> HIDE DEF F
<1>9. /\ F \o s \in Seq(Cell) /\ Len(F \o s) = n
      /\ \A j \in 1..n : (F \o s)[j] = IF j <= offset THEN F[j] ELSE s[j - offset]
  <2>1. F \o s \in Seq(Cell) /\ Len(F \o s) = offset + Len(s)
    BY <1>8, ConcatProperties
  <2>2. \A j \in 1..Len(F) + Len(s) : (F \o s)[j] = IF j <= Len(F) THEN F[j] ELSE s[j - Len(F)]
    BY <1>8, ConcatProperties
  <2> QED
    BY <1>8, <2>1, <2>2 DEF n
<1>10. r.p # "freed"
  BY <1>6 DEF Blocked
<1>11. TextOf(r) \in Seq(Cell) /\ Len(TextOf(r)) = n /\ \A j \in 1..n : TextOf(r)[j] = r.mem[j - 1]
  BY <1>6, <1>10, TextIs
<1>12. ASSUME NEW j \in 1..n
       PROVE  TextOf(r)[j] = (F \o s)[j]
  <2>1. j - 1 \in 0..n - 1 /\ j - 1 \in 0..g.alloc - 1 /\ j - 1 + 1 = j
    BY <1>1
  <2>2. TextOf(r)[j] = v.mem[j - 1]
    BY <1>6, <1>11, <2>1
  <2>3. CASE j <= g.len /\ j <= offset
    <3>1. j - 1 \notin g.len..offset - 1 /\ j - 1 \notin offset..offset + Len(s) - 1
          /\ j - 1 \in 0..g.len - 1
      BY <1>1, <2>1, <2>3
    <3>2. v.mem[j - 1] = g.mem[j - 1] /\ g.mem[j - 1] = c.mem[j - 1]
      BY <1>1, <1>3, <1>4, <2>1, <3>1
    <3> QED
      BY <1>8, <1>9, <2>2, <2>3, <3>2
  <2>4. CASE ~(j <= g.len) /\ j <= offset
    <3>1. j - 1 \in g.len..offset - 1
      BY <1>1, <2>1, <2>4
    <3> QED
      BY <1>4, <1>8, <1>9, <2>1, <2>2, <2>4, <3>1
  <2>5. CASE ~(j <= offset)
    <3>1. j - 1 \notin g.len..offset - 1 /\ j - 1 \in offset..offset + Len(s) - 1
          /\ j - 1 - offset + 1 = j - offset
      BY <1>1, <2>1, <2>5 DEF n
    <3>2. v.mem[j - 1] = s[j - offset]
      BY <1>3, <1>4, <2>1, <3>1
    <3> QED
      BY <1>9, <2>2, <2>5, <3>2
  <2> QED
    BY <2>3, <2>4, <2>5
<1>13. TextOf(r) = F \o s
  BY <1>9, <1>11, <1>12, SameText
<1> QED
  BY <1>6, <1>13 DEF r, v, u, n, F

\* vsnprintf of a text for which there is room.
LEMMA PrintIs ==
  ASSUME NEW c, NEW q, Good(c), c.p # "freed", Opened(c, q),
         NEW s \in Seq(Cell), Len(s) < q.alloc - q.len
  PROVE  LET r == Counted(Printed(q, s), s) IN
         Good(r) /\ Blocked(r) /\ TextOf(r) = TextOf(c) \o s
<1> DEFINE z == s \o <<NUL>>
           w == Put(q, q.len, z)
           r == [w EXCEPT !.len = @ + Len(s)]
<1>1. /\ q \in Buffer /\ q.ok /\ Blocked(q) /\ q.mem \in [0..q.alloc - 1 -> Cell]
      /\ q.len = c.len /\ q.len < q.alloc
      /\ q.alloc \in Nat /\ q.len \in Nat /\ Len(s) \in Nat
      /\ \A j \in 0..q.len - 1 : q.mem[j] = c.mem[j]
  BY DEF Opened, Buffer
<1>2. Printed(q, s) = w
  BY <1>1 DEF Printed
<1>3. /\ z \in Seq(Cell) /\ Len(z) = Len(s) + 1 /\ z[Len(s) + 1] = NUL
      /\ \A j \in 1..Len(s) : z[j] = s[j]
  <2>1. <<NUL>> \in Seq(Cell)
    BY DEF Cell
  <2> QED
    BY <2>1
<1>4. /\ q \in Buffer /\ q.mem \in [0..q.alloc - 1 -> Cell] /\ q.len \in Nat
      /\ z \in Seq(Cell) /\ q.len + Len(z) <= q.alloc
  BY <1>1, <1>3
<1>5. Counted(Printed(q, s), s) = r
  BY <1>2 DEF Counted
<1> HIDE DEF z, r
<1>6. /\ w \in Buffer /\ w.mem \in [0..q.alloc - 1 -> Cell]
      /\ w.p = q.p /\ w.len = q.len /\ w.alloc = q.alloc /\ w.flag = q.flag /\ w.ok = q.ok
      /\ \A j \in 0..q.alloc - 1 :
           w.mem[j] = IF j \in q.len..q.len + Len(z) - 1 THEN z[j - q.len + 1] ELSE q.mem[j]
  <2>8. PutAt(w, q, q.len, z)
    BY <1>4, PutIs
  <2> QED BY <2>8 DEF PutAt
<1> HIDE DEF w
<1> DEFINE n == q.len + Len(s)
<1>7. /\ r \in Buffer /\ r.p = q.p /\ r.len = n /\ r.alloc = q.alloc /\ r.mem = w.mem /\ r.ok = q.ok
      /\ n \in Nat /\ n < q.alloc
  <2>1. n \in Nat /\ n < q.alloc
    BY <1>1
  <2>2. r = [w EXCEPT !.len = n]
    BY <1>6 DEF r
  <2> HIDE DEF n
  <2>3. r \in Buffer /\ r.p = w.p /\ r.len = n /\ r.alloc = w.alloc /\ r.mem = w.mem /\ r.ok = w.ok
    BY <1>6, <2>1, <2>2 DEF Buffer
  <2> QED
    BY <1>6, <2>1, <2>3
<1>8. Terminated(r)
  <2>1. /\ n \in r.len..r.alloc - 1 /\ n \in 0..q.alloc - 1
        /\ n \in q.len..q.len + Len(z) - 1 /\ n - q.len + 1 = Len(s) + 1
    BY <1>1, <1>3, <1>7
  <2>2. w.mem[n] = NUL
    BY <1>3, <1>6, <2>1
  <2> QED
    BY <1>7, <2>1, <2>2 DEF Terminated
<1>9. Blocked(r) /\ Good(r) /\ r.p # "freed"
  BY <1>1, <1>6, <1>7, <1>8 DEF Good, Blocked
<1>10. TextOf(c) \in Seq(Cell) /\ Len(TextOf(c)) = q.len /\ \A j \in 1..q.len : TextOf(c)[j] = c.mem[j - 1]
  BY <1>1, TextIs
<1>11. TextOf(r) \in Seq(Cell) /\ Len(TextOf(r)) = n /\ \A j \in 1..n : TextOf(r)[j] = r.mem[j - 1]
  BY <1>7, <1>9, TextIs
<1> DEFINE t == TextOf(c) \o s
<1>12. /\ t \in Seq(Cell) /\ Len(t) = n
       /\ \A j \in 1..n : t[j] = IF j <= q.len THEN TextOf(c)[j] ELSE s[j - q.len]
  <2>1. t \in Seq(Cell) /\ Len(t) = Len(TextOf(c)) + Len(s)
    BY <1>10, ConcatProperties
  <2>2. \A j \in 1..Len(TextOf(c)) + Len(s) :
          t[j] = IF j <= Len(TextOf(c)) THEN TextOf(c)[j] ELSE s[j - Len(TextOf(c))]
    BY <1>10, ConcatProperties
  <2> QED
    BY <1>10, <2>1, <2>2
<1> HIDE DEF t, n
<1>13. ASSUME NEW j \in 1..n
       PROVE  TextOf(r)[j] = t[j]
  <2>1. j - 1 \in 0..q.alloc - 1
    BY <1>1, <1>7
  <2>2. TextOf(r)[j] = w.mem[j - 1]
    BY <1>7, <1>11
  <2>3. CASE j <= q.len
    <3>1. j - 1 \notin q.len..q.len + Len(z) - 1 /\ j - 1 \in 0..q.len - 1 /\ j \in 1..q.len
      BY <1>1, <2>1, <2>3
    <3>2. w.mem[j - 1] = q.mem[j - 1] /\ q.mem[j - 1] = c.mem[j - 1]
      BY <1>1, <1>6, <2>1, <3>1
    <3> QED
      BY <1>10, <1>12, <2>2, <2>3, <3>1, <3>2
  <2>4. CASE ~(j <= q.len)
    <3>1. /\ j - 1 \in q.len..q.len + Len(z) - 1 /\ j - 1 - q.len + 1 = j - q.len
          /\ j - q.len \in 1..Len(s)
      BY <1>1, <1>3, <1>7, <2>4 DEF n
    <3>2. w.mem[j - 1] = s[j - q.len]
      BY <1>3, <1>6, <2>1, <3>1
    <3> QED
      BY <1>12, <2>2, <2>4, <3>2
  <2> QED
    BY <2>3, <2>4
<1>14. TextOf(r) = t
  BY <1>11, <1>12, <1>13, SameText
<1> QED
  BY <1>5, <1>9, <1>14 DEF t

\* What is printed into the old block, before a larger one is had, leaves the text.
LEMMA CutIs ==
  ASSUME NEW c, NEW q, Opened(c, q), NEW s \in Seq(Cell), ~Accepted(q, s)
  PROVE  Opened(c, Printed(q, s)) /\ Printed(q, s).len = q.len
<1> DEFINE room == q.alloc - q.len
           x == SubSeq(s, 1, room - 1)
           z == x \o <<NUL>>
           w == Put(q, q.len, z)
<1>1. /\ q \in Buffer /\ q.ok /\ Blocked(q) /\ q.mem \in [0..q.alloc - 1 -> Cell]
      /\ q.len = c.len /\ q.len < q.alloc
      /\ q.alloc \in Nat /\ q.len \in Nat /\ Len(s) \in Nat
      /\ \A j \in 0..q.len - 1 : q.mem[j] = c.mem[j]
  BY DEF Opened, Buffer
<1>2. Len(s) >= q.alloc
  BY <1>1 DEF Accepted
<1>3. Printed(q, s) = w /\ room \in Nat /\ room >= 1 /\ Len(s) >= room
  BY <1>1, <1>2 DEF Printed
<1> HIDE DEF room
<1>4. x \in Seq(Cell) /\ Len(x) = room - 1
  BY <1>1, <1>3
<1> HIDE DEF x
<1>5. z \in Seq(Cell) /\ Len(z) = room
  <2>1. <<NUL>> \in Seq(Cell)
    BY DEF Cell
  <2> QED
    BY <1>3, <1>4, <2>1
<1>6. q.len + Len(z) <= q.alloc
  BY <1>1, <1>5 DEF room
<1> HIDE DEF z
<1>7. /\ w \in Buffer /\ w.mem \in [0..q.alloc - 1 -> Cell]
      /\ w.p = q.p /\ w.len = q.len /\ w.alloc = q.alloc /\ w.flag = q.flag /\ w.ok = q.ok
      /\ \A j \in 0..q.alloc - 1 :
           w.mem[j] = IF j \in q.len..q.len + Len(z) - 1 THEN z[j - q.len + 1] ELSE q.mem[j]
  <2>8. PutAt(w, q, q.len, z)
    BY <1>1, <1>5, <1>6, PutIs
  <2> QED BY <2>8 DEF PutAt
<1> HIDE DEF w
<1>8. ASSUME NEW j \in 0..q.len - 1
      PROVE  w.mem[j] = c.mem[j]
  <2>1. j \in 0..q.alloc - 1 /\ j \notin q.len..q.len + Len(z) - 1
    BY <1>1
  <2> QED
    BY <1>1, <1>7, <2>1
<1>9. Opened(c, w)
  BY <1>1, <1>7, <1>8 DEF Opened, Blocked
<1> QED
  BY <1>3, <1>7, <1>9

\* A first array, or block, has no text yet.
LEMMA OpenAndEmpty ==
  ASSUME NEW c, NEW q, Opened(c, q), q.len = 0
  PROVE  Good(q) /\ TextOf(q) = <<>>
<1>1. q.alloc \in Nat
  BY DEF Opened, Buffer
<1>2. Good(q)
  BY <1>1 DEF Opened, Good, Terminated
<1>3. TextOf(q) = [j \in 1..0 |-> q.mem[j - 1]]
  BY DEF TextOf, Opened
<1> QED
  BY <1>2, <1>3

\* A buffer that is broken stays so, whatever is written.
Failed(c) == "ok" \in DOMAIN c /\ ~c.ok

LEMMA FailedStays ==
  ASSUME NEW c, Failed(c)
  PROVE  /\ \A i, s : Failed(Put(c, i, s))
         /\ \A n : Failed([c EXCEPT !.len = n])
BY DEF Failed, Put, Broken

\* The array of a kvs_buffer_t is there without malloc.
LEMMA ArrayOrNot ==
  ASSUME NEW c, Good(c), c.flag # "buf", NEW need, NEW fails
  PROVE  Prepared(c, need, fails) = Prepared(c, need, FALSE)
<1>1. c.flag = "buffer"
  BY DEF Good, Buffer
<1>2. CASE c.p # "null"
  BY <1>2 DEF Prepared
<1>3. CASE c.p = "null"
  BY <1>1, <1>3 DEF Prepared
<1> QED
  BY <1>2, <1>3

\* kvs_buf_setrange fails and leaves the text, writes, or runs into the missing
\* first block of a kvs_buf_t.
LEMMA SetRangeIs ==
  ASSUME NEW c, Good(c), c.p # "freed", NEW offset \in Int, NEW s \in Seq(Cell),
         NEW fails \in BOOLEAN
  PROVE  LET r == SetRange(c, offset, s, fails)
             f == SetRangeFails(c, offset, s, fails)
         IN \/ f /\ Good(r) /\ TextOf(r) = TextOf(c)
            \/ ~f /\ ~r.ok /\ c.p = "null"
            \/ ~f /\ offset \in Nat /\ Good(r) /\ TextOf(r) = Text!FirstBytes(TextOf(c), offset) \o s
<1> DEFINE need == offset + Len(s) + 1
           q == Prepared(c, need, fails)
           n == IF need < 2 * q.alloc THEN 2 * q.alloc ELSE need
           g == IF Enough(q, need) THEN q ELSE Grown(q, n)
           w == Ended(Filled(Put(g, offset, s), offset), offset + Len(s))
           r == SetRange(c, offset, s, fails)
           f == SetRangeFails(c, offset, s, fails)
<1>1. CASE offset < 0
  BY <1>1 DEF SetRange, SetRangeFails
<1>2. CASE ~(offset < 0)
  <2>1. offset \in Nat /\ need \in Nat /\ need >= 1 /\ Len(s) \in Nat
    BY <1>2
  <2>2. r = IF ~Enough(q, need) /\ fails THEN q ELSE w
    BY <1>2 DEF SetRange
  <2>3. f <=> fails /\ ~Enough(Prepared(c, need, FALSE), need)
    BY <1>2 DEF SetRangeFails
  <2> HIDE DEF need, w, n, r, f
  <2>4. CASE fails /\ c.p = "null" /\ c.flag = "buf"
    <3>1. Enough(Prepared(c, need, FALSE), need)
      BY <2>1, <2>4, PreparedIs
    <3>2. q = Broken(c)
      BY <2>4 DEF Prepared
    <3>3. Failed(q)
      BY <3>2 DEF Broken, Failed, Good, Buffer
    <3> HIDE DEF q
    <3>4. Failed(w)
      <4>1. CASE Enough(q, need)
        <5>1. g = q
          BY <4>1
        <5> HIDE DEF g
        <5>2. Failed(Put(g, offset, s))
          BY <3>3, <5>1, FailedStays
        <5>3. Failed(Filled(Put(g, offset, s), offset))
          BY <5>2, FailedStays DEF Filled
        <5> QED
          BY <5>3, FailedStays DEF Ended, w
      <4>2. CASE ~Enough(q, need)
        <5>1. Failed(Grown(q, n))
          BY <3>3 DEF Grown, Moved, Failed
        <5>2. g = Grown(q, n)
          BY <4>2
        <5> HIDE DEF g
        <5>3. Failed(Put(g, offset, s))
          BY <5>1, <5>2, FailedStays
        <5>4. Failed(Filled(Put(g, offset, s), offset))
          BY <5>3, FailedStays DEF Filled
        <5> QED
          BY <5>4, FailedStays DEF Ended, w
      <4> QED
        BY <4>1, <4>2
    <3>5. ~r.ok /\ ~f
      BY <2>2, <2>3, <3>1, <3>3, <3>4 DEF Failed
    <3> QED
      BY <2>4, <3>5 DEF r, f
  <2>5. CASE ~(fails /\ c.p = "null" /\ c.flag = "buf")
    <3>1. Opened(c, q) /\ (c.p = "null" /\ c.flag = "buf" => Enough(q, need))
      BY <2>1, <2>5, PreparedIs
    <3>2. q = Prepared(c, need, FALSE)
      <4>1. CASE ~fails
        BY <4>1 DEF Prepared
      <4>2. CASE c.p # "null"
        BY <4>2 DEF Prepared
      <4>3. CASE c.p = "null" /\ c.flag # "buf"
        BY <4>3, ArrayOrNot
      <4> QED
        BY <2>5, <4>1, <4>2, <4>3
    <3>3. f <=> fails /\ ~Enough(q, need)
      BY <2>3, <3>2
    <3>4. CASE fails /\ ~Enough(q, need)
      <4>1. r = q
        BY <2>2, <3>4
      <4>2. CASE c.p = "null"
        <5>1. c.len = 0 /\ TextOf(c) = <<>>
          BY <4>2 DEF Good, Blocked, TextOf
        <5>2. q.len = 0
          BY <3>1, <5>1 DEF Opened
        <5> QED
          BY <3>1, <3>3, <3>4, <4>1, <5>1, <5>2, OpenAndEmpty DEF r, f
      <4>3. CASE c.p # "null"
        <5>1. q = c
          BY <4>3 DEF Prepared
        <5> QED
          BY <3>3, <3>4, <4>1, <5>1 DEF r, f
      <4> QED
        BY <4>2, <4>3
    <3>5. CASE ~(fails /\ ~Enough(q, need))
      <4>1. Opened(c, g) /\ need <= g.alloc
        <5>1. CASE Enough(q, need)
          BY <3>1, <5>1 DEF Enough
        <5>2. CASE ~Enough(q, need)
          <6>1. q.alloc \in Nat /\ q.len \in Nat /\ q.len < q.alloc /\ q.alloc < need
            BY <2>1, <3>1, <5>2 DEF Opened, Buffer, Enough
          <6>2. n \in Nat /\ q.len < n /\ need <= n
            BY <2>1, <6>1 DEF n
          <6>3. g = Grown(q, n)
            BY <5>2
          <6> HIDE DEF g, q
          <6>4. Opened(c, Grown(q, n)) /\ Grown(q, n).alloc = n
            BY <3>1, <6>2, GrownIs
          <6> QED
            BY <6>2, <6>3, <6>4
        <5> QED
          BY <5>1, <5>2
      <4>2. r = w /\ ~f
        BY <2>2, <3>3, <3>5
      <4> HIDE DEF g, q
      <4>3. Good(w) /\ Blocked(w) /\ TextOf(w) = Text!FirstBytes(TextOf(c), offset) \o s
        <5>1. offset + Len(s) + 1 <= g.alloc
          BY <4>1 DEF need
        <5> QED
          BY <2>1, <4>1, <5>1, WriteIs DEF w
      <4> QED
        BY <2>1, <4>2, <4>3 DEF r, f
    <3> QED
      BY <3>4, <3>5
  <2> QED
    BY <2>4, <2>5
<1> QED
  BY <1>1, <1>2

\* What the first vsnprintf finds.
LEMMA ReadyIs ==
  ASSUME NEW c, Good(c), c.p # "freed"
  PROVE  Opened(c, Ready(c)) /\ (c.p = "null" => Ready(c).alloc = Dsize /\ Ready(c).len = 0)
<1>1. c \in Buffer /\ c.ok /\ Dsize \in Nat \ {0}
  BY DsizeAssumption DEF Good
<1>2. CASE c.p # "null"
  <2>1. Blocked(c)
    BY <1>1, <1>2 DEF Buffer, Blocked
  <2> QED
    BY <1>2, <2>1, GoodIsOpen DEF Ready
<1>3. CASE c.p = "null" /\ c.flag = "buffer"
  <2>1. Ready(c) = InArray(c) /\ c.len = 0
    BY <1>3 DEF Ready, Good, Blocked
  <2> QED
    BY <1>1, <1>3, <2>1, InArrayIs DEF Opened, Blocked
<1>4. CASE c.p = "null" /\ c.flag = "buf"
  <2> DEFINE e == [c EXCEPT !.len = 0]
             n == Dsize
             r == Moved(e, n, 0)
  <2>1. Ready(c) = r /\ c.len = 0
    BY <1>4 DEF Ready, Good, Blocked
  <2>2. e \in Buffer /\ e.len = 0 /\ e.ok = c.ok
    BY <1>1, EmptiedIs
  <2>3. n \in Nat /\ n >= 1
    BY <1>1
  <2>4. n = Dsize
    OBVIOUS
  <2> HIDE DEF e, n
  <2>5. /\ r \in Buffer /\ r.mem \in [0..n - 1 -> Cell]
        /\ r.p = "heap" /\ r.len = e.len /\ r.alloc = n /\ r.flag = e.flag /\ r.ok = e.ok
        /\ \A j \in 0..n - 1 : j < 0 /\ j \in Holds(e) => r.mem[j] = e.mem[j]
    <3>8. MovedTo(r, e, n, 0)
      BY <2>2, <2>3, MovedIs
    <3> QED BY <3>8 DEF MovedTo
  <2> HIDE DEF r
  <2> QED
    BY <1>1, <2>1, <2>2, <2>3, <2>4, <2>5 DEF Opened, Blocked
<1> QED
  BY <1>1, <1>2, <1>3, <1>4 DEF Buffer

\* kvs_buf_append_sprintf breaks the buffer, fails and leaves the text, or appends.
LEMMA SprintfIs ==
  ASSUME NEW c, Good(c), c.p # "freed", NEW s \in Seq(Cell), NEW fails \in BOOLEAN,
         ~Spoils(c, s, fails)
  PROVE  LET r == Sprintf(c, s, fails)
             f == SprintfFails(c, s, fails)
         IN /\ Good(r)
            /\ TextOf(r) = IF f THEN TextOf(c) ELSE TextOf(c) \o s
<1> DEFINE q == Ready(c)
           a == q.len + Len(s) + 1
           r == Sprintf(c, s, fails)
           f == SprintfFails(c, s, fails)
<1>1. Opened(c, q) /\ (c.p = "null" => q.alloc = Dsize /\ q.len = 0)
  BY ReadyIs
<1>2. q.alloc \in Nat /\ q.len \in Nat /\ q.len < q.alloc /\ Len(s) \in Nat
  BY <1>1 DEF Opened, Buffer
<1>3. IF Accepted(q, s) THEN Fits(q, s) ELSE ~fails
  BY DEF Spoils
<1>4. f <=> fails /\ (~Accepted(q, s) \/ (c.p = "null" /\ c.flag = "buf"))
  BY DEF SprintfFails
<1>5. CASE c.p = "null" /\ c.flag = "buf" /\ fails
  <2>1. r = [c EXCEPT !.len = 0, !.alloc = Dsize] /\ f
    BY <1>4, <1>5 DEF Sprintf
  <2> HIDE DEF q, a, r, f
  <2>2. r \in Buffer /\ r.p = "null" /\ r.len = 0 /\ r.ok = c.ok
    <3>1. c \in Buffer /\ Dsize \in Nat /\ 0 \in Nat
      BY DsizeAssumption DEF Good
    <3> QED
      BY <1>5, <2>1, <3>1 DEF Buffer
  <2>3. TextOf(r) = <<>> /\ TextOf(c) = <<>>
    BY <1>5, <2>2 DEF TextOf, Blocked
  <2>4. Good(r)
    BY <2>2 DEF Good, Blocked
  <2> QED
    BY <2>1, <2>3, <2>4 DEF r, f
<1>6. CASE ~(c.p = "null" /\ c.flag = "buf" /\ fails) /\ Accepted(q, s)
  <2>1. r = Counted(Printed(q, s), s) /\ ~f
    BY <1>4, <1>6 DEF Sprintf
  <2>2. Len(s) < q.alloc - q.len
    BY <1>3, <1>6 DEF Fits
  <2> HIDE DEF q, r, f
  <2>3. Good(r) /\ TextOf(r) = TextOf(c) \o s
    BY <1>1, <2>1, <2>2, PrintIs
  <2> QED
    BY <2>1, <2>3 DEF r, f
<1>7. CASE ~(c.p = "null" /\ c.flag = "buf" /\ fails) /\ ~Accepted(q, s)
  <2> DEFINE g == Grown(Printed(q, s), a)
  <2>1. r = Counted(Printed(g, s), s) /\ ~f
    BY <1>3, <1>4, <1>7 DEF Sprintf
  <2> HIDE DEF q, r, f
  <2>2. Opened(c, Printed(q, s)) /\ Printed(q, s).len = q.len
    BY <1>1, <1>7, CutIs
  <2>3. a \in Nat /\ Printed(q, s).len < a
    BY <1>2, <2>2
  <2> HIDE DEF a
  <2>4. Opened(c, g) /\ g.alloc = a
    BY <2>2, <2>3, GrownIs
  <2>5. g.len = q.len
    BY <1>1, <2>4 DEF Opened
  <2> HIDE DEF g
  <2>6. Len(s) < g.alloc - g.len
    BY <1>2, <2>4, <2>5 DEF a
  <2>7. Good(r) /\ TextOf(r) = TextOf(c) \o s
    BY <2>1, <2>4, <2>6, PrintIs
  <2> QED
    BY <2>1, <2>7 DEF r, f
<1> QED
  BY <1>5, <1>6, <1>7

\* kvs_buf_truncate: the rest of the text, and the terminator where it was.
LEMMA TruncatedIs ==
  ASSUME NEW c, Good(c), c.p # "freed", NEW n \in Nat, n <= c.len
  PROVE  LET r == Truncated(c, n) IN
         Good(r) /\ TextOf(r) = SubSeq(TextOf(c), n + 1, Len(TextOf(c)))
<1> DEFINE m == [j \in DOMAIN c.mem |-> IF j < c.len - n THEN (IF j + n \in Holds(c) THEN c.mem[j + n] ELSE Junk)
                                                         ELSE c.mem[j]]
           k == c.len - n
           r == Truncated(c, n)
           t == SubSeq(TextOf(c), n + 1, Len(TextOf(c)))
<1>1. c \in Buffer /\ c.ok /\ c.len \in Nat /\ c.alloc \in Nat /\ k \in Nat /\ k <= c.len
  BY DEF Good, Buffer
<1>2. r = [c EXCEPT !.len = k, !.mem = m]
  BY DEF Truncated
<1>3. \A j \in DOMAIN c.mem : c.mem[j] \in Cell
  BY <1>1 DEF Buffer, Blocks
<1>4. m \in [DOMAIN c.mem -> Cell]
  BY <1>3 DEF Holds, Cell
<1>5. \A j \in DOMAIN c.mem : m[j] = IF j < k THEN (IF j + n \in DOMAIN c.mem THEN c.mem[j + n] ELSE Junk)
                                             ELSE c.mem[j]
  BY DEF Holds
<1>6. m \in Blocks
  <2>1. PICK i \in Nat : c.mem \in [0..i - 1 -> Cell]
    BY <1>1 DEF Buffer, Blocks
  <2>2. m \in [0..i - 1 -> Cell]
    BY <1>4, <2>1
  <2> HIDE DEF m
  <2> QED
    BY <2>2, ABlock
<1> HIDE DEF m, r, k
<1>7. /\ r \in Buffer /\ r.p = c.p /\ r.len = k /\ r.alloc = c.alloc /\ r.mem = m /\ r.ok = c.ok
  BY <1>1, <1>2, <1>6 DEF Buffer
<1>8. TextOf(c) \in Seq(Cell) /\ Len(TextOf(c)) = c.len /\ \A j \in 1..c.len : TextOf(c)[j] = c.mem[j - 1]
  BY TextIs
<1>9. t \in Seq(Cell) /\ Len(t) = k /\ \A j \in 1..k : t[j] = TextOf(c)[j + n]
  <2> DEFINE x == TextOf(c)
  <2>1. x \in Seq(Cell) /\ Len(x) = c.len
    BY <1>8
  <2> HIDE DEF x
  <2>2. SubSeq(x, n + 1, c.len) = [j \in 1..k |-> x[j + n]]
    BY <1>1, <2>1 DEF k
  <2>3. \A j \in 1..k : x[j + n] \in Cell
    BY <1>1, <2>1 DEF k
  <2>4. t = [j \in 1..k |-> x[j + n]]
    BY <2>1, <2>2 DEF x
  <2> HIDE DEF t
  <2>5. t \in Seq(Cell) /\ Len(t) = k /\ \A j \in 1..k : t[j] = x[j + n]
    BY <1>1, <2>3, <2>4
  <2> QED
    BY <2>5 DEF x
<1> HIDE DEF t
<1>10. CASE Blocked(c)
  <2>1. c.mem \in [0..c.alloc - 1 -> Cell] /\ c.len < c.alloc /\ Terminated(c)
    BY <1>10 DEF Good
  <2>2. r.mem \in [0..r.alloc - 1 -> Cell] /\ r.len < r.alloc /\ Blocked(r)
    BY <1>1, <1>4, <1>7, <1>10, <2>1 DEF Blocked
  <2>3. Terminated(r)
    <3>1. SUFFICES ASSUME k > 0
                   PROVE  \E j \in k..c.alloc - 1 : m[j] = NUL
      BY <1>7 DEF Terminated
    <3>2. PICK j \in c.len..c.alloc - 1 : c.mem[j] = NUL
      BY <1>1, <2>1, <3>1 DEF Terminated
    <3>3. j \in k..c.alloc - 1 /\ j \in DOMAIN c.mem /\ ~(j < k)
      BY <1>1, <2>1
    <3> QED
      BY <1>5, <3>2, <3>3
  <2>4. Good(r)
    BY <1>1, <1>7, <2>2, <2>3 DEF Good
  <2>5. TextOf(r) \in Seq(Cell) /\ Len(TextOf(r)) = k /\ \A j \in 1..k : TextOf(r)[j] = m[j - 1]
    <3>1. r.p # "freed"
      BY <1>7
    <3> QED
      BY <1>7, <2>4, <3>1, TextIs
  <2>6. ASSUME NEW j \in 1..k
        PROVE  TextOf(r)[j] = t[j]
    <3> DEFINE l == c.len
               a == c.alloc
               i == j - 1
    <3>1. l \in Nat /\ a \in Nat /\ l < a /\ n \in Nat /\ k \in Nat /\ k = l - n
      BY <1>1, <2>1 DEF k, Good, Buffer
    <3>2. DOMAIN c.mem = 0..a - 1
      BY <2>1
    <3> HIDE DEF l, a
    <3>3. i \in 0..a - 1 /\ i < k /\ i + n \in 0..a - 1 /\ i + 1 = j
      BY <3>1
    <3>4. j + n \in 1..l /\ i + n = j + n - 1
      BY <3>1
    <3> HIDE DEF i
    <3>5. m[i] = c.mem[i + n]
      BY <1>5, <3>2, <3>3
    <3>6. TextOf(c)[j + n] = c.mem[j + n - 1]
      BY <1>8, <3>4 DEF l
    <3>7. TextOf(r)[j] = m[i]
      BY <2>5 DEF i
    <3>8. t[j] = TextOf(c)[j + n]
      BY <1>9
    <3> QED
      BY <3>4, <3>5, <3>6, <3>7, <3>8
  <2>7. TextOf(r) = t
    BY <1>9, <2>5, <2>6, SameText
  <2> QED
    BY <2>4, <2>7 DEF r, t
<1>11. CASE ~Blocked(c)
  <2>1. c.p = "null" /\ c.len = 0 /\ k = 0
    BY <1>1, <1>11 DEF Good, Blocked, Buffer, k
  <2>2. Good(r) /\ TextOf(r) = <<>>
    BY <1>1, <1>7, <2>1 DEF Good, TextOf, Blocked
  <2>3. t = <<>>
    BY <1>9, <2>1
  <2> QED
    BY <2>2, <2>3 DEF r, t
<1> QED
  BY <1>10, <1>11

\* A part of a text.
LEMMA Part ==
  ASSUME NEW x \in Seq(Cell), NEW i \in Nat, NEW n \in Nat, i + n <= Len(x)
  PROVE  SubSeq(x, i + 1, i + n) = [k \in 1..n |-> x[i + k]]
<1> DEFINE y == SubSeq(x, i + 1, i + n)
           z == [k \in 1..n |-> x[i + k]]
<1>1. i + 1 \in 1..Len(x) + 1 /\ i + n \in i..Len(x) /\ Len(x) \in Nat
  OBVIOUS
<1>2. y \in Seq(Cell) /\ Len(y) = n
  BY <1>1
<1>3. ASSUME NEW k \in 1..n
      PROVE  y[k] = x[i + k]
  <2>1. \A j \in i + 1..i + n : x[j] \in Cell
    BY <1>1, ElementOfSeq
  <2>2. i + 1 \in Int /\ i + n \in Int
    OBVIOUS
  <2>3. \A j \in 1..(i + n) - (i + 1) + 1 : y[j] = x[(i + 1) + j - 1]
    BY <2>1, <2>2, SubSeqProperties
  <2>4. k \in 1..(i + n) - (i + 1) + 1 /\ (i + 1) + k - 1 = i + k
    OBVIOUS
  <2> HIDE DEF y
  <2> QED
    BY <2>3, <2>4
<1> HIDE DEF y
<1>4. y = z
  BY <1>2, <1>3
<1> QED
  BY <1>4 DEF y

\* The slice that kvs_buf_getrange copies.
LEMMA SliceIs ==
  ASSUME NEW c, Good(c), c.p # "freed", NEW start \in Int, NEW end \in Int,
         Text!Position(TextOf(c), start) >= 0
  PROVE  /\ GetRange(c, start, end) = Text!Slice(TextOf(c), start, end)
         /\ ~NoSlice(c, start, end) => Blocked(c)
<1> DEFINE x == TextOf(c)
           i == From(c, start)
           j == From(c, end)
           e == IF j >= c.len THEN c.len - 1 ELSE j
           last == IF j < Len(x) THEN j ELSE Len(x) - 1
<1>1. x \in Seq(Cell) /\ Len(x) = c.len /\ c.len \in Nat /\ \A k \in 1..c.len : x[k] = c.mem[k - 1]
  BY TextIs
<1> HIDE DEF x
<1>2. Text!Position(x, start) = i /\ Text!Position(x, end) = j /\ i \in Nat /\ j \in Int
  BY <1>1 DEF From, Text!Position, x
<1>3. GetRange(c, start, end) = IF NoSlice(c, start, end) THEN <<NUL>>
            ELSE [k \in 1..e - i + 1 |-> IF i + k - 1 \in Holds(c) THEN c.mem[i + k - 1] ELSE Junk]
  BY DEF GetRange
<1>4. NoSlice(c, start, end) <=> i > j \/ i >= c.len
  BY DEF NoSlice
<1>5. Text!Slice(x, start, end) = IF i > last THEN <<NUL>> ELSE SubSeq(x, i + 1, last + 1)
  BY <1>2 DEF Text!Slice
<1> HIDE DEF i, j
<1>6. e = last /\ e \in Int /\ e < c.len /\ (NoSlice(c, start, end) <=> i > e)
  BY <1>1, <1>2, <1>4
<1> HIDE DEF e, last
<1>7. CASE NoSlice(c, start, end)
  BY <1>3, <1>5, <1>6, <1>7 DEF x
<1>8. CASE ~NoSlice(c, start, end)
  <2>1. c.len > 0 /\ i <= e
    BY <1>1, <1>2, <1>4, <1>6, <1>8
  <2>2. Blocked(c)
    BY <2>1 DEF Good, Blocked, Buffer
  <2>3. Holds(c) = 0..c.alloc - 1 /\ c.len < c.alloc /\ c.alloc \in Nat
    BY <2>2 DEF Good, Holds, Buffer
  <2> DEFINE n == e - i + 1
  <2>4. n \in Nat /\ i + n <= c.len /\ e + 1 = i + n
    BY <1>1, <1>2, <1>6, <2>1
  <2> HIDE DEF n
  <2>5. SubSeq(x, i + 1, e + 1) = [k \in 1..n |-> x[i + k]]
    <3>1. x \in Seq(Cell) /\ i \in Nat /\ n \in Nat /\ i + n <= Len(x)
      BY <1>1, <1>2, <2>4
    <3>2. SubSeq(x, i + 1, i + n) = [k \in 1..n |-> x[i + k]]
      BY <3>1, Part
    <3> QED
      BY <2>4, <3>2
  <2>6. ASSUME NEW k \in 1..n
        PROVE  x[i + k] = IF i + k - 1 \in Holds(c) THEN c.mem[i + k - 1] ELSE Junk
    <3> DEFINE m == i + k
    <3>1. m \in 1..c.len /\ m - 1 \in 0..c.alloc - 1 /\ i + k - 1 = m - 1 /\ i + k = m
      BY <1>1, <1>2, <2>3, <2>4
    <3> HIDE DEF m
    <3>2. x[m] = IF m - 1 \in Holds(c) THEN c.mem[m - 1] ELSE Junk
      BY <1>1, <2>3, <3>1
    <3> QED
      BY <3>1, <3>2
  <2>7. GetRange(c, start, end) = [k \in 1..n |-> x[i + k]]
    BY <1>3, <1>8, <2>6 DEF n
  <2> QED
    BY <1>5, <1>6, <1>8, <2>1, <2>2, <2>5, <2>7 DEF x
<1> QED
  BY <1>7, <1>8

\* kvs_buf_new when malloc gives its block.
LEMMA NewIs ==
  ASSUME NEW s \in Seq(Cell)
  PROVE  LET r == New(s, FALSE) IN Good(r) /\ TextOf(r) = s
<1> DEFINE z == Null("buf")
           l == Len(s)
           n == l + 1
           g == Moved(z, n, 0)
           nul == <<NUL>>
           u == Put(g, l, nul)
           w == Put(u, 0, s)
           r == New(s, FALSE)
<1>1. z \in Buffer /\ z.ok /\ l \in Nat /\ n \in Nat /\ l = Len(s)
  <2>1. Block(0) \in [0..0 - 1 -> Cell]
    BY DEF Block
  <2>2. Block(0) \in Blocks
    <3>1. 0 \in Nat
      OBVIOUS
    <3> QED
      BY <2>1, <3>1, ABlock
  <2> QED
    BY <2>2 DEF Null, Buffer
<1>2. r = [w EXCEPT !.len = Len(s)]
  BY <1>1 DEF New
<1> HIDE DEF z, g, u, w, r
<1>3. /\ g \in Buffer /\ g.mem \in [0..n - 1 -> Cell]
      /\ g.p = "heap" /\ g.len = z.len /\ g.alloc = n /\ g.flag = z.flag /\ g.ok = z.ok
      /\ \A j \in 0..n - 1 : j < 0 /\ j \in Holds(z) => g.mem[j] = z.mem[j]
  <2> HIDE DEF n
  <2>1. z \in Buffer /\ n \in Nat
    BY <1>1
  <2> QED
    <3>8. MovedTo(g, z, n, 0)
      BY <2>1, MovedIs DEF g
    <3> QED BY <3>8 DEF MovedTo
<1>4. nul \in Seq(Cell) /\ Len(nul) = 1 /\ nul[1] = NUL
  BY DEF Cell
<1>6. g.alloc = l + 1
  BY <1>1, <1>3
<1> HIDE DEF n, l, nul
<1>5. l \in Nat /\ l = Len(s) /\ l + Len(nul) <= g.alloc /\ g.mem \in [0..g.alloc - 1 -> Cell] /\ g \in Buffer
  BY <1>1, <1>3, <1>4, <1>6
<1> USE DEF u
<1>7. /\ u \in Buffer /\ u.mem \in [0..g.alloc - 1 -> Cell]
      /\ u.p = g.p /\ u.len = g.len /\ u.alloc = g.alloc /\ u.flag = g.flag /\ u.ok = g.ok
      /\ \A j \in 0..g.alloc - 1 :
           u.mem[j] = IF j \in l..l + Len(nul) - 1 THEN nul[j - l + 1] ELSE g.mem[j]
  <2>8. PutAt(u, g, l, nul)
    BY <1>4, <1>5, PutIs
  <2> QED BY <2>8 DEF PutAt
<1> HIDE DEF u
<1>8. u.mem[l] = NUL
  <2>1. l \in 0..g.alloc - 1 /\ l \in l..l + Len(nul) - 1 /\ l - l + 1 = 1
    BY <1>4, <1>5, <1>6
  <2> QED
    BY <1>4, <1>7, <2>1
<1> DEFINE o == 0
<1>9. u \in Buffer /\ u.mem \in [0..u.alloc - 1 -> Cell] /\ o \in Nat /\ o + Len(s) <= u.alloc
  BY <1>5, <1>6, <1>7
<1>10. o = 0 /\ w = Put(u, o, s)
  BY DEF w
<1> HIDE DEF o
<1>11. /\ w \in Buffer /\ w.mem \in [0..u.alloc - 1 -> Cell]
       /\ w.p = u.p /\ w.len = u.len /\ w.alloc = u.alloc /\ w.flag = u.flag /\ w.ok = u.ok
       /\ \A j \in 0..u.alloc - 1 :
            w.mem[j] = IF j \in o..o + Len(s) - 1 THEN s[j - o + 1] ELSE u.mem[j]
  <2>8. PutAt(w, u, o, s)
    BY <1>9, <1>10, PutIs
  <2> QED BY <2>8 DEF PutAt
<1>12. w.mem[l] = NUL /\ \A j \in 1..l : w.mem[j - 1] = s[j]
  <2>1. l \in 0..u.alloc - 1 /\ l \notin o..o + Len(s) - 1
    BY <1>5, <1>6, <1>7, <1>10
  <2>2. ASSUME NEW j \in 1..l
        PROVE  w.mem[j - 1] = s[j]
    <3>1. j - 1 \in 0..u.alloc - 1 /\ j - 1 \in o..o + Len(s) - 1 /\ j - 1 - o + 1 = j
      BY <1>5, <1>6, <1>7, <1>10
    <3> QED
      BY <1>11, <3>1
  <2> QED
    BY <1>8, <1>11, <2>1, <2>2
<1>13. r \in Buffer /\ r.p = "heap" /\ r.len = l /\ r.alloc = l + 1 /\ r.mem = w.mem /\ r.ok
  <2>1. r = [w EXCEPT !.len = l] /\ l \in Nat /\ w \in Buffer
    BY <1>2, <1>5, <1>11
  <2>2. r \in Buffer /\ r.p = w.p /\ r.len = l /\ r.alloc = w.alloc /\ r.mem = w.mem /\ r.ok = w.ok
    BY <2>1 DEF Buffer
  <2> QED
    BY <1>1, <1>3, <1>6, <1>7, <1>11, <2>2
<1>14. Good(r)
  <2>1. r.mem \in [0..r.alloc - 1 -> Cell] /\ r.len < r.alloc /\ Blocked(r)
    BY <1>5, <1>6, <1>7, <1>11, <1>13 DEF Blocked
  <2>2. Terminated(r)
    <3>1. l \in r.len..r.alloc - 1
      BY <1>5, <1>13
    <3> QED
      BY <1>12, <1>13, <3>1 DEF Terminated
  <2> QED
    BY <1>13, <2>1, <2>2 DEF Good
<1>15. TextOf(r) \in Seq(Cell) /\ Len(TextOf(r)) = l /\ \A j \in 1..l : TextOf(r)[j] = w.mem[j - 1]
  <2>1. r.p # "freed"
    BY <1>13
  <2> QED
    BY <1>13, <1>14, <2>1, TextIs
<1>16. TextOf(r) = s
  BY <1>5, <1>12, <1>15, SameText
<1> QED
  BY <1>14, <1>16 DEF r

(***************************************************************************)
(* The calls.  A call on a sound buffer either breaks it, where KvsText    *)
(* lets it, or leaves a good buffer and does to its text what a text's     *)
(* user sees.                                                              *)
(***************************************************************************)
Shown == IF Sound /\ HasBlock THEN Contents ELSE <<>>

Outcome == \/ ~Sound' /\ (TextOf(b) # <<>> => res'.op \in {"truncate", "sprintf"})
           \/ Sound' /\ Good(b') /\ Text!Call

BufInv == Sound => Good(b)

\* The text of a sound buffer is the one that its users see.
LEMMA ShownIs ==
  /\ Sound => Shown = TextOf(b)
  /\ Sound' => Shown' = TextOf(b')
BY DEF Sound, Shown, HasBlock, Contents, TextOf, Blocked

\* What callers write is made of cells.
LEMMA OfCells ==
  ASSUME TextsAssumed, NEW s \in Texts
  PROVE  s \in Seq(Cell) /\ Len(s) \in Nat
<1>1. s \in Seq(Char)
  BY DEF TextsAssumed
<1>2. s \in [1..Len(s) -> Char] /\ Len(s) \in Nat
  BY <1>1
<1>3. s \in [1..Len(s) -> Cell]
  BY <1>2 DEF Cell
<1> QED
  BY <1>2, <1>3

\* kvs_buf_setrange: on a buffer with no block it may break, when malloc gives none.
LEMMA SetRangeDoes ==
  ASSUME TextsAssumed, Good(b), NEW s \in Texts, NEW fails \in Failures,
         NEW offset \in Offsets, DoSetRange(offset, s, fails)
  PROVE  Outcome
<1> DEFINE f == SetRangeFails(b, offset, s, fails)
<1>1. /\ b.ok /\ b.p # "freed" /\ ~spoilt /\ spoilt' = spoilt
      /\ b' = SetRange(b, offset, s, fails) /\ res' = Result("setrange", IF f THEN -1 ELSE 0)
  BY DEF DoSetRange, Usable, Called
<1>2. s \in Seq(Cell) /\ offset \in Int /\ fails \in BOOLEAN
  BY OfCells, BufAssumption DEF Failures
<1> HIDE DEF f
<1>3. \/ f /\ Good(b') /\ TextOf(b') = TextOf(b)
      \/ ~f /\ ~b'.ok /\ b.p = "null"
      \/ ~f /\ offset \in Nat /\ Good(b') /\ TextOf(b') = Text!FirstBytes(TextOf(b), offset) \o s
  BY <1>1, <1>2, SetRangeIs DEF f
<1>4. CASE ~b'.ok /\ b.p = "null"
  BY <1>4 DEF Outcome, Sound, TextOf, Blocked
<1>5. CASE f /\ Good(b') /\ TextOf(b') = TextOf(b)
  <2>1. Sound /\ Sound'
    BY <1>1, <1>5 DEF Sound, Good
  <2>2. res' = Text!Result("setrange", -1) /\ Shown' = Shown
    BY <1>1, <1>5, <2>1, ShownIs DEF Result, Text!Result
  <2>3. Text!Fails
    BY <2>2 DEF Text!Fails, Shown
  <2> QED
    BY <1>5, <2>1, <2>3 DEF Outcome, Text!Call
<1>6. CASE ~f /\ offset \in Nat /\ Good(b') /\ TextOf(b') = Text!FirstBytes(TextOf(b), offset) \o s
  <2>1. Sound /\ Sound'
    BY <1>1, <1>6 DEF Sound, Good
  <2>2. res' = Text!Result("setrange", 0) /\ Shown' = Text!FirstBytes(Shown, offset) \o s
    BY <1>1, <1>6, <2>1, ShownIs DEF Result, Text!Result
  <2>3. Text!WriteAt(offset, s)
    BY <2>2 DEF Text!WriteAt, Shown
  <2> QED
    BY <1>6, <2>1, <2>3 DEF Outcome, Text!Call
<1> QED
  BY <1>3, <1>4, <1>5, <1>6

\* All of a text.
LEMMA AllOfIt ==
  ASSUME NEW x \in Seq(Cell)
  PROVE  Text!FirstBytes(x, Len(x)) = x
<1> DEFINE F == Text!FirstBytes(x, Len(x))
<1>1. F = [j \in 1..Len(x) |-> IF j <= Len(x) THEN x[j] ELSE NUL]
  BY DEF Text!FirstBytes
<1>2. \A j \in 1..Len(x) : (IF j <= Len(x) THEN x[j] ELSE NUL) = x[j] /\ x[j] \in Cell
  OBVIOUS
<1>3. F = [j \in 1..Len(x) |-> x[j]]
  BY <1>1, <1>2
<1> QED
  BY <1>3

\* kvs_buf_append is a write at the end.
LEMMA AppendDoes ==
  ASSUME TextsAssumed, Good(b), NEW s \in Texts, NEW fails \in Failures, DoAppend(s, fails)
  PROVE  Outcome
<1> DEFINE offset == b.len
           f == SetRangeFails(b, offset, s, fails)
<1>1. /\ b.ok /\ b.p # "freed" /\ ~spoilt /\ spoilt' = spoilt
      /\ b' = SetRange(b, offset, s, fails) /\ res' = Result("append", IF f THEN -1 ELSE 0)
  BY DEF DoAppend, Usable, Called, Appended
<1>2. s \in Seq(Cell) /\ offset \in Int /\ fails \in BOOLEAN
  <2>1. offset \in Int
    BY DEF Good, Buffer
  <2> HIDE DEF offset
  <2> QED
    BY <2>1, OfCells DEF Failures
<1>3. Len(TextOf(b)) = offset /\ TextOf(b) \in Seq(Cell)
  BY <1>1, TextIs
<1> HIDE DEF f, offset
<1>4. \/ f /\ Good(b') /\ TextOf(b') = TextOf(b)
      \/ ~f /\ ~b'.ok /\ b.p = "null"
      \/ ~f /\ offset \in Nat /\ Good(b') /\ TextOf(b') = Text!FirstBytes(TextOf(b), offset) \o s
  BY <1>1, <1>2, SetRangeIs DEF f
<1>5. CASE ~b'.ok /\ b.p = "null"
  BY <1>5 DEF Outcome, Sound, TextOf, Blocked
<1>6. CASE f /\ Good(b') /\ TextOf(b') = TextOf(b)
  <2>1. Sound /\ Sound'
    BY <1>1, <1>6 DEF Sound, Good
  <2>2. res' = Text!Result("append", -1) /\ Shown' = Shown
    BY <1>1, <1>6, <2>1, ShownIs DEF Result, Text!Result
  <2>3. Text!Fails
    BY <2>2 DEF Text!Fails, Shown
  <2> QED
    BY <1>6, <2>1, <2>3 DEF Outcome, Text!Call
<1>7. CASE ~f /\ Good(b') /\ TextOf(b') = Text!FirstBytes(TextOf(b), offset) \o s
  <2>1. Sound /\ Sound'
    BY <1>1, <1>7 DEF Sound, Good
  <2>2. TextOf(b') = TextOf(b) \o s
    BY <1>3, <1>7, AllOfIt
  <2>3. res' = Text!Result("append", 0) /\ Shown' = Shown \o s
    BY <1>1, <1>7, <2>1, <2>2, ShownIs DEF Result, Text!Result
  <2>4. Text!AppendText(s)
    BY <2>3 DEF Text!AppendText, Shown
  <2> QED
    BY <1>7, <2>1, <2>4 DEF Outcome, Text!Call
<1> QED
  BY <1>4, <1>5, <1>6, <1>7

\* kvs_buf_append_sprintf may break whatever it is called on.
LEMMA SprintfDoes ==
  ASSUME TextsAssumed, Good(b), NEW s \in Texts, NEW fails \in Failures, DoSprintf(s, fails)
  PROVE  Outcome
<1> DEFINE f == SprintfFails(b, s, fails)
<1>1. /\ b.ok /\ b.p # "freed" /\ ~spoilt /\ b' = Sprintf(b, s, fails)
      /\ res' = Result("sprintf", IF f THEN -1 ELSE Len(s)) /\ spoilt' = (spoilt \/ Spoils(b, s, fails))
  BY DEF DoSprintf, Usable
<1>2. s \in Seq(Cell) /\ fails \in BOOLEAN
  BY OfCells DEF Failures
<1> HIDE DEF f
<1>3. CASE Spoils(b, s, fails)
  BY <1>1, <1>3 DEF Outcome, Sound, Result
<1>4. CASE ~Spoils(b, s, fails)
  <2>1. Good(b') /\ TextOf(b') = IF f THEN TextOf(b) ELSE TextOf(b) \o s
    BY <1>1, <1>2, <1>4, SprintfIs DEF f
  <2>2. Sound /\ Sound'
    BY <1>1, <1>4, <2>1 DEF Sound, Good
  <2>3. CASE f
    <3>1. res' = Text!Result("sprintf", -1) /\ Shown' = Shown
      BY <1>1, <2>1, <2>2, <2>3, ShownIs DEF Result, Text!Result
    <3>2. Text!Fails
      BY <3>1 DEF Text!Fails, Shown
    <3> QED
      BY <2>1, <2>2, <3>2 DEF Outcome, Text!Call
  <2>4. CASE ~f
    <3>1. res' = Text!Result("sprintf", Len(s)) /\ Shown' = Shown \o s
      BY <1>1, <2>1, <2>2, <2>4, ShownIs DEF Result, Text!Result
    <3>2. Text!AppendText(s)
      BY <3>1 DEF Text!AppendText, Shown
    <3> QED
      BY <2>1, <2>2, <3>2 DEF Outcome, Text!Call
  <2> QED
    BY <2>3, <2>4
<1> QED
  BY <1>3, <1>4

\* kvs_buf_truncate breaks a buffer that holds less than what is cut off.
LEMMA TruncateDoes ==
  ASSUME Good(b), NEW n \in Offsets, DoTruncate(n)
  PROVE  Outcome
<1>1. /\ b.ok /\ b.p # "freed" /\ ~spoilt /\ spoilt' = spoilt
      /\ b' = IF TruncateRefused(b, n) THEN b ELSE IF n > b.len THEN Broken(b) ELSE Truncated(b, n)
      /\ res' = Result("truncate", IF TruncateRefused(b, n) THEN -1 ELSE 0)
  BY DEF DoTruncate, Usable, Called
<1>2. n \in Int /\ b.len \in Nat
  BY BufAssumption DEF Good, Buffer
<1>3. CASE TruncateRefused(b, n)
  <2>1. Sound /\ Sound' /\ b' = b
    BY <1>1, <1>3 DEF Sound
  <2>2. res' = Text!Result("truncate", -1) /\ Shown' = Shown
    BY <1>1, <1>3, <2>1, ShownIs DEF Result, Text!Result
  <2>3. Text!Fails
    BY <2>2 DEF Text!Fails, Shown
  <2> QED
    BY <2>1, <2>3 DEF Outcome, Text!Call
<1>4. CASE ~TruncateRefused(b, n) /\ n > b.len
  <2>1. ~b'.ok
    BY <1>1, <1>4 DEF Broken, Good, Buffer
  <2> QED
    BY <1>1, <2>1 DEF Outcome, Sound, Result
<1>5. CASE ~TruncateRefused(b, n) /\ ~(n > b.len)
  <2>1. n \in Nat /\ n <= b.len
    BY <1>2, <1>5 DEF TruncateRefused
  <2>2. b' = Truncated(b, n)
    BY <1>1, <1>5
  <2>3. Good(b') /\ TextOf(b') = SubSeq(TextOf(b), n + 1, Len(TextOf(b)))
    BY <1>1, <2>1, <2>2, TruncatedIs
  <2>4. Sound /\ Sound'
    BY <1>1, <2>3 DEF Sound, Good
  <2>5. Len(TextOf(b)) = b.len
    BY <1>1, TextIs
  <2>6. /\ res' = Text!Result("truncate", 0) /\ Shown' = SubSeq(Shown, n + 1, Len(Shown))
        /\ n \in 0..Len(Shown)
    BY <1>1, <1>2, <1>5, <2>1, <2>3, <2>4, <2>5, ShownIs DEF Result, Text!Result
  <2>7. Text!DropFirst(n) /\ n \in 0..Len(IF Sound /\ HasBlock THEN Contents ELSE <<>>)
    BY <2>6 DEF Text!DropFirst, Shown
  <2> QED
    BY <2>3, <2>4, <2>7 DEF Outcome, Text!Call
<1> QED
  BY <1>3, <1>4, <1>5

\* kvs_buf_reset empties the text.
LEMMA ResetDoes ==
  ASSUME Good(b), DoReset
  PROVE  Outcome
<1>1. /\ b.ok /\ b.p # "freed" /\ ~spoilt /\ spoilt' = spoilt
      /\ b' = [b EXCEPT !.len = 0] /\ res' = Result("reset", 0)
  BY DEF DoReset, Usable, Called
<1>2. /\ b' \in Buffer /\ b'.p = b.p /\ b'.len = 0 /\ b'.alloc = b.alloc /\ b'.mem = b.mem /\ b'.ok = b.ok
  BY <1>1, EmptiedIs DEF Good
<1>3. Good(b')
  <2>1. b.len \in Nat /\ b.alloc \in Nat
    BY DEF Good, Buffer
  <2> QED
    BY <1>2, <2>1 DEF Good, Blocked, Terminated
<1>4. Sound /\ Sound'
  BY <1>1, <1>2 DEF Sound
<1>5. TextOf(b') = <<>>
  <2>1. Len(TextOf(b')) = 0 /\ TextOf(b') \in Seq(Cell)
    BY <1>1, <1>2, <1>3, TextIs
  <2> QED
    BY <2>1
<1>6. res' = Text!Result("reset", 0) /\ Shown' = <<>>
  BY <1>1, <1>4, <1>5, ShownIs DEF Result, Text!Result
<1>7. Text!Clear
  BY <1>6 DEF Text!Clear, Shown
<1> QED
  BY <1>3, <1>4, <1>7 DEF Outcome, Text!Call

\* kvs_buf_getrange breaks a buffer with nothing in it only.
LEMMA GetRangeDoes ==
  ASSUME Good(b), NEW start \in Offsets, NEW end \in Offsets, NEW fails \in Failures,
         DoGetRange(start, end, fails)
  PROVE  Outcome
<1> DEFINE out == GetRange(b, start, end)
<1>1. /\ b.ok /\ b.p # "freed" /\ ~spoilt /\ spoilt' = spoilt
      /\ \/ b' = b /\ res' = Result("getrange", -1)
         \/ b.p = "null" /\ b' = Broken(b)
         \/ b' = b /\ res' = Read(start, end, out)
  BY DEF DoGetRange, Usable, Called
<1>2. start \in Int /\ end \in Int
  BY BufAssumption
<1> HIDE DEF out
<1>3. CASE b.p = "null" /\ b' = Broken(b)
  BY <1>3 DEF Outcome, Sound, TextOf, Blocked, Broken, Good, Buffer
<1>4. CASE b' = b /\ res' = Result("getrange", -1)
  <2>1. Sound /\ Sound'
    BY <1>1, <1>4 DEF Sound
  <2>2. res' = Text!Result("getrange", -1) /\ Shown' = Shown
    BY <1>4, <2>1, ShownIs DEF Result, Text!Result
  <2>3. Text!Fails
    BY <2>2 DEF Text!Fails, Shown
  <2> QED
    BY <1>4, <2>1, <2>3 DEF Outcome, Text!Call
<1>5. CASE b' = b /\ res' = Read(start, end, out)
  <2>1. Sound /\ Sound'
    BY <1>1, <1>5 DEF Sound
  <2>2. Shown = TextOf(b) /\ Shown' = Shown
    BY <1>5, <2>1, ShownIs
  <2>3. res'.out = out /\ res' = Text!Read(start, end, out)
    BY <1>5 DEF Read, Text!Read
  <2>4. Text!Position(Shown, start) >= 0 => out = Text!Slice(Shown, start, end)
    BY <1>1, <1>2, <2>2, SliceIs DEF out
  <2>5. Text!GetRange(start, end)
    BY <2>2, <2>3, <2>4 DEF Text!GetRange, Shown
  <2> QED
    BY <1>5, <2>1, <2>5 DEF Outcome, Text!Call
<1> QED
  BY <1>1, <1>3, <1>4, <1>5

\* kvs_buf_free gives a heap block back.
LEMMA FreeDoes ==
  ASSUME Good(b), DoFree
  PROVE  Outcome
<1>1. /\ b.ok /\ b.p # "freed" /\ ~spoilt /\ spoilt' = spoilt
      /\ b' = (IF b.p = "heap" THEN [b EXCEPT !.p = "freed", !.mem = Block(0)] ELSE b)
      /\ res' = Result("free", 0)
  BY DEF DoFree, Usable, Called
<1>2. Good(b') /\ TextOf(b') \in {<<>>, TextOf(b)}
  <2>1. CASE b.p = "heap"
    <3> DEFINE m == Block(0)
    <3>1. m \in Blocks
      <4>1. Block(0) \in [0..0 - 1 -> Cell] /\ 0 \in Nat
        BY DEF Block
      <4> QED
        BY <4>1, ABlock
    <3>2. b \in Buffer /\ b' = [b EXCEPT !.p = "freed", !.mem = m]
      BY <1>1, <2>1 DEF Good
    <3> HIDE DEF m
    <3>3. b' \in Buffer /\ b'.p = "freed" /\ b'.ok = b.ok
      BY <3>1, <3>2 DEF Buffer
    <3> QED
      BY <1>1, <3>3 DEF Good, Blocked, TextOf
  <2>2. CASE b.p # "heap"
    BY <1>1, <2>2
  <2> QED
    BY <2>1, <2>2
<1>3. Sound /\ Sound'
  BY <1>1, <1>2 DEF Sound, Good
<1>4. res' = Text!Result("free", 0) /\ Shown' \in {<<>>, Shown}
  BY <1>1, <1>2, <1>3, ShownIs DEF Result, Text!Result
<1>5. Text!Clear
  BY <1>4 DEF Text!Clear, Shown
<1> QED
  BY <1>2, <1>3, <1>5 DEF Outcome, Text!Call

\* kvs_buf_new breaks when its inner malloc gives nothing.
LEMMA NewDoes ==
  ASSUME TextsAssumed, Good(b), NEW s \in Texts, NEW fails \in Failures, DoNew(s, fails)
  PROVE  Outcome
<1>1. /\ b.p \in {"null", "freed"} /\ b.ok /\ ~spoilt /\ spoilt' = spoilt
      /\ b' = New(s, fails) /\ res' = Result("new", 0) /\ fails \in BOOLEAN
  BY DEF DoNew, Called, Failures
<1>2. CASE fails
  <2>1. ~b'.ok
    BY <1>1, <1>2 DEF New, Null, Broken
  <2> QED
    BY <1>1, <2>1 DEF Outcome, Sound, TextOf, Blocked
<1>3. CASE ~fails
  <2>1. b' = New(s, FALSE)
    BY <1>1, <1>3
  <2>2. Good(b') /\ TextOf(b') = s
    BY <2>1, OfCells, NewIs
  <2>3. Sound /\ Sound'
    BY <1>1, <2>2 DEF Sound, Good
  <2>4. res' = Text!Result("new", 0) /\ Shown' = s
    BY <1>1, <2>2, <2>3, ShownIs DEF Result, Text!Result
  <2>5. Text!Make(s)
    BY <2>4 DEF Text!Make, Shown
  <2> QED
    BY <2>2, <2>3, <2>5 DEF Outcome, Text!Call
<1> QED
  BY <1>1, <1>2, <1>3

\* A step is taken on a sound buffer only.
LEMMA StepDoes ==
  ASSUME TextsAssumed, BufInv, Next
  PROVE  Sound /\ Outcome
<1>1. Sound
  BY DEF Next, Sound, Usable, DoSetRange, DoAppend, DoSprintf, DoNew, DoTruncate, DoGetRange, DoReset, DoFree
<1>2. Good(b)
  BY <1>1 DEF BufInv
<1>3. CASE \E s \in Texts, fails \in Failures, offset \in Offsets : DoSetRange(offset, s, fails)
  BY <1>1, <1>2, <1>3, SetRangeDoes
<1>4. CASE \E s \in Texts, fails \in Failures : DoAppend(s, fails)
  BY <1>1, <1>2, <1>4, AppendDoes
<1>5. CASE \E s \in Texts, fails \in Failures : DoSprintf(s, fails)
  BY <1>1, <1>2, <1>5, SprintfDoes
<1>6. CASE \E s \in Texts, fails \in Failures : DoNew(s, fails)
  BY <1>1, <1>2, <1>6, NewDoes
<1>7. CASE \E n \in Offsets : DoTruncate(n)
  BY <1>1, <1>2, <1>7, TruncateDoes
<1>8. CASE \E x \in Offsets, y \in Offsets, fails \in Failures : DoGetRange(x, y, fails)
  BY <1>1, <1>2, <1>8, GetRangeDoes
<1>9. CASE DoReset \/ DoFree
  BY <1>1, <1>2, <1>9, ResetDoes, FreeDoes
<1>10. Outcome
  BY <1>3, <1>4, <1>5, <1>6, <1>7, <1>8, <1>9 DEF Next
<1> QED
  BY <1>1, <1>10

\* No block and no text.
LEMMA BufBegins ==
  ASSUME Init
  PROVE  BufInv /\ Text!Init
<1>1. PICK flag \in {"buf", "buffer"} : b = Null(flag)
  BY DEF Init
<1>2. Block(0) \in [0..0 - 1 -> Cell] /\ 0 \in Nat
  BY DEF Block
<1>3. Block(0) \in Blocks
  BY <1>2, ABlock
<1>4. b \in Buffer /\ b.ok /\ b.p = "null" /\ b.len = 0
  BY <1>1, <1>3 DEF Null, Buffer
<1>5. Good(b) /\ ~HasBlock
  BY <1>4 DEF Good, Blocked, HasBlock
<1>6. Sound /\ res = Text!Result("none", 0)
  BY <1>4 DEF Init, Sound, Result, Text!Result
<1>7. Text!Init
  BY <1>5, <1>6 DEF Text!Init
<1> QED
  BY <1>5, <1>7 DEF BufInv

\* A step keeps a sound buffer good.
LEMMA BufKeeps ==
  ASSUME TextsAssumed, BufInv, [Next]_vars
  PROVE  BufInv'
<1>1. CASE Next
  BY <1>1, StepDoes DEF Outcome, BufInv
<1>2. CASE UNCHANGED vars
  BY <1>2 DEF vars, BufInv, Sound
<1> QED
  BY <1>1, <1>2

\* While append_sprintf has not broken the buffer, the block is as long as the code
\* believes, and the text lies inside with a NUL behind it (kvs_str.c:57-132).
THEOREM TextStaysInBlock == ASSUME TextsAssumed PROVE Spec => []InBlock
<1>1. Init => BufInv
  BY BufBegins
<1>2. BufInv /\ [Next]_vars => BufInv'
  BY BufKeeps
<1>3. BufInv => InBlock
  <2> SUFFICES ASSUME Good(b), Sound
               PROVE  InBlock
    BY DEF BufInv, InBlock
  <2> QED
    BY DEF Good, InBlock, HasBlock, Blocked, Terminated
<1> QED
  BY <1>1, <1>2, <1>3, PTL DEF Spec

\* To its users a buffer is the text that was put together, until a call breaks it
\* (kvs_str.c:57-214).
THEOREM BufferImplementsText == ASSUME TextsAssumed PROVE Spec => ImplementsText
<1>1. Init => BufInv /\ Text!Init
  BY BufBegins
<1>2. BufInv /\ [Next]_vars => BufInv'
  BY BufKeeps
<1>3. BufInv /\ [Next]_vars
        => [Text!Next]_<<IF Sound /\ HasBlock THEN Contents ELSE <<>>, Sound, res>>
  <2> SUFFICES ASSUME BufInv, [Next]_vars
               PROVE  [Text!Next]_<<IF Sound /\ HasBlock THEN Contents ELSE <<>>, Sound, res>>
    OBVIOUS
  <2>1. CASE UNCHANGED vars
    BY <2>1 DEF vars, Sound, HasBlock, Contents
  <2>2. CASE Next
    <3>1. Sound /\ Outcome
      BY <2>2, StepDoes
    <3>2. CASE ~Sound' /\ (TextOf(b) # <<>> => res'.op \in {"truncate", "sprintf"})
      <4>1. Shown = TextOf(b)
        BY <3>1, ShownIs
      <4>2. Text!Break
        BY <3>1, <3>2, <4>1 DEF Text!Break, Shown
      <4> QED
        BY <3>1, <4>2 DEF Text!Next
    <3>3. CASE Sound' /\ Text!Call
      <4>1. Sound' = Sound
        BY <3>1, <3>3
      <4> QED
        BY <3>1, <3>3, <4>1 DEF Text!Next
    <3> QED
      BY <3>1, <3>2, <3>3 DEF Outcome
  <2> QED
    BY <2>1, <2>2
<1> QED
  BY <1>1, <1>2, <1>3, PTL DEF Spec, ImplementsText, Text!Spec
-----------------------------------------------------------------------------
(***************************************************************************)
(* The client's conversation.  While every read takes all there is, at     *)
(* most one request is on its way, or its answer, and the array begins     *)
(* with that answer when it is printed.                                    *)
(***************************************************************************)

\* The concatenation of two sequences, cell by cell.
LEMMA Joint ==
  ASSUME NEW S, NEW u \in Seq(S), NEW w \in Seq(S)
  PROVE  /\ u \o w \in Seq(S) /\ Len(u \o w) = Len(u) + Len(w)
         /\ \A j \in 1..Len(u) : (u \o w)[j] = u[j]
         /\ \A j \in 1..Len(w) : (u \o w)[Len(u) + j] = w[j]
BY ConcatProperties

Bytes == [of: Nat, b: {"x", "+", "$", "cr", "lf", "nul", "num"}, num: Int]

LEMMA TextIsSeq ==
  ASSUME NEW r \in Nat, NEW n \in Nat
  PROVE  /\ Talk!Text(r, n) \in Seq(Bytes) /\ Len(Talk!Text(r, n)) = n
         /\ \A j \in 1..n : Talk!Text(r, n)[j] = Talk!Byte(r, "x")
<1>1. Talk!Byte(r, "x") \in Bytes
  BY DEF Talk!Byte, Bytes
<1>2. [j \in 1..n |-> Talk!Byte(r, "x")] \in [1..n -> Bytes]
  BY <1>1
<1> QED
  BY <1>2, SeqDef, LenProperties DEF Talk!Text

LEMMA Marks ==
  ASSUME NEW r \in Nat
  PROVE  /\ <<Talk!Byte(r, "+")>> \in Seq(Bytes) /\ Talk!CRLF(r) \in Seq(Bytes)
         /\ Len(<<Talk!Byte(r, "+")>>) = 1 /\ Len(Talk!CRLF(r)) = 2
         /\ <<Talk!Byte(r, "+")>>[1] = Talk!Byte(r, "+")
         /\ Talk!CRLF(r)[1] = Talk!Byte(r, "cr") /\ Talk!CRLF(r)[2] = Talk!Byte(r, "lf")
<1>1. Talk!Byte(r, "+") \in Bytes /\ Talk!Byte(r, "cr") \in Bytes /\ Talk!Byte(r, "lf") \in Bytes
  BY DEF Talk!Byte, Bytes
<1> QED
  BY <1>1 DEF Talk!CRLF

LEMMA LengthMark ==
  ASSUME NEW r \in Nat, NEW m \in Int
  PROVE  LET x == <<Talk!Byte(r, "$"), [Talk!Byte(r, "num") EXCEPT !.num = m]>> IN
         /\ x \in Seq(Bytes) /\ Len(x) = 2
         /\ x[1] = Talk!Byte(r, "$") /\ x[2] = [of |-> r, b |-> "num", num |-> m]
<1>1. [Talk!Byte(r, "num") EXCEPT !.num = m] = [of |-> r, b |-> "num", num |-> m]
  BY DEF Talk!Byte
<1>2. [of |-> r, b |-> "num", num |-> m] \in Bytes /\ Talk!Byte(r, "$") \in Bytes
  BY DEF Talk!Byte, Bytes
<1> QED
  BY <1>1, <1>2

\* An answer of one line.
LEMMA LineIs ==
  ASSUME NEW r \in Nat, NEW kind, kind.t = "line", kind.n \in Nat
  PROVE  LET a == Talk!Answer(r, kind) IN
         /\ a \in Seq(Bytes) /\ Len(a) = kind.n + 3 /\ a[1] = Talk!Byte(r, "+")
         /\ \A j \in 1..kind.n : a[1 + j] = Talk!Byte(r, "x")
         /\ a[kind.n + 2] = Talk!Byte(r, "cr") /\ a[kind.n + 3] = Talk!Byte(r, "lf")
<1> DEFINE n == kind.n
           x == <<Talk!Byte(r, "+")>>
           y == Talk!Text(r, n)
           z == Talk!CRLF(r)
<1>1. Talk!Answer(r, kind) = (x \o y) \o z
  BY DEF Talk!Answer
<1>2. /\ x \in Seq(Bytes) /\ Len(x) = 1 /\ z \in Seq(Bytes) /\ Len(z) = 2 /\ x[1] = Talk!Byte(r, "+")
      /\ z[1] = Talk!Byte(r, "cr") /\ z[2] = Talk!Byte(r, "lf")
  BY Marks
<1>3. n \in Nat /\ y \in Seq(Bytes) /\ Len(y) = n /\ \A j \in 1..n : y[j] = Talk!Byte(r, "x")
  BY TextIsSeq
<1> HIDE DEF n, x, y, z
<1> DEFINE xy == x \o y
<1>4. /\ xy \in Seq(Bytes) /\ Len(xy) = n + 1 /\ xy[1] = Talk!Byte(r, "+")
      /\ \A j \in 1..n : xy[1 + j] = Talk!Byte(r, "x")
  <2>1. x \in Seq(Bytes) /\ y \in Seq(Bytes)
    BY <1>2, <1>3
  <2>2. /\ x \o y \in Seq(Bytes) /\ Len(x \o y) = Len(x) + Len(y)
        /\ \A j \in 1..Len(x) : (x \o y)[j] = x[j]
        /\ \A j \in 1..Len(y) : (x \o y)[Len(x) + j] = y[j]
    BY <2>1, Joint
  <2>3. n \in Nat /\ Len(x) = 1 /\ Len(y) = n
    BY <1>2, <1>3
  <2> QED
    BY <1>2, <1>3, <2>2, <2>3
<1> HIDE DEF xy
<1>5. /\ xy \o z \in Seq(Bytes) /\ Len(xy \o z) = n + 3 /\ (xy \o z)[1] = xy[1]
      /\ \A j \in 1..n : (xy \o z)[1 + j] = xy[1 + j]
      /\ (xy \o z)[n + 2] = z[1] /\ (xy \o z)[n + 3] = z[2]
  <2>1. xy \in Seq(Bytes) /\ z \in Seq(Bytes)
    BY <1>2, <1>4
  <2>2. /\ xy \o z \in Seq(Bytes) /\ Len(xy \o z) = Len(xy) + Len(z)
        /\ \A j \in 1..Len(xy) : (xy \o z)[j] = xy[j]
        /\ \A j \in 1..Len(z) : (xy \o z)[Len(xy) + j] = z[j]
    BY <2>1, Joint
  <2>3. n \in Nat /\ Len(xy) = n + 1 /\ Len(z) = 2
    BY <1>2, <1>3, <1>4
  <2>4. (xy \o z)[(n + 1) + 1] = z[1] /\ (xy \o z)[(n + 1) + 2] = z[2]
    BY <2>2, <2>3
  <2>5. (n + 1) + 1 = n + 2 /\ (n + 1) + 2 = n + 3
    BY <2>3
  <2>6. (xy \o z)[n + 2] = z[1] /\ (xy \o z)[n + 3] = z[2]
    BY <2>4, <2>5
  <2>7. Len(xy \o z) = n + 3
    BY <2>2, <2>3
  <2>8. \A j \in 1..n + 1 : (xy \o z)[j] = xy[j]
    BY <2>2, <2>3
  <2> QED
    BY <2>2, <2>3, <2>6, <2>7, <2>8
<1> QED
  BY <1>1, <1>2, <1>4, <1>5 DEF xy, n

\* What an answer with a length begins with.
Opening(r, m) == <<Talk!Byte(r, "$"), [Talk!Byte(r, "num") EXCEPT !.num = m]>> \o Talk!CRLF(r)

LEMMA OpeningIs ==
  ASSUME NEW r \in Nat, NEW m \in Int
  PROVE  /\ Opening(r, m) \in Seq(Bytes) /\ Len(Opening(r, m)) = 4
         /\ Opening(r, m)[1] = Talk!Byte(r, "$")
         /\ Opening(r, m)[2] = [of |-> r, b |-> "num", num |-> m]
         /\ Opening(r, m)[3] = Talk!Byte(r, "cr") /\ Opening(r, m)[4] = Talk!Byte(r, "lf")
<1> DEFINE x == <<Talk!Byte(r, "$"), [Talk!Byte(r, "num") EXCEPT !.num = m]>>
           z == Talk!CRLF(r)
           a == x \o z
<1>1. /\ x \in Seq(Bytes) /\ Len(x) = 2
      /\ x[1] = Talk!Byte(r, "$") /\ x[2] = [of |-> r, b |-> "num", num |-> m]
  BY LengthMark
<1>2. /\ z \in Seq(Bytes) /\ Len(z) = 2
      /\ z[1] = Talk!Byte(r, "cr") /\ z[2] = Talk!Byte(r, "lf")
  BY Marks
<1>3. Opening(r, m) = a
  BY DEF Opening
<1> HIDE DEF x, z
<1>4. x \in Seq(Bytes) /\ z \in Seq(Bytes)
  BY <1>1, <1>2
<1>5. /\ x \o z \in Seq(Bytes) /\ Len(x \o z) = Len(x) + Len(z)
      /\ \A j \in 1..Len(x) : (x \o z)[j] = x[j]
      /\ \A j \in 1..Len(z) : (x \o z)[Len(x) + j] = z[j]
  BY <1>4, Joint
<1>6. Len(x) = 2 /\ Len(z) = 2
  BY <1>1, <1>2
<1> HIDE DEF a
<1>7. /\ a \in Seq(Bytes) /\ Len(a) = 4
      /\ a[1] = x[1] /\ a[2] = x[2] /\ a[2 + 1] = z[1] /\ a[2 + 2] = z[2]
  BY <1>5, <1>6 DEF a
<1> QED
  BY <1>1, <1>2, <1>3, <1>7

\* An answer with a length and n bytes.
LEMMA BulkIs ==
  ASSUME NEW r \in Nat, NEW kind, kind.t = "bulk", kind.n \in Nat
  PROVE  LET a == Talk!Answer(r, kind) IN
         /\ a \in Seq(Bytes) /\ Len(a) = kind.n + 4
         /\ a[1] = Talk!Byte(r, "$") /\ a[2] = [of |-> r, b |-> "num", num |-> kind.n]
         /\ a[3] = Talk!Byte(r, "cr") /\ a[4] = Talk!Byte(r, "lf")
         /\ \A j \in 1..kind.n : a[4 + j] = Talk!Byte(r, "x")
<1> DEFINE n == kind.n
           x == Opening(r, n)
           y == Talk!Text(r, n)
           a == x \o y
<1>1. Talk!Answer(r, kind) = a
  BY DEF Talk!Answer, Opening
<1>2. /\ x \in Seq(Bytes) /\ Len(x) = 4
      /\ x[1] = Talk!Byte(r, "$") /\ x[2] = [of |-> r, b |-> "num", num |-> n]
      /\ x[3] = Talk!Byte(r, "cr") /\ x[4] = Talk!Byte(r, "lf")
  <2>1. n \in Int
    OBVIOUS
  <2> HIDE DEF n
  <2> QED
    BY <2>1, OpeningIs
<1>3. n \in Nat /\ y \in Seq(Bytes) /\ Len(y) = n /\ \A j \in 1..n : y[j] = Talk!Byte(r, "x")
  BY TextIsSeq
<1> HIDE DEF n, x, y
<1>4. x \in Seq(Bytes) /\ y \in Seq(Bytes)
  BY <1>2, <1>3
<1>5. /\ x \o y \in Seq(Bytes) /\ Len(x \o y) = Len(x) + Len(y)
      /\ \A j \in 1..Len(x) : (x \o y)[j] = x[j]
      /\ \A j \in 1..Len(y) : (x \o y)[Len(x) + j] = y[j]
  BY <1>4, Joint
<1>6. Len(x) = 4 /\ Len(y) = n
  BY <1>2, <1>3
<1> HIDE DEF a
<1>7. /\ a \in Seq(Bytes) /\ Len(a) = n + 4
      /\ \A j \in 1..4 : a[j] = x[j]
      /\ \A j \in 1..n : a[4 + j] = y[j]
  BY <1>3, <1>5, <1>6 DEF a
<1>8. a[1] = x[1] /\ a[2] = x[2] /\ a[3] = x[3] /\ a[4] = x[4]
  BY <1>7
<1> QED
  BY <1>1, <1>2, <1>3, <1>7, <1>8 DEF n

\* The first of the bytes looked for.
LEMMA FirstIs ==
  ASSUME Talk!CliAssumption, NEW v, NEW B, NEW i \in Nat, NEW m \in i..Room - 1,
         v[m].b \in B, \A j \in i..m - 1 : v[j].b \notin B
  PROVE  Talk!FirstIn(v, i, B) = m
<1> DEFINE found == {j \in i..Room - 1 : v[j].b \in B}
<1>1. Room \in Nat /\ m \in Nat
  BY DEF Talk!CliAssumption
<1>2. m \in found /\ \A j \in found : m <= j
  BY <1>1
<1>3. found \subseteq Int
  BY <1>1
<1> HIDE DEF found
<1>4. \A c \in found : (\A j \in found : c <= j) => c = m
  BY <1>1, <1>2, <1>3
<1>5. (CHOOSE j \in found : \A c \in found : j <= c) = m
  BY <1>2, <1>4
<1>6. found # {}
  BY <1>2
<1> QED
  BY <1>5, <1>6 DEF Talk!FirstIn, found

\* What is printed from i on ends in front of the first terminator.
LEMMA StringIs ==
  ASSUME Talk!CliAssumption, NEW v, NEW i \in Nat, NEW n \in Nat, NEW r, i + n < Room,
         v[i + n].b = "nul", \A j \in i..i + n - 1 : v[j] = Talk!Byte(r, "x")
  PROVE  Talk!String(v, i) = Talk!Text(r, n)
<1>1. Room \in Nat
  BY DEF Talk!CliAssumption
<1>2. i + n \in i..Room - 1
  BY <1>1
<1>3. \A j \in i..(i + n) - 1 : v[j].b \notin {"nul"}
  BY DEF Talk!Byte
<1>4. Talk!FirstIn(v, i, {"nul"}) = i + n
  BY <1>2, <1>3, FirstIs
<1>5. Talk!String(v, i) = [j \in 1..n |-> v[i + j - 1]]
  <2>1. (i + n) - i = n
    OBVIOUS
  <2> QED
    BY <1>4, <2>1 DEF Talk!String
<1>6. ASSUME NEW j \in 1..n
      PROVE  v[i + j - 1] = Talk!Byte(r, "x")
  BY <1>1
<1> QED
  BY <1>5, <1>6 DEF Talk!Text


\* A non-empty set of naturals has a least element.
LEMMA LeastNat ==
  ASSUME NEW S \in SUBSET Nat, S # {}
  PROVE  \E m \in S : \A k \in S : m <= k
<1> DEFINE R == OpToRel(<, Nat)
<1>1. IsWellFoundedOn(R, Nat)
  BY NatLessThanWellFounded
<1>2. PICK m \in S : \A k \in S : ~(<<k, m>> \in R)
  <2> HIDE DEF R
  <2> QED BY <1>1, WFMin
<1>3. ASSUME NEW k \in S, k < m PROVE <<k, m>> \in R
  BY <1>3 DEF OpToRel
<1>4. \A k \in S : ~(k < m)
  BY <1>2, <1>3
<1> QED BY <1>4

\* The first of the bytes looked for is there when there is any.
LEMMA FirstBound ==
  ASSUME Talk!CliAssumption, NEW v, NEW B, NEW i \in Nat, NEW m \in i..Room - 1, v[m].b \in B
  PROVE  /\ Talk!FirstIn(v, i, B) \in i..m
         /\ \A j \in i..Talk!FirstIn(v, i, B) - 1 : v[j].b \notin B
<1> DEFINE found == {j \in i..Room - 1 : v[j].b \in B}
<1>1. Room \in Nat /\ m \in found /\ found \subseteq Nat /\ \A j \in found : j >= i
  BY DEF Talk!CliAssumption
<1>2. \A j \in i..m : v[j].b \in B => j \in found
  BY <1>1
<1>3. Talk!FirstIn(v, i, B) = CHOOSE j \in found : \A c \in found : j <= c
  BY <1>1 DEF Talk!FirstIn
<1> HIDE DEF found
<1>4. PICK l \in found : \A c \in found : l <= c
  BY <1>1, LeastNat
<1> DEFINE f == CHOOSE j \in found : \A c \in found : j <= c
<1>5. f \in found /\ \A c \in found : f <= c
  BY <1>4
<1> HIDE DEF f
<1>6. f \in i..m
  BY <1>1, <1>5
<1>7. ASSUME NEW j \in i..f - 1 PROVE v[j].b \notin B
  BY <1>1, <1>2, <1>5, <1>6
<1> QED BY <1>3, <1>6, <1>7 DEF f

LEMMA LinePrints ==
  ASSUME Talk!CliAssumption, NEW r \in Nat, NEW n \in Nat, n + 3 <= Room,
         NEW v, v = [j \in Talk!Index |-> v[j]],
         v[0] = Talk!Byte(r, "+"), \A j \in 1..n : v[j] = Talk!Byte(r, "x"),
         v[n + 1] = Talk!Byte(r, "cr")
  PROVE  /\ Talk!Result(v, n + 3).bad <=> n + 3 >= Room
         /\ n + 3 < Room => Talk!Result(v, n + 3).what = Talk!Shown(Talk!Text(r, n))
<1>1. Room \in Nat /\ Room >= 8
  BY DEF Talk!CliAssumption
<1>2. Talk!FirstIn(v, 1, {"cr", "nul"}) = n + 1
  <2>1. n + 1 \in 1..Room - 1
    BY <1>1
  <2>2. v[n + 1].b \in {"cr", "nul"}
    BY DEF Talk!Byte
  <2>3. \A j \in 1..(n + 1) - 1 : v[j].b \notin {"cr", "nul"}
    BY DEF Talk!Byte
  <2> QED
    BY <2>1, <2>2, <2>3, FirstIs
<1> DEFINE w == Talk!Put(v, n + 1)
           z == Talk!Put(w, n + 3)
<1>3. Talk!Result(v, n + 3) = Talk!LinePrinted(v, n + 3)
  <2>1. v[0].b = "+" /\ ~(n + 3 <= 1)
    BY DEF Talk!Byte
  <2> QED
    BY <2>1 DEF Talk!Result
<1>4. n + 1 < Room /\ v[n + 1].b = "cr"
  BY <1>1 DEF Talk!Byte
<1>5. Talk!LinePrinted(v, n + 3)
        = Talk!Printed(Talk!Shown(Talk!String(z, 1)), z, n + 1 >= Room \/ n + 3 >= Room)
  BY <1>2, <1>4 DEF Talk!LinePrinted, Talk!LineEnd
<1>6. Talk!Result(v, n + 3).bad = (n + 1 >= Room \/ n + 3 >= Room)
  BY <1>3, <1>5 DEF Talk!Printed
<1>7. Talk!Result(v, n + 3).what = Talk!Shown(Talk!String(z, 1))
  BY <1>3, <1>5 DEF Talk!Printed
<1>8. Talk!Result(v, n + 3).bad <=> n + 3 >= Room
  <2>1. ~(n + 1 >= Room)
    BY <1>1
  <2> QED
    BY <1>6, <2>1
<1>9. ASSUME n + 3 < Room
      PROVE  Talk!String(z, 1) = Talk!Text(r, n)
  <2>1. /\ w[n + 1] = Talk!Terminator /\ w = [j \in Talk!Index |-> w[j]]
        /\ \A j \in 1..n : w[j] = Talk!Byte(r, "x")
    <3>1. n + 1 \in Talk!Index /\ \A j \in 1..n : j \in Talk!Index /\ j # n + 1
      BY <1>1, <1>9 DEF Talk!Index
    <3> QED
      BY <3>1 DEF Talk!Put
  <2> HIDE DEF w
  <2>2. z[n + 1] = Talk!Terminator /\ \A j \in 1..n : z[j] = Talk!Byte(r, "x")
    <3>1. /\ n + 1 \in Talk!Index /\ n + 1 # n + 3
          /\ \A j \in 1..n : j \in Talk!Index /\ j # n + 3
      BY <1>1, <1>9 DEF Talk!Index
    <3> QED
      BY <2>1, <3>1 DEF Talk!Put
  <2> HIDE DEF z
  <2>3. z[1 + n].b = "nul"
    BY <2>2 DEF Talk!Terminator, Talk!Byte
  <2>4. \A j \in 1..1 + n - 1 : z[j] = Talk!Byte(r, "x")
    BY <2>2
  <2>5. 1 + n < Room
    BY <1>1, <1>9
  <2> QED
    BY <2>3, <2>4, <2>5, StringIs
<1> QED
  BY <1>7, <1>8, <1>9

\* Where the bytes of an answer with a length begin.
LEMMA BodyIs ==
  ASSUME NEW r \in Nat, NEW m \in Int, NEW v,
         v[1] = [of |-> r, b |-> "num", num |-> m],
         v[2] = Talk!Byte(r, "cr"), v[3] = Talk!Byte(r, "lf")
  PROVE  Talk!BodyAt(v) = 4 /\ Talk!Number(v) = m
<1>1. v[1].b = "num" /\ v[1].num = m /\ v[2].b = "cr" /\ v[3].b = "lf"
  BY DEF Talk!Byte
<1> QED
  BY <1>1 DEF Talk!BodyAt, Talk!Number

LEMMA NilPrints ==
  ASSUME Talk!CliAssumption, NEW r \in Nat, NEW v,
         v[0] = Talk!Byte(r, "$"), v[1] = [of |-> r, b |-> "num", num |-> -1],
         v[2] = Talk!Byte(r, "cr"), v[3] = Talk!Byte(r, "lf")
  PROVE  ~Talk!Result(v, 4).bad /\ Talk!Result(v, 4).what = Talk!Nil
<1>1. Talk!Number(v) = -1
  BY BodyIs
<1>2. Talk!Result(v, 4) = Talk!BulkPrinted(v)
  BY DEF Talk!Result, Talk!Byte
<1> QED
  BY <1>1, <1>2 DEF Talk!BulkPrinted, Talk!Printed

\* The array begins with n bytes and what precedes them.
BeginsWith(v, r, n) ==
  /\ v[0] = Talk!Byte(r, "$") /\ v[1] = [of |-> r, b |-> "num", num |-> n]
  /\ v[2] = Talk!Byte(r, "cr") /\ v[3] = Talk!Byte(r, "lf")
  /\ \A j \in 4..n + 3 : v[j] = Talk!Byte(r, "x")

LEMMA BulkPrints ==
  ASSUME Talk!CliAssumption, NEW r \in Nat, NEW n \in Nat, n + 4 <= Room,
         NEW v, v = [j \in Talk!Index |-> v[j]], BeginsWith(v, r, n)
  PROVE  /\ Talk!Result(v, n + 4).bad <=> n + 4 >= Room
         /\ n + 4 < Room => Talk!Result(v, n + 4).what = Talk!Shown(Talk!Text(r, n))
<1>1. Room \in Nat /\ Room >= 8
  BY DEF Talk!CliAssumption
<1>7. /\ v[0] = Talk!Byte(r, "$") /\ v[1] = [of |-> r, b |-> "num", num |-> n]
      /\ v[2] = Talk!Byte(r, "cr") /\ v[3] = Talk!Byte(r, "lf")
      /\ \A j \in 4..n + 3 : v[j] = Talk!Byte(r, "x")
  BY DEF BeginsWith
<1>2. Talk!BodyAt(v) = 4 /\ Talk!Number(v) = n
  BY <1>7, BodyIs
<1> DEFINE z == Talk!Put(v, n + 4)
<1>3. Talk!Result(v, n + 4) = Talk!BulkPrinted(v)
  <2>1. v[0].b = "$" /\ ~(n + 4 <= 1)
    BY <1>7 DEF Talk!Byte
  <2> QED
    BY <2>1 DEF Talk!Result
<1>4. Talk!BulkPrinted(v) = Talk!Printed(Talk!Shown(Talk!String(z, 4)), z, n + 4 >= Room)
  <2>1. n # -1 /\ 4 + n = n + 4
    OBVIOUS
  <2> QED
    BY <1>2, <2>1 DEF Talk!BulkPrinted
<1>5. /\ Talk!Result(v, n + 4).bad = (n + 4 >= Room)
      /\ Talk!Result(v, n + 4).what = Talk!Shown(Talk!String(z, 4))
  BY <1>3, <1>4 DEF Talk!Printed
<1>6. ASSUME n + 4 < Room
      PROVE  Talk!String(z, 4) = Talk!Text(r, n)
  <2>1. z[n + 4] = Talk!Terminator /\ \A j \in 4..n + 3 : z[j] = Talk!Byte(r, "x")
    <3>1. n + 4 \in Talk!Index /\ \A j \in 4..n + 3 : j \in Talk!Index /\ j # n + 4
      BY <1>1, <1>6 DEF Talk!Index
    <3> QED
      BY <1>7, <3>1 DEF Talk!Put
  <2> HIDE DEF z
  <2>2. z[4 + n].b = "nul"
    BY <2>1 DEF Talk!Terminator, Talk!Byte
  <2>3. \A j \in 4..4 + n - 1 : z[j] = Talk!Byte(r, "x")
    BY <2>1
  <2>4. 4 + n < Room
    BY <1>1, <1>6
  <2> QED
    BY <2>2, <2>3, <2>4, StringIs
<1> QED
  BY <1>5, <1>6

\* What an answer is printed as.
Says(r, kind) == CASE kind.t = "none" -> Talk!Nothing
                   [] kind.t = "nil"  -> Talk!Nil
                   [] OTHER           -> Talk!Shown(Talk!Text(r, kind.n))

\* An answer that has come as a whole is printed as what it says, and is too long
\* when it leaves no room for the terminator.
LEMMA AnswerPrints ==
  ASSUME Talk!CliAssumption, NEW r \in Nat, NEW kind \in Kinds, NEW rest,
         NEW k, k = Len(Talk!Answer(r, kind)), k >= 1, k <= Room,
         NEW v, v = [j \in Talk!Index |-> IF j < k THEN Talk!Answer(r, kind)[j + 1] ELSE rest[j]]
  PROVE  /\ Talk!Result(v, k).bad <=> k >= Room
         /\ ~Talk!Result(v, k).bad => Talk!Result(v, k).what = Says(r, kind)
<1> DEFINE a == Talk!Answer(r, kind)
           n == kind.n
<1>1. Room \in Nat /\ Room >= 8 /\ kind.t \in {"line", "bulk", "nil", "none"} /\ n \in Nat
  BY DEF Talk!CliAssumption
<1>2. v = [j \in Talk!Index |-> v[j]]
  OBVIOUS
<1>3. CASE kind.t = "line"
  <2>1. /\ k = n + 3 /\ a[1] = Talk!Byte(r, "+")
        /\ \A j \in 1..n : a[1 + j] = Talk!Byte(r, "x")
        /\ a[n + 2] = Talk!Byte(r, "cr")
    BY <1>1, <1>3, LineIs
  <2> HIDE DEF a, n
  <2>2. v[0] = Talk!Byte(r, "+") /\ v[n + 1] = Talk!Byte(r, "cr")
    <3>1. 0 \in Talk!Index /\ n + 1 \in Talk!Index /\ 0 < k /\ n + 1 < k /\ (n + 1) + 1 = n + 2
      BY <1>1, <2>1 DEF Talk!Index
    <3> QED
      BY <2>1, <3>1 DEF a
  <2>3. \A j \in 1..n : v[j] = Talk!Byte(r, "x")
    <3>1. ASSUME NEW j \in 1..n
          PROVE  j \in Talk!Index /\ j < k /\ j + 1 = 1 + j
      BY <1>1, <2>1 DEF Talk!Index
    <3> QED
      BY <2>1, <3>1 DEF a
  <2>4. n \in Nat /\ n + 3 <= Room
    BY <1>1, <2>1
  <2>5. /\ Talk!Result(v, n + 3).bad <=> n + 3 >= Room
        /\ n + 3 < Room => Talk!Result(v, n + 3).what = Talk!Shown(Talk!Text(r, n))
    BY <1>2, <2>2, <2>3, <2>4, LinePrints, ZenonT(60)
  <2>6. Says(r, kind) = Talk!Shown(Talk!Text(r, n))
    BY <1>3 DEF Says, n
  <2> QED
    BY <1>1, <2>1, <2>4, <2>5, <2>6
<1>4. CASE kind.t = "bulk"
  <2>3. /\ k = n + 4 /\ a[1] = Talk!Byte(r, "$") /\ a[2] = [of |-> r, b |-> "num", num |-> n]
        /\ a[3] = Talk!Byte(r, "cr") /\ a[4] = Talk!Byte(r, "lf")
        /\ \A j \in 1..n : a[4 + j] = Talk!Byte(r, "x")
    BY <1>1, <1>4, BulkIs
  <2> HIDE DEF a, n
  <2>4. /\ v[0] = Talk!Byte(r, "$") /\ v[1] = [of |-> r, b |-> "num", num |-> n]
        /\ v[2] = Talk!Byte(r, "cr") /\ v[3] = Talk!Byte(r, "lf")
    <3>1. {0, 1, 2, 3} \subseteq Talk!Index /\ \A j \in {0, 1, 2, 3} : j < k
      BY <1>1, <2>3 DEF Talk!Index
    <3> QED
      BY <2>3, <3>1 DEF a
  <2>5. \A j \in 4..n + 3 : v[j] = Talk!Byte(r, "x")
    <3>1. ASSUME NEW j \in 4..n + 3
          PROVE  j \in Talk!Index /\ j < k /\ j - 3 \in 1..n /\ j + 1 = 4 + (j - 3)
      BY <1>1, <2>3 DEF Talk!Index
    <3> QED
      BY <2>3, <3>1 DEF a
  <2>6. n \in Nat /\ n + 4 <= Room
    BY <1>1, <2>3
  <2>7. /\ Talk!Result(v, n + 4).bad <=> n + 4 >= Room
        /\ n + 4 < Room => Talk!Result(v, n + 4).what = Talk!Shown(Talk!Text(r, n))
    <3>1. BeginsWith(v, r, n)
      BY <2>4, <2>5 DEF BeginsWith
    <3> QED
      BY <1>2, <2>6, <3>1, BulkPrints
  <2>8. Says(r, kind) = Talk!Shown(Talk!Text(r, n))
    BY <1>4 DEF Says, n
  <2> QED
    BY <1>1, <2>3, <2>6, <2>7, <2>8
<1>5. CASE kind.t = "nil"
  <2>1. a = Opening(r, -1) /\ -1 \in Int
    BY <1>5 DEF Talk!Answer, Opening
  <2>2. /\ k = 4 /\ a[1] = Talk!Byte(r, "$") /\ a[2] = [of |-> r, b |-> "num", num |-> -1]
        /\ a[3] = Talk!Byte(r, "cr") /\ a[4] = Talk!Byte(r, "lf")
    BY <2>1, OpeningIs
  <2> HIDE DEF a
  <2>3. /\ v[0] = Talk!Byte(r, "$") /\ v[1] = [of |-> r, b |-> "num", num |-> -1]
        /\ v[2] = Talk!Byte(r, "cr") /\ v[3] = Talk!Byte(r, "lf")
    <3>1. {0, 1, 2, 3} \subseteq Talk!Index /\ \A j \in {0, 1, 2, 3} : j < k
      BY <1>1, <2>2 DEF Talk!Index
    <3> QED
      BY <2>2, <3>1 DEF a
  <2>4. ~Talk!Result(v, 4).bad /\ Talk!Result(v, 4).what = Talk!Nil
    BY <2>3, NilPrints
  <2>5. Says(r, kind) = Talk!Nil
    BY <1>5 DEF Says
  <2> QED
    BY <1>1, <2>2, <2>4, <2>5
<1>6. CASE kind.t = "none"
  BY <1>6 DEF Talk!Answer
<1> QED
  BY <1>1, <1>3, <1>4, <1>5, <1>6

\* Every byte of an answer is known by its request.
LEMMA AnswerBytes ==
  ASSUME Talk!CliAssumption, NEW r \in Nat, NEW kind \in Kinds
  PROVE  /\ Talk!Answer(r, kind) \in Seq(Bytes)
         /\ \A j \in 1..Len(Talk!Answer(r, kind)) : Talk!Answer(r, kind)[j].of = r
<1> DEFINE a == Talk!Answer(r, kind)
           n == kind.n
<1>1. kind.t \in {"line", "bulk", "nil", "none"} /\ n \in Nat
  BY DEF Talk!CliAssumption
<1>2. \A c : Talk!Byte(r, c).of = r
  BY DEF Talk!Byte
<1>3. CASE kind.t = "line"
  <2>1. /\ a \in Seq(Bytes) /\ Len(a) = n + 3 /\ a[1] = Talk!Byte(r, "+")
        /\ \A j \in 1..n : a[1 + j] = Talk!Byte(r, "x")
        /\ a[n + 2] = Talk!Byte(r, "cr") /\ a[n + 3] = Talk!Byte(r, "lf")
    BY <1>1, <1>3, LineIs
  <2> HIDE DEF a, n
  <2>2. ASSUME NEW j \in 1..Len(a)
        PROVE  j = 1 \/ (j - 1 \in 1..n /\ 1 + (j - 1) = j) \/ j = n + 2 \/ j = n + 3
    BY <1>1, <2>1
  <2>3. ASSUME NEW j \in 1..Len(a) PROVE a[j].of = r
    BY <1>2, <2>1, <2>2
  <2> QED BY <2>1, <2>3 DEF a
<1>4. CASE kind.t = "bulk"
  <2>1. /\ a \in Seq(Bytes) /\ Len(a) = n + 4
        /\ a[1] = Talk!Byte(r, "$") /\ a[2] = [of |-> r, b |-> "num", num |-> n]
        /\ a[3] = Talk!Byte(r, "cr") /\ a[4] = Talk!Byte(r, "lf")
        /\ \A j \in 1..n : a[4 + j] = Talk!Byte(r, "x")
    BY <1>1, <1>4, BulkIs
  <2> HIDE DEF a, n
  <2>2. ASSUME NEW j \in 1..Len(a)
        PROVE  j \in {1, 2, 3, 4} \/ (j - 4 \in 1..n /\ 4 + (j - 4) = j)
    BY <1>1, <2>1
  <2>3. ASSUME NEW j \in 1..Len(a) PROVE a[j].of = r
    BY <1>2, <2>1, <2>2
  <2> QED BY <2>1, <2>3 DEF a
<1>5. CASE kind.t = "nil"
  <2>1. a = Opening(r, -1) /\ -1 \in Int
    BY <1>5 DEF Talk!Answer, Opening
  <2>2. /\ a \in Seq(Bytes) /\ Len(a) = 4
        /\ a[1] = Talk!Byte(r, "$") /\ a[2] = [of |-> r, b |-> "num", num |-> -1]
        /\ a[3] = Talk!Byte(r, "cr") /\ a[4] = Talk!Byte(r, "lf")
    BY <2>1, OpeningIs
  <2> HIDE DEF a
  <2>3. ASSUME NEW j \in 1..Len(a) PROVE a[j].of = r
    <3>1. j \in {1, 2, 3, 4}
      BY <2>2
    <3> QED BY <1>2, <2>2, <3>1
  <2> QED BY <2>2, <2>3 DEF a
<1>6. CASE kind.t = "none"
  BY <1>6 DEF Talk!Answer
<1> QED BY <1>1, <1>3, <1>4, <1>5, <1>6

\* The array stays one, and only terminators are put into it.
Patched(z, v) == /\ z = [j \in Talk!Index |-> z[j]]
                 /\ \A j \in Talk!Index : z[j] = v[j] \/ z[j] = Talk!Terminator

LEMMA PutPatches ==
  ASSUME NEW v, NEW z, Patched(z, v), NEW i
  PROVE  /\ Patched(Talk!Put(z, i), v)
         /\ i \in Talk!Index => Talk!Put(z, i)[i] = Talk!Terminator
         /\ \A j \in Talk!Index : z[j] = Talk!Terminator => Talk!Put(z, i)[j] = Talk!Terminator
BY DEF Patched, Talk!Put

LEMMA ResultPatches ==
  ASSUME NEW v, v = [j \in Talk!Index |-> v[j]], NEW k
  PROVE  Patched(Talk!Result(v, k).v, v)
<1>1. Patched(v, v)
  BY DEF Patched
<1>2. \A i : Patched(Talk!Put(v, i), v)
  BY <1>1, PutPatches
<1>3. \A i, j : Patched(Talk!Put(Talk!Put(v, i), j), v)
  BY <1>2, PutPatches
<1>4. Patched(Talk!BulkPrinted(v).v, v)
  BY <1>2 DEF Talk!BulkPrinted, Talk!Printed
<1>5. Patched(Talk!LinePrinted(v, k).v, v)
  BY <1>2, <1>3 DEF Talk!LinePrinted, Talk!Printed
<1> QED BY <1>1, <1>4, <1>5 DEF Talk!Result, Talk!Printed

\* A text no longer than n, in which bytes of others are behind those of r.
InPart(t, r, n) == /\ Len(t) <= n
                   /\ \A i, j \in DOMAIN t : i < j /\ t[j].of = r => t[i].of = r

\* A text of the array from p on that ends at or in front of an end.
LEMMA TextInPart ==
  ASSUME Talk!CliAssumption, NEW r \in Nat \ {0}, NEW n \in Nat, NEW k \in Nat,
         NEW v, \A j \in Talk!Index : v[j].of = r <=> j < k,
         NEW z, Patched(z, v), NEW p \in Nat, p + n < Room, NEW m \in p..p + n, z[m] = Talk!Terminator
  PROVE  InPart(Talk!String(z, p), r, n)
<1> DEFINE f == Talk!FirstIn(z, p, {"nul"})
           t == Talk!String(z, p)
<1>1. Room \in Nat /\ Talk!Terminator.b = "nul" /\ Talk!Terminator.of = 0
  BY DEF Talk!CliAssumption, Talk!Terminator, Talk!Byte
<1>2. m \in p..Room - 1 /\ z[m].b \in {"nul"}
  BY <1>1
<1>3. f \in p..m /\ \A j \in p..f - 1 : z[j].b \notin {"nul"}
  BY <1>2, FirstBound
<1>4. t = [j \in 1..f - p |-> z[p + j - 1]]
  BY DEF Talk!String
<1> HIDE DEF f, t
<1>5. f - p \in 0..n
  BY <1>3
<1>6. Len(t) = f - p /\ DOMAIN t = 1..f - p /\ \A j \in 1..f - p : t[j] = z[p + j - 1]
  BY <1>4, <1>5
<1>7. ASSUME NEW j \in 1..f - p
      PROVE  t[j].of = r <=> p + j - 1 < k
  <2>1. p + j - 1 \in p..f - 1 /\ p + j - 1 \in Talk!Index
    BY <1>1, <1>2, <1>3, <1>5 DEF Talk!Index
  <2>2. z[p + j - 1] # Talk!Terminator
    BY <1>1, <1>3, <2>1
  <2>3. z[p + j - 1] = v[p + j - 1]
    BY <2>1, <2>2 DEF Patched
  <2> QED BY <1>6, <2>1, <2>3
<1>8. ASSUME NEW i \in 1..f - p, NEW j \in 1..f - p, i < j, t[j].of = r
      PROVE  t[i].of = r
  BY <1>5, <1>7, <1>8
<1> QED BY <1>5, <1>6, <1>8 DEF InPart, t

\* A part of an answer of one line.
LEMMA LinePart ==
  ASSUME Talk!CliAssumption, NEW r \in Nat \ {0}, NEW n \in Nat,
         NEW k \in Nat, k > 1, k < n + 3, k <= Room,
         NEW v, v = [j \in Talk!Index |-> v[j]], \A j \in Talk!Index : v[j].of = r <=> j < k,
         v[0].b = "+", \A j \in 1..n : j < k => v[j].b = "x", k = n + 2 => v[n + 1].b = "cr",
         k < Room => v[Room - 1].b = "nul"
  PROVE  /\ Talk!Result(v, k).bad => k >= Room
         /\ ~Talk!Result(v, k).bad => InPart(Talk!Result(v, k).what.text, r, n)
<1>1. Room \in Nat /\ Room >= 8
  BY DEF Talk!CliAssumption
<1> DEFINE cr   == Talk!FirstIn(v, 1, {"cr", "nul"})
           last == IF cr < Room /\ v[cr].b = "cr" THEN Talk!Put(v, cr) ELSE v
           z    == Talk!Put(last, k)
<1>2. /\ Talk!Result(v, k).bad = (cr >= Room \/ k >= Room)
      /\ Talk!Result(v, k).what.text = Talk!String(z, 1)
  <2>1. Talk!Result(v, k) = Talk!LinePrinted(v, k)
    <3>1. ~(k <= 1) /\ ~(v[0].b = "$")
      OBVIOUS
    <3> QED BY <3>1, Zenon DEF Talk!Result
  <2>2. Talk!LinePrinted(v, k) = Talk!Printed(Talk!Shown(Talk!String(z, 1)), z, cr >= Room \/ k >= Room)
    BY DEF Talk!LinePrinted, Talk!LineEnd
  <2> QED BY <2>1, <2>2 DEF Talk!Printed, Talk!Shown
<1>3. k < Room => cr \in 1..Room - 1
  <2> SUFFICES ASSUME k < Room PROVE cr \in 1..Room - 1
    OBVIOUS
  <2>1. Room - 1 \in 1..Room - 1 /\ v[Room - 1].b \in {"cr", "nul"}
    BY <1>1
  <2> QED BY <2>1, FirstBound
<1>4. ASSUME k < Room PROVE InPart(Talk!String(z, 1), r, n)
  <2>1. Patched(v, v) /\ Patched(last, v)
    BY PutPatches DEF Patched
  <2>2. k \in Talk!Index
    BY <1>1, <1>4 DEF Talk!Index
  <2>3. Patched(z, v) /\ z[k] = Talk!Terminator
        /\ \A j \in Talk!Index : last[j] = Talk!Terminator => z[j] = Talk!Terminator
    <3>1. ASSUME NEW w, Patched(w, v)
          PROVE  /\ Patched(Talk!Put(w, k), v)
                 /\ Talk!Put(w, k)[k] = Talk!Terminator
                 /\ \A j \in Talk!Index : w[j] = Talk!Terminator => Talk!Put(w, k)[j] = Talk!Terminator
      BY <2>2, <3>1, PutPatches
    <3> HIDE DEF last
    <3> QED BY <2>1, <3>1, Zenon
  <2>4. CASE k = n + 2
    <3>1. n + 1 \in 1..Room - 1 /\ n + 1 \in Talk!Index /\ v[n + 1].b = "cr"
      BY <1>1, <1>4, <2>4 DEF Talk!Index
    <3>2. v[n + 1].b \in {"cr", "nul"} /\ \A j \in 1..(n + 1) - 1 : v[j].b \notin {"cr", "nul"}
      BY <2>4, <3>1
    <3>3. cr = n + 1
      BY <3>1, <3>2, FirstIs
    <3>4. last = Talk!Put(v, n + 1)
      BY <1>1, <3>1, <3>3
    <3> HIDE DEF cr, last, z
    <3>5. last[n + 1] = Talk!Terminator
      <4>1. Talk!Put(v, n + 1)[n + 1] = Talk!Terminator
        BY <2>1, <3>1, PutPatches
      <4> QED BY <3>4, <4>1
    <3>6. z[n + 1] = Talk!Terminator
      BY <2>3, <3>1, <3>5
    <3>7. n + 1 \in 1..1 + n /\ 1 + n < Room
      BY <1>1, <1>4, <2>4
    <3> QED BY <2>3, <3>6, <3>7, TextInPart
  <2>5. CASE k # n + 2
    <3>1. k \in 1..1 + n
      BY <2>5
    <3> HIDE DEF cr, last, z
    <3>2. CASE 1 + n < Room
      BY <2>3, <3>1, <3>2, TextInPart
    <3>3. CASE ~(1 + n < Room)
      <4> DEFINE h == k - 1
      <4>1. h \in Nat /\ 1 + h < Room /\ k \in 1..1 + h /\ h <= n
        BY <1>1, <1>4, <3>1
      <4>2. InPart(Talk!String(z, 1), r, h)
        <5> HIDE DEF h
        <5> QED BY <2>3, <4>1, TextInPart
      <4>3. Len(Talk!String(z, 1)) \in Int
        <5>1. Talk!FirstIn(z, 1, {"nul"}) \in 1..k
          <6>1. k \in 1..Room - 1 /\ z[k].b \in {"nul"}
            BY <1>1, <1>4, <2>3 DEF Talk!Terminator, Talk!Byte
          <6> QED BY <6>1, FirstBound
        <5> QED BY <5>1 DEF Talk!String
      <4> QED BY <4>1, <4>2, <4>3 DEF InPart
    <3> QED BY <3>2, <3>3
  <2> QED BY <2>4, <2>5
<1> HIDE DEF cr, last, z
<1>5. Talk!Result(v, k).bad <=> k >= Room
  <2>1. k >= Room => cr >= Room \/ k >= Room
    OBVIOUS
  <2>2. cr >= Room \/ k >= Room => k >= Room
    BY <1>1, <1>3
  <2>3. cr >= Room \/ k >= Room <=> k >= Room
    BY <2>1, <2>2, Zenon
  <2> QED BY <1>2, <2>3, Zenon
<1>6. ~(k >= Room) => k < Room
  BY <1>1
<1> QED BY <1>2, <1>4, <1>5, <1>6, Zenon

\* A part of an answer with a length.
LEMMA BulkPart ==
  ASSUME Talk!CliAssumption, NEW r \in Nat \ {0}, NEW n \in Nat, NEW k \in Nat, k > 1,
         NEW v, v = [j \in Talk!Index |-> v[j]], \A j \in Talk!Index : v[j].of = r <=> j < k,
         v[0].b = "$", v[1] = [of |-> r, b |-> "num", num |-> n]
  PROVE  /\ Talk!Result(v, k).bad => n + 4 >= Room
         /\ ~Talk!Result(v, k).bad => InPart(Talk!Result(v, k).what.text, r, n)
<1>1. Room \in Nat
  BY DEF Talk!CliAssumption
<1> DEFINE p == Talk!BodyAt(v)
           z == Talk!Put(v, p + n)
<1>2. p \in 2..4 /\ Talk!Number(v) = n
  <2>1. v[1].b = "num" /\ v[1].num = n
    OBVIOUS
  <2>2. p = 2 + (IF v[2].b = "cr" THEN 1 ELSE 0)
              + (IF v[2 + (IF v[2].b = "cr" THEN 1 ELSE 0)].b = "lf" THEN 1 ELSE 0)
    BY <2>1, Zenon DEF Talk!BodyAt
  <2> HIDE DEF p
  <2>3. p \in 2..4
    BY <2>2
  <2> QED BY <2>1, <2>3 DEF Talk!Number
<1>3. /\ Talk!Result(v, k).bad = (p + n >= Room)
      /\ Talk!Result(v, k).what.text = Talk!String(z, p)
  <2>1. Talk!Result(v, k) = Talk!BulkPrinted(v)
    <3>1. ~(k <= 1) /\ v[0].b = "$"
      OBVIOUS
    <3> QED BY <3>1, Zenon DEF Talk!Result
  <2>2. n # -1
    OBVIOUS
  <2>3. Talk!BulkPrinted(v) = Talk!Printed(Talk!Shown(Talk!String(z, p)), z, p + n >= Room)
    BY <1>2, <2>2 DEF Talk!BulkPrinted
  <2> QED BY <2>1, <2>3 DEF Talk!Printed, Talk!Shown
<1> HIDE DEF p
<1>4. ASSUME p + n < Room PROVE InPart(Talk!String(z, p), r, n)
  <2>1. p + n \in Talk!Index /\ p \in Nat /\ p + n \in p..p + n
    BY <1>1, <1>2, <1>4 DEF Talk!Index
  <2>2. Patched(v, v)
    BY DEF Patched
  <2>3. Patched(z, v) /\ z[p + n] = Talk!Terminator
    BY <2>1, <2>2, PutPatches
  <2> HIDE DEF z
  <2> QED BY <1>4, <2>1, <2>3, TextInPart
<1> HIDE DEF z
<1>5. p + n >= Room => n + 4 >= Room
  BY <1>1, <1>2
<1>6. ~(p + n >= Room) => p + n < Room
  BY <1>1, <1>2
<1> QED BY <1>3, <1>4, <1>5, <1>6, Zenon

\* A part of an answer, in an array that holds bytes of older answers, is printed no
\* longer than the answer would be, with older bytes only behind its own; and the
\* array is left only for an answer that would not fit.
LEMMA PartPrints ==
  ASSUME Talk!CliAssumption, NEW r \in Nat, NEW kind \in Kinds, NEW rest,
         \A j \in Talk!Index : rest[j].of \in Nat /\ rest[j].of < r, rest[Room - 1].b = "nul",
         NEW k \in Nat, k >= 1, k < Len(Talk!Answer(r, kind)), k <= Room,
         NEW v, v = [j \in Talk!Index |-> IF j < k THEN Talk!Answer(r, kind)[j + 1] ELSE rest[j]]
  PROVE  /\ Talk!Result(v, k).bad => Len(Talk!Answer(r, kind)) >= Room
         /\ ~Talk!Result(v, k).bad => InPart(Talk!Result(v, k).what.text, r, kind.n)
<1> DEFINE a == Talk!Answer(r, kind)
           n == kind.n
<1>1. Room \in Nat /\ Room >= 8 /\ kind.t \in {"line", "bulk", "nil", "none"} /\ n \in Nat
  BY DEF Talk!CliAssumption
<1>2. a \in Seq(Bytes) /\ Len(a) \in Nat /\ \A j \in 1..Len(a) : a[j].of = r
  BY AnswerBytes
<1> HIDE DEF a
<1>3. ASSUME NEW j \in Talk!Index
      PROVE  (j < k => v[j] = a[j + 1]) /\ (~(j < k) => v[j] = rest[j]) /\ (v[j].of = r <=> j < k)
  <2>1. CASE j < k
    <3>1. j + 1 \in 1..Len(a)
      BY <1>1, <1>2, <2>1 DEF Talk!Index, a
    <3> QED BY <1>2, <2>1, <3>1 DEF a
  <2>2. CASE ~(j < k)
    <3>1. v[j] = rest[j] /\ rest[j].of \in Nat /\ rest[j].of < r
      BY <2>2
    <3> QED BY <2>2, <3>1
  <2> QED BY <2>1, <2>2
<1>4. v = [j \in Talk!Index |-> v[j]]
  OBVIOUS
<1>5. 0 \in Talk!Index /\ 1 \in Talk!Index /\ Room - 1 \in Talk!Index
  BY <1>1 DEF Talk!Index
<1>6. r \in Nat \ {0}
  BY <1>5
<1>7. CASE k = 1
  <2>1. Talk!Result(v, k) = Talk!Printed(Talk!Nothing, v, FALSE)
    BY <1>7 DEF Talk!Result
  <2>2. ~Talk!Result(v, k).bad /\ Talk!Result(v, k).what.text = <<>>
    BY <2>1 DEF Talk!Printed, Talk!Nothing
  <2> QED BY <1>1, <2>2 DEF InPart
<1>8. CASE k # 1 /\ kind.t = "line"
  <2>1. /\ Len(a) = n + 3 /\ a[1] = Talk!Byte(r, "+")
        /\ \A j \in 1..n : a[1 + j] = Talk!Byte(r, "x")
        /\ a[n + 2] = Talk!Byte(r, "cr")
    BY <1>1, <1>8, LineIs DEF a
  <2> HIDE DEF n
  <2>2. k > 1 /\ k < n + 3
    BY <1>8, <2>1 DEF a
  <2>3. v[0].b = "+"
    BY <1>3, <1>5, <2>1 DEF Talk!Byte
  <2>4. ASSUME NEW j \in 1..n, j < k PROVE v[j].b = "x"
    <3>1. j \in Talk!Index /\ j + 1 = 1 + j
      BY <1>1, <2>4 DEF Talk!Index
    <3> QED BY <1>3, <2>1, <2>4, <3>1 DEF Talk!Byte
  <2>5. ASSUME k = n + 2 PROVE v[n + 1].b = "cr"
    <3>1. n + 1 \in Talk!Index /\ n + 1 < k /\ (n + 1) + 1 = n + 2
      BY <1>1, <2>5 DEF Talk!Index
    <3> QED BY <1>3, <2>1, <3>1 DEF Talk!Byte
  <2>6. k < Room => v[Room - 1].b = "nul"
    <3> SUFFICES ASSUME k < Room PROVE v[Room - 1].b = "nul"
      OBVIOUS
    <3>1. ~(Room - 1 < k)
      BY <1>1
    <3> QED BY <1>3, <1>5, <3>1
  <2>7. \A j \in Talk!Index : v[j].of = r <=> j < k
    BY <1>3
  <2>8. /\ Talk!Result(v, k).bad => k >= Room
        /\ ~Talk!Result(v, k).bad => InPart(Talk!Result(v, k).what.text, r, n)
    <3>1. \A j \in 1..n : j < k => v[j].b = "x"
      BY <2>4
    <3>2. k = n + 2 => v[n + 1].b = "cr"
      BY <2>5
    <3>3. k > 1
      BY <2>2
    <3>4. k < n + 3
      BY <2>2
    <3>5. n \in Nat
      BY <1>1
    <3> QED BY <1>4, <1>6, <2>3, <2>6, <2>7, <3>1, <3>2, <3>3, <3>4, <3>5, LinePart, ZenonT(30)
  <2> QED BY <1>1, <1>2, <2>8 DEF n, a
<1>9. CASE k # 1 /\ kind.t = "bulk"
  <2>1. Len(a) = n + 4 /\ a[1] = Talk!Byte(r, "$") /\ a[2] = [of |-> r, b |-> "num", num |-> n]
    BY <1>1, <1>9, BulkIs DEF a
  <2> HIDE DEF n
  <2>2. k > 1
    BY <1>9
  <2>3. v[0].b = "$" /\ v[1] = [of |-> r, b |-> "num", num |-> n]
    BY <1>3, <1>5, <2>1, <2>2 DEF Talk!Byte
  <2>4. \A j \in Talk!Index : v[j].of = r <=> j < k
    BY <1>3
  <2>5. /\ Talk!Result(v, k).bad => n + 4 >= Room
        /\ ~Talk!Result(v, k).bad => InPart(Talk!Result(v, k).what.text, r, n)
    BY <1>1, <1>4, <1>6, <2>2, <2>3, <2>4, BulkPart
  <2> QED BY <2>1, <2>5 DEF n, a
<1>10. CASE k # 1 /\ kind.t = "nil"
  <2>1. a = Opening(r, -1) /\ -1 \in Int
    BY <1>10 DEF Talk!Answer, Opening, a
  <2>2. a[1] = Talk!Byte(r, "$") /\ a[2] = [of |-> r, b |-> "num", num |-> -1]
    BY <2>1, OpeningIs
  <2>3. v[0].b = "$" /\ v[1].b = "num" /\ v[1].num = -1 /\ ~(k <= 1)
    BY <1>3, <1>5, <1>10, <2>2 DEF Talk!Byte
  <2>4. Talk!Result(v, k) = Talk!BulkPrinted(v) /\ Talk!Number(v) = -1
    BY <2>3 DEF Talk!Result, Talk!Number
  <2>5. ~Talk!Result(v, k).bad /\ Talk!Result(v, k).what.text = <<>>
    BY <2>4 DEF Talk!BulkPrinted, Talk!Printed, Talk!Nil
  <2> QED BY <1>1, <2>5 DEF InPart
<1>11. CASE kind.t = "none"
  BY <1>11 DEF Talk!Answer
<1> QED BY <1>1, <1>7, <1>8, <1>9, <1>10, <1>11

\* The request of the last line, and what the server answers it with.
Latest == Len(asked)
ToCome == Talk!Answer(Latest, asked[Latest])

\* At the prompt nothing is on its way; else it is the last request or its answer.
OnTheWay ==
  /\ talkAt = "recv" => asked # <<>>
  /\ srv = "up" /\ talkAt = "recv" => \/ up = <<Latest>> /\ back = <<>>
                                      \/ up = <<>> /\ back = ToCome
  /\ srv = "up" /\ talkAt # "recv" => up = <<>> /\ back = <<>>
  /\ srv # "up" => back = <<>> \/ (talkAt = "recv" /\ back = ToCome)

Overrun == talkStatus = "overrun" => \E r \in DOMAIN asked : Len(Talk!Answer(r, asked[r])) >= Room

Told == talkAt = "prompt" /\ srv = "up" /\ asked # <<>> /\ talkStatus = "ok"
          => shown = Says(Latest, asked[Latest])

\* What the array holds of answers is of older ones than the one that is awaited, and
\* an answer that fitted has left its last byte alone.
ValHeld == /\ val = [j \in Talk!Index |-> val[j]]
           /\ \A j \in Talk!Index : /\ val[j].of \in Nat /\ val[j].of <= Latest
                                    /\ talkAt = "recv" => val[j].of < Latest
           /\ talkStatus = "ok" => val[Room - 1].b = "nul"

ToldInPart == talkAt = "prompt" /\ srv = "up" /\ asked # <<>> /\ talkStatus = "ok"
                => InPart(shown.text, Latest, asked[Latest].n)

TalkInv == /\ asked \in Seq(Kinds) /\ late \in {"no", "now", "since"}
           /\ late = "no" => OnTheWay /\ Told /\ ValHeld /\ Overrun
           /\ late = "now" => ToldInPart /\ Overrun

LEMMA TalkBegins == ASSUME Talk!CliAssumption, Talk!Init PROVE TalkInv
<1>1. Room - 1 \in Talk!Index
  BY DEF Talk!CliAssumption, Talk!Index
<1>2. val = [j \in Talk!Index |-> Talk!Terminator]
  BY DEF Talk!Init
<1>3. asked = <<>> /\ talkAt = "prompt" /\ talkStatus = "ok" /\ late = "no" /\ up = <<>> /\ back = <<>> /\ srv = "up"
  BY DEF Talk!Init
<1>4. ValHeld
  BY <1>1, <1>2, <1>3 DEF ValHeld, Latest, Talk!Terminator, Talk!Byte
<1> QED
  BY <1>3, <1>4 DEF TalkInv, OnTheWay, Told, Overrun

LEMMA SendKeeps ==
  ASSUME TalkInv, NEW kind \in Kinds, Talk!Send(kind), talkStatus = "ok"
  PROVE  TalkInv'
<1>1. /\ asked' = Append(asked, kind) /\ asked \in Seq(Kinds) /\ talkAt = "prompt"
      /\ talkAt' \in {"recv", "dead"} /\ (talkAt' = "dead" => srv # "up")
      /\ srv' = srv /\ back' = back /\ late' = late /\ talkStatus' = talkStatus /\ val' = val
      /\ up' = IF srv = "up" THEN Append(up, Len(asked')) ELSE up
  BY DEF TalkInv, Talk!Send
<1>2. asked' \in Seq(Kinds) /\ asked' # <<>> /\ Len(asked') = Len(asked) + 1 /\ Len(asked) \in Nat
  BY <1>1
<1>3. Overrun'
  BY <1>1 DEF Overrun
<1>4. ASSUME late = "no"
      PROVE  OnTheWay' /\ Told' /\ ValHeld'
  <2>1. back = <<>> /\ (srv = "up" => up = <<>>)
    BY <1>1, <1>4 DEF TalkInv, OnTheWay
  <2>2. srv = "up" => up' = <<Len(asked')>>
    BY <1>1, <2>1
  <2>3. OnTheWay'
    BY <1>1, <1>2, <2>1, <2>2 DEF OnTheWay, Latest
  <2>4. ValHeld'
    <3>1. \A j \in Talk!Index : val[j].of \in Nat /\ val[j].of <= Len(asked)
      BY <1>4 DEF TalkInv, ValHeld, Latest
    <3>2. \A j \in Talk!Index : val[j].of <= Len(asked') /\ val[j].of < Len(asked')
      BY <1>2, <3>1
    <3> QED
      BY <1>1, <1>4, <3>1, <3>2 DEF TalkInv, ValHeld, Latest
  <2> QED
    BY <1>1, <2>3, <2>4 DEF Told
<1>5. ToldInPart'
  BY <1>1 DEF ToldInPart
<1> QED
  BY <1>1, <1>2, <1>3, <1>4, <1>5 DEF TalkInv

\* What the array holds once an answer that fits has been printed.
LEMMA HoldsTheAnswer ==
  ASSUME Talk!CliAssumption, TalkInv, late = "no", NEW k \in Nat, k < Room, talkStatus = "ok",
         Latest \in Nat, back = ToCome, k = Len(back), asked[Latest] \in Kinds,
         NEW v, v = [j \in Talk!Index |-> IF j < k THEN back[j + 1] ELSE val[j]]
  PROVE  LET z == Talk!Put(Talk!Result(v, k).v, 0)
         IN /\ z = [j \in Talk!Index |-> z[j]]
            /\ \A j \in Talk!Index : z[j].of \in Nat /\ z[j].of <= Latest
            /\ z[Room - 1].b = "nul"
<1> DEFINE z == Talk!Put(Talk!Result(v, k).v, 0)
<1>1. Room \in Nat /\ Room - 1 \in Talk!Index /\ ~(Room - 1 < k)
  BY DEF Talk!CliAssumption, Talk!Index
<1>2. v = [j \in Talk!Index |-> v[j]]
  OBVIOUS
<1>3. Patched(z, v)
  BY <1>2, ResultPatches, PutPatches
<1> HIDE DEF z
<1>4. \A j \in 1..k : back[j].of = Latest
  BY AnswerBytes DEF ToCome
<1>5. ASSUME NEW j \in Talk!Index PROVE v[j].of \in Nat /\ v[j].of <= Latest
  <2>1. CASE j < k
    <3>1. j + 1 \in 1..k /\ v[j] = back[j + 1]
      BY <1>1, <2>1 DEF Talk!Index
    <3> QED BY <1>4, <3>1
  <2>2. CASE ~(j < k)
    <3>1. v[j] = val[j]
      BY <2>2
    <3> QED BY <3>1 DEF TalkInv, ValHeld
  <2> QED BY <2>1, <2>2
<1>6. v[Room - 1].b = "nul"
  <2>1. v[Room - 1] = val[Room - 1]
    BY <1>1
  <2> QED BY <2>1 DEF TalkInv, ValHeld
<1>7. Talk!Terminator.of = 0 /\ Talk!Terminator.b = "nul"
  BY DEF Talk!Terminator, Talk!Byte
<1>8. ASSUME NEW j \in Talk!Index PROVE z[j].of \in Nat /\ z[j].of <= Latest
  <2>1. z[j] = v[j] \/ z[j] = Talk!Terminator
    BY <1>3 DEF Patched
  <2> QED BY <1>5, <1>7, <2>1
<1>9. z[Room - 1].b = "nul"
  BY <1>1, <1>3, <1>6, <1>7 DEF Patched
<1>10. z = [j \in Talk!Index |-> z[j]]
  BY <1>3 DEF Patched
<1> QED BY <1>8, <1>9, <1>10 DEF z

LEMMA RecvKeeps ==
  ASSUME Talk!CliAssumption, TalkInv, NEW k \in 1..Room, Talk!Recv(k), talkStatus = "ok"
  PROVE  TalkInv'
<1> DEFINE v == [j \in Talk!Index |-> IF j < k THEN back[j + 1] ELSE val[j]]
<1>1. /\ talkAt = "recv" /\ k \in 1..Len(back) /\ k <= Room /\ asked' = asked /\ up' = up /\ srv' = srv
      /\ talkAt' = "prompt"
      /\ late' = IF late # "no" THEN "since" ELSE IF k < Len(back) THEN "now" ELSE "no"
      /\ back' = SubSeq(back, k + 1, Len(back))
      /\ shown' = Talk!Result(v, k).what
      /\ val' = Talk!Put(Talk!Result(v, k).v, 0)
      /\ talkStatus' = IF Talk!Result(v, k).bad THEN "overrun" ELSE "ok"
  BY DEF Talk!Recv, Talk!AfterRead
<1>2. asked \in Seq(Kinds) /\ late' \in {"no", "now", "since"} /\ k \in Nat /\ Room \in Nat
  BY <1>1 DEF TalkInv, Talk!CliAssumption
<1>3. CASE late # "no"
  BY <1>1, <1>2, <1>3 DEF TalkInv
<1>4. CASE late = "no"
  <2>1. asked # <<>> /\ back = ToCome /\ (srv = "up" => up = <<>>)
    BY <1>1, <1>4 DEF TalkInv, OnTheWay
  <2>2. Latest \in DOMAIN asked /\ Latest \in Nat /\ asked[Latest] \in Kinds
    BY <1>2, <2>1 DEF Latest
  <2>3. Len(back) \in Nat /\ back \in Seq(Bytes)
    BY <2>1, <2>2, AnswerBytes DEF ToCome
  <2>4. v = [j \in Talk!Index |-> IF j < k THEN Talk!Answer(Latest, asked[Latest])[j + 1] ELSE val[j]]
    BY <2>1 DEF ToCome
  <2>5. v = [j \in Talk!Index |-> IF j < k THEN back[j + 1] ELSE val[j]]
    OBVIOUS
  <2> HIDE DEF v
  <2>6. CASE k = Len(back)
    <3>1. late' = "no" /\ back' = <<>>
      BY <1>1, <1>4, <2>3, <2>6
    <3>2. /\ Talk!Result(v, k).bad <=> k >= Room
          /\ ~Talk!Result(v, k).bad => Talk!Result(v, k).what = Says(Latest, asked[Latest])
      <4>1. k = Len(Talk!Answer(Latest, asked[Latest])) /\ k >= 1 /\ k <= Room
        BY <1>1, <2>1, <2>6 DEF ToCome
      <4> QED
        BY <2>2, <2>4, <4>1, AnswerPrints
    <3>3. OnTheWay'
      BY <1>1, <2>1, <3>1 DEF OnTheWay
    <3>4. Overrun'
      <4>1. k = Len(Talk!Answer(Latest, asked[Latest]))
        BY <2>1, <2>6 DEF ToCome
      <4> QED BY <1>1, <2>2, <3>2, <4>1 DEF Overrun
    <3>5. Told'
      BY <1>1, <3>2 DEF Told, Latest
    <3>6. ValHeld'
      <4>1. /\ val' = [j \in Talk!Index |-> val'[j]]
            /\ \A j \in Talk!Index : val'[j].of \in Nat /\ val'[j].of <= Latest
            /\ talkStatus' = "ok" => val'[Room - 1].b = "nul"
        <5>1. CASE k < Room
          BY <1>1, <1>2, <1>4, <2>1, <2>2, <2>5, <2>6, <5>1, HoldsTheAnswer
        <5>2. CASE ~(k < Room)
          <6>1. talkStatus' = "overrun"
            BY <1>1, <1>2, <3>2, <5>2
          <6>2. v = [j \in Talk!Index |-> v[j]]
            BY <2>5
          <6>3. Patched(val', v)
            BY <1>1, <6>2, ResultPatches, PutPatches
          <6>4. Talk!Terminator.of = 0
            BY DEF Talk!Terminator, Talk!Byte
          <6>5. ASSUME NEW j \in Talk!Index PROVE v[j].of \in Nat /\ v[j].of <= Latest
            <7>1. CASE j < k
              <8>1. j + 1 \in 1..Len(back) /\ v[j] = back[j + 1]
                BY <1>2, <2>5, <2>6, <7>1 DEF Talk!Index
              <8>2. back[j + 1].of = Latest
                BY <2>1, <2>2, <8>1, AnswerBytes DEF ToCome
              <8> QED BY <2>2, <8>1, <8>2
            <7>2. CASE ~(j < k)
              <8>1. v[j] = val[j]
                BY <2>5, <7>2
              <8> QED BY <1>4, <8>1 DEF TalkInv, ValHeld
            <7> QED BY <7>1, <7>2
          <6> QED BY <2>2, <6>1, <6>3, <6>4, <6>5 DEF Patched
        <5> QED BY <5>1, <5>2
      <4> QED BY <1>1, <4>1 DEF ValHeld, Latest
    <3> QED BY <1>1, <1>2, <3>1, <3>3, <3>4, <3>5, <3>6 DEF TalkInv
  <2>7. CASE k # Len(back)
    <3>1. late' = "now" /\ k < Len(back)
      BY <1>1, <1>4, <2>3, <2>7
    <3>2. \A j \in Talk!Index : val[j].of \in Nat /\ val[j].of < Latest
      BY <1>1, <1>4 DEF TalkInv, ValHeld
    <3>3. val[Room - 1].b = "nul"
      BY <1>4 DEF TalkInv, ValHeld
    <3>4. k < Len(Talk!Answer(Latest, asked[Latest])) /\ k >= 1
      BY <1>1, <2>1, <3>1 DEF ToCome
    <3>5. /\ Talk!Result(v, k).bad => Len(Talk!Answer(Latest, asked[Latest])) >= Room
          /\ ~Talk!Result(v, k).bad => InPart(Talk!Result(v, k).what.text, Latest, asked[Latest].n)
      BY <1>1, <1>2, <2>2, <2>4, <3>2, <3>3, <3>4, PartPrints
    <3>6. Overrun'
      BY <1>1, <2>2, <3>5 DEF Overrun
    <3>7. ToldInPart'
      BY <1>1, <3>5 DEF ToldInPart, Latest
    <3> QED BY <1>1, <1>2, <3>1, <3>6, <3>7 DEF TalkInv
  <2> QED BY <2>6, <2>7
<1> QED
  BY <1>3, <1>4

LEMMA ServeKeeps ==
  ASSUME TalkInv, Talk!Serve, talkStatus = "ok"
  PROVE  TalkInv'
<1>1. /\ srv = "up" /\ up # <<>> /\ back' = back \o Talk!Answer(up[1], asked[up[1]]) /\ up' = Tail(up)
      /\ asked' = asked /\ srv' = srv /\ talkAt' = talkAt /\ shown' = shown /\ late' = late
      /\ talkStatus' = talkStatus /\ val' = val
  BY DEF Talk!Serve
<1>2. ASSUME late = "no"
      PROVE  OnTheWay'
  <2>1. talkAt = "recv" /\ up = <<Latest>> /\ back = <<>> /\ asked # <<>>
    BY <1>1, <1>2 DEF TalkInv, OnTheWay
  <2>2. up' = <<>> /\ up[1] = Latest
    BY <1>1, <2>1
  <2>3. back' = ToCome
    BY <1>1, <2>1, <2>2, AnswerBytes DEF ToCome
  <2> QED
    BY <1>1, <2>1, <2>2, <2>3 DEF OnTheWay, ToCome, Latest
<1>3. (Told => Told') /\ (ValHeld => ValHeld') /\ (Overrun => Overrun') /\ (ToldInPart => ToldInPart')
  BY <1>1 DEF Told, ValHeld, Overrun, ToldInPart, Latest
<1> QED
  BY <1>1, <1>2, <1>3 DEF TalkInv

LEMMA RecvNothingKeeps ==
  ASSUME Talk!CliAssumption, TalkInv, Talk!RecvNothing, talkStatus = "ok"
  PROVE  TalkInv'
<1>1. /\ talkAt = "recv" /\ srv = "gone" /\ back = <<>> /\ val' = Talk!Put(val, 0) /\ talkAt' = "prompt"
      /\ asked' = asked /\ up' = up /\ back' = back /\ srv' = srv /\ late' = late
      /\ talkStatus' = talkStatus
  BY DEF Talk!RecvNothing, Talk!AfterRead
<1>2. ASSUME late = "no" PROVE ValHeld'
  <2>1. ValHeld /\ Room - 1 \in Talk!Index /\ asked \in Seq(Kinds)
    BY <1>2 DEF TalkInv, Talk!CliAssumption, Talk!Index
  <2>2. Patched(val, val)
    BY <2>1 DEF Patched, ValHeld
  <2>3. Patched(val', val)
    BY <1>1, <2>2, PutPatches
  <2>4. Talk!Terminator.of = 0 /\ Talk!Terminator.b = "nul"
    BY DEF Talk!Terminator, Talk!Byte
  <2>5. Latest \in Nat /\ Latest' = Latest
    BY <1>1, <2>1 DEF Latest
  <2> QED BY <1>1, <2>1, <2>3, <2>4, <2>5 DEF ValHeld, Patched
<1>3. late = "no" => OnTheWay' /\ Told' /\ Overrun'
  BY <1>1 DEF TalkInv, OnTheWay, Told, Overrun
<1>4. late = "now" => ToldInPart' /\ Overrun'
  BY <1>1 DEF TalkInv, ToldInPart, Overrun
<1> QED BY <1>1, <1>2, <1>3, <1>4 DEF TalkInv

\* While no read leaves a part of an answer, what is shown is the answer to the last
\* line, with no byte of an older one, for any array, lines and answers.  The first read
\* that does leave one is printed no longer than the answer, and older bytes are only
\* behind its own; and only an answer that leaves no room for its terminator is written
\* behind the array (kvs_cli.c:109-138).
THEOREM AnswersAreShown ==
  ASSUME Talk!CliAssumption
  PROVE  Talk!Spec => []Talk!ShownIsAnswer
<1>1. Talk!Init => TalkInv
  BY TalkBegins
<1>2. TalkInv /\ [Talk!Next]_Talk!vars => TalkInv'
  <2> SUFFICES ASSUME TalkInv, [Talk!Next]_Talk!vars
               PROVE  TalkInv'
    OBVIOUS
  <2>1. CASE UNCHANGED Talk!vars
    BY <2>1 DEF Talk!vars, TalkInv, OnTheWay, Told, ValHeld, Overrun, ToldInPart, Latest, ToCome
  <2>2. CASE Talk!Next
    <3>1. talkStatus = "ok"
      BY <2>2 DEF Talk!Next
    <3>2. CASE Talk!Quit
      BY <3>2 DEF Talk!Quit, TalkInv, OnTheWay, Told, ValHeld, Overrun, ToldInPart, Latest, ToCome
    <3>3. CASE Talk!Gone
      BY <3>3 DEF Talk!Gone, TalkInv, OnTheWay, Told, ValHeld, Overrun, ToldInPart, Latest, ToCome
    <3> QED
      BY <2>2, <3>1, <3>2, <3>3, SendKeeps, RecvKeeps, ServeKeeps, RecvNothingKeeps DEF Talk!Next
  <2> QED
    BY <2>1, <2>2
<1>3. TalkInv => Talk!ShownIsAnswer
  <2> SUFFICES ASSUME TalkInv PROVE Talk!ShownIsAnswer
    OBVIOUS
  <2> DEFINE answered == talkAt = "prompt" /\ srv = "up" /\ asked # <<>> /\ talkStatus = "ok"
  <2>1. late = "no" /\ answered => shown = Talk!Expected(Latest)
    BY DEF TalkInv, Told, Says, Talk!Expected
  <2>2. late = "now" /\ answered =>
          /\ Len(shown.text) <= asked[Latest].n
          /\ \A i, j \in DOMAIN shown.text :
               i < j /\ shown.text[j].of = Latest => shown.text[i].of = Latest
    BY DEF TalkInv, ToldInPart, InPart
  <2>3. late # "since" /\ talkStatus = "overrun" =>
          \E q \in DOMAIN asked : Len(Talk!Answer(q, asked[q])) >= Room
    BY DEF TalkInv, Overrun
  <2> QED
    BY <2>1, <2>2, <2>3 DEF Talk!ShownIsAnswer, Latest
<1> QED
  BY <1>1, <1>2, <1>3, PTL DEF Talk!Spec
-----------------------------------------------------------------------------
(* Who waits for whom *)

\* Behind the last line there is its request, a byte, or no answer to come.
WaitInv ==
  /\ asked \in Seq(Kinds) /\ up \in Seq(1..Len(asked)) /\ back \in Seq(Bytes)
  /\ talkAt = "recv" => asked # <<>>
  /\ talkAt = "recv" /\ srv = "up" => \/ up # <<>> /\ up[Len(up)] = Latest
                                      \/ back # <<>>
                                      \/ asked[Latest].t = "none"

\* An answer that is not none has a byte.
LEMMA AnswerIsSome ==
  ASSUME Talk!CliAssumption, NEW r \in Nat, NEW kind \in Kinds, kind.t # "none"
  PROVE  Len(Talk!Answer(r, kind)) > 0
<1>1. kind.t \in {"line", "bulk", "nil"} /\ kind.n \in Nat
  BY DEF Talk!CliAssumption
<1>2. CASE kind.t = "line"
  BY <1>1, <1>2, LineIs
<1>3. CASE kind.t = "bulk"
  <2>1. Len(Talk!Answer(r, kind)) = kind.n + 4
    BY <1>1, <1>3, BulkIs
  <2> QED BY <1>1, <2>1
<1>4. CASE kind.t = "nil"
  <2>1. Talk!Answer(r, kind) = Opening(r, -1) /\ -1 \in Int
    BY <1>4 DEF Talk!Answer, Opening
  <2>2. Len(Opening(r, -1)) = 4
    BY <2>1, OpeningIs
  <2> QED BY <2>1, <2>2
<1> QED BY <1>1, <1>2, <1>3, <1>4

LEMMA WaitKeeps ==
  ASSUME Talk!CliAssumption, WaitInv, Talk!Next
  PROVE  WaitInv'
<1>1. Len(asked) \in Nat
  BY DEF WaitInv
<1>2. ASSUME NEW kind \in Kinds, Talk!Send(kind) PROVE WaitInv'
  <2>1. /\ asked' = Append(asked, kind) /\ back' = back /\ srv' = srv
        /\ up' = IF srv = "up" THEN Append(up, Len(asked')) ELSE up
    BY <1>2 DEF Talk!Send
  <2>2. asked' \in Seq(Kinds) /\ asked' # <<>> /\ Len(asked') = Len(asked) + 1
    <3>1. asked \in Seq(Kinds)
      BY DEF WaitInv
    <3> QED BY <2>1, <3>1, AppendProperties
  <2>3. up \in Seq(1..Len(asked')) /\ Len(asked') \in 1..Len(asked')
    BY <1>1, <2>2 DEF WaitInv
  <2>4. up' \in Seq(1..Len(asked'))
    <3>1. Append(up, Len(asked')) \in Seq(1..Len(asked'))
      BY <2>3, AppendProperties
    <3> QED BY <2>1, <2>3, <3>1
  <2>5. srv' = "up" => up' # <<>> /\ up'[Len(up')] = Len(asked')
    BY <2>1, <2>3
  <2> QED BY <2>1, <2>2, <2>4, <2>5 DEF WaitInv, Latest
<1>3. ASSUME NEW k \in 1..Room, Talk!Recv(k) PROVE WaitInv'
  <2>1. /\ back' = SubSeq(back, k + 1, Len(back)) /\ talkAt' = "prompt" /\ asked' = asked /\ up' = up
        /\ k \in 1..Len(back)
    BY <1>3 DEF Talk!Recv, Talk!AfterRead
  <2>2. back' \in Seq(Bytes)
    BY <2>1 DEF WaitInv
  <2> QED BY <2>1, <2>2 DEF WaitInv
<1>4. CASE Talk!RecvNothing
  BY <1>4 DEF Talk!RecvNothing, Talk!AfterRead, WaitInv
<1>5. CASE Talk!Quit
  BY <1>5 DEF Talk!Quit, WaitInv
<1>6. CASE Talk!Gone
  BY <1>6 DEF Talk!Gone, WaitInv
<1>7. CASE Talk!Serve
  <2>1. /\ srv = "up" /\ up # <<>> /\ back' = back \o Talk!Answer(up[1], asked[up[1]]) /\ up' = Tail(up)
        /\ asked' = asked /\ srv' = srv /\ talkAt' = talkAt
    BY <1>7 DEF Talk!Serve
  <2>2. up[1] \in 1..Len(asked) /\ up[1] \in Nat /\ asked[up[1]] \in Kinds
    BY <2>1 DEF WaitInv
  <2>3. Talk!Answer(up[1], asked[up[1]]) \in Seq(Bytes)
    BY <2>2, AnswerBytes
  <2>4. back' \in Seq(Bytes) /\ (back # <<>> => back' # <<>>)
        /\ (Len(Talk!Answer(up[1], asked[up[1]])) > 0 => back' # <<>>)
    BY <2>1, <2>3 DEF WaitInv
  <2>5. up' \in Seq(1..Len(asked')) /\ (Len(up) > 1 => up' # <<>> /\ up'[Len(up')] = up[Len(up)])
    <3> DEFINE I == 1..Len(asked)
    <3>1. up \in Seq(I) /\ asked' = asked
      BY <2>1 DEF WaitInv
    <3> HIDE DEF I
    <3>2. /\ Tail(up) \in Seq(I) /\ Len(Tail(up)) = Len(up) - 1
          /\ \A j \in 1..Len(up) - 1 : Tail(up)[j] = up[j + 1]
      BY <2>1, <3>1
    <3>3. Len(up) > 1 => up' # <<>> /\ up'[Len(up')] = up[Len(up)]
      BY <2>1, <3>1, <3>2
    <3> QED BY <2>1, <3>1, <3>2, <3>3 DEF I
  <2>6. ASSUME talkAt = "recv", up[Len(up)] = Latest, ~(Len(up) > 1), asked[Latest].t # "none"
        PROVE  back' # <<>>
    <3>1. up[1] = Latest
      BY <2>1, <2>6 DEF WaitInv
    <3> QED BY <2>2, <2>4, <2>6, <3>1, AnswerIsSome
  <2> QED BY <2>1, <2>4, <2>5, <2>6 DEF WaitInv, Latest
<1> QED
  BY <1>2, <1>3, <1>4, <1>5, <1>6, <1>7 DEF Talk!Next

\* The client and a server that is there wait for each other only behind a line that
\* has no answer, for any array, lines and answers and any cuts of the answers
\* (kvs_cli.c:105-109).
THEOREM WaitingIsForNothing ==
  ASSUME Talk!CliAssumption
  PROVE  Talk!Spec => []Talk!BothWaitOnlyUnanswered
<1>1. Talk!Init => WaitInv
  BY DEF Talk!Init, WaitInv
<1>2. WaitInv /\ [Talk!Next]_Talk!vars => WaitInv'
  <2>1. WaitInv /\ UNCHANGED Talk!vars => WaitInv'
    BY DEF Talk!vars, WaitInv, Latest
  <2> QED
    BY <2>1, WaitKeeps
<1>3. WaitInv => Talk!BothWaitOnlyUnanswered
  BY DEF WaitInv, Latest, Talk!BothWaitOnlyUnanswered, Talk!BothWait, Talk!Last
<1> QED
  BY <1>1, <1>2, <1>3, PTL DEF Talk!Spec
-----------------------------------------------------------------------------
(***************************************************************************)
(* Sequences in one: what FlattenSeq does with one more sequence.          *)
(***************************************************************************)

\* f joins the first n sequences of ss, one after the other.
Joins(ss, n, f) == f = [i \in 1..n |-> IF i = 1 THEN ss[i] ELSE f[i - 1] \o ss[i]]

LEMMA JoinsExists ==
  ASSUME NEW ss, NEW n \in Nat
  PROVE  \E f : Joins(ss, n, f)
<1> DEFINE S == {m \in Nat : ~\E f : Joins(ss, m, f)}
<1>1. ASSUME S # {} PROVE FALSE
  <2>1. PICK m \in S : \A k \in S : m <= k
    <3>1. S \in SUBSET Nat
      OBVIOUS
    <3> HIDE DEF S
    <3> QED BY <1>1, <3>1, LeastNat
  <2>2. m # 0
    <3>1. Joins(ss, 0, [i \in 1..0 |-> 0])
      BY DEF Joins
    <3> QED BY <3>1
  <2>3. m - 1 \in Nat /\ m - 1 \notin S
    BY <2>1, <2>2
  <2>4. PICK f : Joins(ss, m - 1, f)
    BY <2>3
  <2> DEFINE g == [i \in 1..m |-> IF i = m THEN (IF m = 1 THEN ss[m] ELSE f[m - 1] \o ss[m]) ELSE f[i]]
  <2>5. ASSUME NEW i \in 1..m
        PROVE  g[i] = IF i = 1 THEN ss[i] ELSE g[i - 1] \o ss[i]
    <3>1. CASE i = m
      <4>1. m # 1 => m - 1 \in 1..m /\ m - 1 # m
        BY <2>2
      <4> QED BY <3>1, <4>1
    <3>2. CASE i # m
      <4>1. i \in 1..m - 1
        BY <3>2
      <4>2. f[i] = IF i = 1 THEN ss[i] ELSE f[i - 1] \o ss[i]
        BY <2>4, <4>1 DEF Joins
      <4>3. i # 1 => i - 1 \in 1..m /\ i - 1 # m
        BY <4>1
      <4> QED BY <3>2, <4>2, <4>3
    <3> QED BY <3>1, <3>2
  <2>6. Joins(ss, m, g)
    BY <2>5 DEF Joins
  <2> QED BY <2>1, <2>6
<1> QED BY <1>1

\* x is the sequences of ss in one.
IsJoined(ss, x) == IF Len(ss) = 0 THEN x = ss
                   ELSE \E f : Joins(ss, Len(ss), f) /\ x = f[Len(ss)]

LEMMA FlattenIsJoined ==
  ASSUME NEW ss, Len(ss) \in Nat
  PROVE  IsJoined(ss, Split!FlattenSeq(ss)) /\ IsJoined(ss, Marshal!FlattenSeq(ss))
<1>1. \E f : Joins(ss, Len(ss), f)
  BY JoinsExists
<1>2. IsJoined(ss, Split!FlattenSeq(ss))
  BY <1>1 DEF IsJoined, Joins, Split!FlattenSeq
<1>3. IsJoined(ss, Marshal!FlattenSeq(ss))
  BY <1>1 DEF IsJoined, Joins, Marshal!FlattenSeq
<1> QED BY <1>2, <1>3

Agree(n, f, g) == \A i \in 1..n : f[i] = g[i]

LEMMA JoinsOne ==
  ASSUME NEW ss, NEW tt, NEW n \in Nat, NEW m \in Nat, n <= m, Agree(n, ss, tt),
         NEW f, NEW g, Joins(ss, n, f), Joins(tt, m, g)
  PROVE  Agree(n, f, g)
<1> USE DEF Agree
<1> DEFINE S == {i \in 1..n : f[i] # g[i]}
<1>1. ASSUME S # {} PROVE FALSE
  <2>1. PICK i \in S : \A k \in S : i <= k
    <3>1. S \in SUBSET Nat
      OBVIOUS
    <3> HIDE DEF S
    <3> QED BY <1>1, <3>1, LeastNat
  <2>2. /\ f[i] = IF i = 1 THEN ss[i] ELSE f[i - 1] \o ss[i]
        /\ g[i] = IF i = 1 THEN tt[i] ELSE g[i - 1] \o tt[i]
    <3>1. i \in 1..n /\ i \in 1..m
      BY <2>1
    <3> HIDE DEF S
    <3> QED BY <3>1 DEF Joins
  <2>3. CASE i = 1
    BY <2>1, <2>2, <2>3
  <2>4. CASE i # 1
    <3>1. i - 1 \in 1..n /\ i - 1 \notin S
      BY <2>1, <2>4
    <3> QED BY <2>1, <2>2, <2>4, <3>1
  <2> QED BY <2>3, <2>4
<1> QED BY <1>1

\* One more sequence is put behind.
LEMMA JoinedMore ==
  ASSUME NEW ss, NEW tt, NEW n \in Nat, Len(ss) = n, Len(tt) = n + 1,
         Agree(n, ss, tt),
         NEW x, NEW y, IsJoined(ss, x), IsJoined(tt, y)
  PROVE  /\ n = 0 => y = tt[1]
         /\ n > 0 => y = x \o tt[n + 1]
<1>1. PICK g : Joins(tt, n + 1, g) /\ y = g[n + 1]
  BY DEF IsJoined
<1>2. g[n + 1] = IF n + 1 = 1 THEN tt[n + 1] ELSE g[(n + 1) - 1] \o tt[n + 1]
  <2>1. n + 1 \in 1..n + 1
    OBVIOUS
  <2> QED BY <1>1, <2>1 DEF Joins
<1>3. CASE n = 0
  BY <1>1, <1>2, <1>3
<1>4. CASE n > 0
  <2>1. PICK f : Joins(ss, n, f) /\ x = f[n]
    BY <1>4 DEF IsJoined
  <2>2. n \in 1..n /\ (n + 1) - 1 = n /\ n + 1 # 1 /\ n <= n + 1 /\ n + 1 \in Nat
    BY <1>4
  <2>3. Agree(n, f, g)
    <3> DEFINE m == n + 1
    <3>1. Joins(tt, m, g) /\ m \in Nat /\ n <= m
      BY <1>1
    <3> HIDE DEF m
    <3> QED BY <2>1, <3>1, JoinsOne
  <2>4. f[n] = g[n] /\ g[(n + 1) - 1] = g[n]
    BY <2>2, <2>3 DEF Agree
  <2>5. y = g[n + 1] /\ g[n + 1] = g[(n + 1) - 1] \o tt[n + 1] /\ x = f[n]
    BY <1>1, <1>2, <2>1, <2>2
  <2>6. y = x \o tt[n + 1]
    BY <2>4, <2>5
  <2> QED BY <1>4, <2>6
<1> QED BY <1>3, <1>4

LEMMA InWider ==
  ASSUME NEW w \in Seq(0..255)
  PROVE  w \in Seq(Int) /\ Len(w) \in Nat
<1> DEFINE h == Len(w)
<1>1. h \in Nat /\ DOMAIN w = 1..h /\ w = [i \in 1..h |-> w[i]]
  OBVIOUS
<1>2. \A i \in 1..h : w[i] \in Int
  <2> DEFINE B == 0..255
  <2>1. w \in Seq(B)
    OBVIOUS
  <2>2. ASSUME NEW x \in B PROVE x \in Int
    OBVIOUS
  <2> HIDE DEF B
  <2>3. ASSUME NEW i \in 1..Len(w) PROVE w[i] \in B
    BY <2>1, ElementOfSeq
  <2> QED BY <2>2, <2>3
<1>3. h \in Nat => w \in [1..h -> Int]
  <2> HIDE DEF h
  <2> QED BY <1>1, <1>2
<1> HIDE DEF h
<1>4. w \in Seq(Int)
  BY <1>1, <1>3
<1> QED BY <1>1, <1>4 DEF h

LEMMA JointInts ==
  ASSUME NEW u \in Seq(Int), NEW w \in Seq(Int)
  PROVE  u \o w \in Seq(Int) /\ Len(u \o w) = Len(u) + Len(w)
BY Joint

-----------------------------------------------------------------------------
(***************************************************************************)
(* The client's line.  What was cut so far, put together again, is the     *)
(* line up to the separator in front of the place the cutting is at.       *)
(***************************************************************************)
Typed == {"sep", "char"}
InLine == {"sep", "char", "nul", "junk"}
Word == [at: Nat, len: Nat]

SplitTyping ==
  /\ line \in [0..LineSize - 1 -> InLine]
  /\ typed \in Seq(Typed) /\ Len(typed) < LineSize
  /\ lineAt \in Nat /\ words \in Seq(Word) /\ capacity = 0
  /\ splitAt \in {"read", "split", "send"}
  /\ splitStatus \in {"ok", "overrun", "dead", "fault"}
  /\ short \in BOOLEAN

\* The array holds the last line and its terminator, or nothing was read into it yet.
OnLine == /\ \A j \in 0..Len(typed) - 1 : line[j] = typed[j + 1]
          /\ line[Len(typed)] = "nul"
Unread == typed = <<>> /\ \A j \in 0..LineSize - 1 : line[j] = "junk"

CutTo(p) ==
  IF words = <<>> THEN p = 0
  ELSE /\ p \in 1..Len(typed) + 1
       /\ Split!Joined = SubSeq(typed, 1, p - 1)
       /\ p <= Len(typed) => typed[p] = "sep"

Cutting == /\ splitAt = "split" => CutTo(lineAt) /\ lineAt <= Len(typed)
           /\ splitAt = "send" => CutTo(lineAt) /\ (short \/ lineAt >= Len(typed))

SplitInv ==
  /\ SplitTyping
  /\ OnLine \/ Unread
  /\ splitStatus = "dead" => words # <<>>
  /\ Len(words) > 1 => splitStatus # "ok"
  /\ splitStatus = "fault" => line[0] \in {"sep", "junk"}
  /\ splitStatus # "dead" /\ line[0] # "sep" => Cutting

\* The first byte of S, or the end of the array.
LEMMA FirstInIs ==
  ASSUME SplitTyping, LineSize \in Nat \ {0}, NEW i \in Nat, NEW S
  PROVE  LET r == Split!FirstIn(i, S) IN
         /\ r \in Nat
         /\ r < LineSize => r \in i..LineSize - 1 /\ line[r] \in S
         /\ r >= LineSize => r = LineSize
         /\ \A j \in i..LineSize - 1 : line[j] \in S => r <= j
<1> DEFINE found == {j \in i..LineSize - 1 : line[j] \in S}
           r == Split!FirstIn(i, S)
<1>1. CASE found = {}
  <2>1. r = LineSize
    BY <1>1 DEF Split!FirstIn
  <2> QED BY <1>1, <2>1
<1>2. CASE found # {}
  <2>1. \E j \in found : \A m \in found : j <= m
    <3>1. found \in SUBSET Nat
      OBVIOUS
    <3> HIDE DEF found
    <3> QED BY <1>2, <3>1, LeastNat
  <2>2. r = CHOOSE j \in found : \A m \in found : j <= m
    BY <1>2 DEF Split!FirstIn
  <2>3. r \in found /\ \A m \in found : r <= m
    <3> HIDE DEF found, r
    <3> QED BY <2>1, <2>2
  <2>4. r \in Nat /\ r < LineSize /\ r \in i..LineSize - 1 /\ line[r] \in S
    <3> HIDE DEF r
    <3> QED BY <2>3
  <2>5. \A j \in i..LineSize - 1 : line[j] \in S => r <= j
    <3> HIDE DEF r
    <3> QED BY <2>3
  <2> HIDE DEF found
  <2> QED BY <2>4, <2>5
<1> QED BY <1>1, <1>2

\* No separator in front of the line.
LEMMA LeadingIs ==
  ASSUME SplitTyping, LineSize \in Nat \ {0}
  PROVE  Split!Leading \in Nat /\ (Split!Leading = 0 <=> line[0] # "sep")
<1> DEFINE S == {"char", "nul", "junk"}
           r == Split!FirstIn(0, S)
<1>1. /\ r \in Nat
      /\ r < LineSize => r \in 0..LineSize - 1 /\ line[r] \in S
      /\ \A j \in 0..LineSize - 1 : line[j] \in S => r <= j
  <2> HIDE DEF S
  <2> QED BY FirstInIs
<1>2. 0 \in 0..LineSize - 1 /\ line[0] \in InLine
  BY DEF SplitTyping
<1>3. Split!Leading = r
  BY DEF Split!Leading
<1> HIDE DEF r
<1>4. line[0] # "sep" => r = 0
  BY <1>1, <1>2 DEF InLine
<1>5. r = 0 => line[0] # "sep"
  BY <1>1, <1>2
<1> QED BY <1>1, <1>3, <1>4, <1>5

\* A line behind its word.
LEMMA OneMoreWord ==
  ASSUME NEW t \in Seq(Typed), NEW p \in 1..Len(t), t[p] = "sep", NEW e \in p..Len(t)
  PROVE  SubSeq(t, 1, p - 1) \o (<<"sep">> \o [j \in 1..e - p |-> t[p + j]]) = SubSeq(t, 1, e)
<1> DEFINE u == SubSeq(t, 1, p - 1)
           w == [j \in 1..e - p |-> t[p + j]]
           v == <<"sep">> \o w
           x == SubSeq(t, 1, e)
<1>1. Len(t) \in Nat /\ p \in Nat /\ e \in Nat /\ \A j \in 1..Len(t) : t[j] \in Typed
  BY ElementOfSeq
<1>2. u \in Seq(Typed) /\ Len(u) = p - 1 /\ \A j \in 1..p - 1 : u[j] = t[j]
  BY <1>1, SubSeqProperties
<1>3. x \in Seq(Typed) /\ Len(x) = e /\ \A j \in 1..e : x[j] = t[j]
  BY <1>1, SubSeqProperties
<1>4. w \in Seq(Typed) /\ Len(w) = e - p /\ \A j \in 1..e - p : w[j] = t[p + j]
  <2>1. \A j \in 1..e - p : p + j \in 1..Len(t)
    BY <1>1
  <2>2. w \in [1..e - p -> Typed]
    BY <1>1, <2>1
  <2>3. e - p \in Nat
    BY <1>1
  <2> QED BY <2>2, <2>3
<1>5. <<"sep">> \in Seq(Typed) /\ Len(<<"sep">>) = 1 /\ <<"sep">>[1] = "sep"
  BY DEF Typed
<1> DEFINE c == <<"sep">>
<1>6. /\ c \o w \in Seq(Typed) /\ Len(c \o w) = Len(c) + Len(w)
      /\ \A j \in 1..Len(c) : (c \o w)[j] = c[j]
      /\ \A j \in 1..Len(w) : (c \o w)[Len(c) + j] = w[j]
  <2>1. c \in Seq(Typed) /\ w \in Seq(Typed)
    BY <1>4, <1>5
  <2> HIDE DEF c, w
  <2> QED BY <2>1, Joint
<1>7. v \in Seq(Typed) /\ Len(v) = 1 + (e - p) /\ v[1] = "sep" /\ \A j \in 1..e - p : v[1 + j] = t[p + j]
  <2>1. v = c \o w /\ Len(c) = 1 /\ c[1] = "sep"
    OBVIOUS
  <2> HIDE DEF v, c, w
  <2> QED BY <1>1, <1>4, <1>6, <2>1
<1> HIDE DEF u, v, w, x
<1> DEFINE z == u \o v
<1>8. /\ z \in Seq(Typed) /\ Len(z) = Len(u) + Len(v)
      /\ \A j \in 1..Len(u) : z[j] = u[j]
      /\ \A j \in 1..Len(v) : z[Len(u) + j] = v[j]
  <2>1. u \in Seq(Typed) /\ v \in Seq(Typed)
    BY <1>2, <1>7
  <2> HIDE DEF c
  <2> QED BY <2>1, Joint
<1> HIDE DEF z
<1>9. Len(z) = e
  BY <1>1, <1>2, <1>7, <1>8
<1>10. ASSUME NEW j \in 1..e PROVE z[j] = t[j]
  <2>1. CASE j < p
    BY <1>1, <1>2, <1>8, <2>1
  <2>2. CASE j = p
    <3>1. 1 \in 1..Len(v) /\ Len(u) + 1 = j
      BY <1>1, <1>2, <1>7, <2>2
    <3> QED BY <1>7, <1>8, <2>2, <3>1
  <2>3. CASE j > p
    <3>1. 1 + (j - p) \in 1..Len(v) /\ Len(u) + (1 + (j - p)) = j /\ j - p \in 1..e - p /\ p + (j - p) = j
      BY <1>1, <1>2, <1>7, <2>3
    <3> QED BY <1>7, <1>8, <3>1
  <2> QED BY <1>1, <2>1, <2>2, <2>3
<1>11. z = x
  BY <1>3, <1>8, <1>9, <1>10
<1> QED BY <1>11 DEF u, v, w, x, z

\* The pieces that are joined.
Parts(ws) == [j \in 1..Len(ws) |-> (IF j = 1 THEN <<>> ELSE <<"sep">>) \o Split!Text(ws[j])]

LEMMA JoinedGrows ==
  ASSUME SplitTyping, line' = line, NEW w \in Word, words' = Append(words, w),
         Split!Text(w) \in Seq(InLine)
  PROVE  /\ words = <<>> => Split!Joined' = Split!Text(w)
         /\ words # <<>> => Split!Joined' = Split!Joined \o (<<"sep">> \o Split!Text(w))
<1> DEFINE n == Len(words)
           ss == Parts(words)
           more == Append(words, w)
           tt == Parts(more)
           x == Split!Joined
           y == Split!FlattenSeq(tt)
<1>1. /\ n \in Nat /\ Len(more) = n + 1 /\ more[n + 1] = w
      /\ \A i \in 1..n : more[i] = words[i]
      /\ (words = <<>> <=> n = 0)
  BY DEF SplitTyping
<1>2. Split!Joined' = y
  <2>1. words' = more
    OBVIOUS
  <2> HIDE DEF more
  <2> QED BY <2>1 DEF Split!Joined, Parts, Split!Text
<1> HIDE DEF n, more
<1>3. Len(ss) = n
  BY <1>1 DEF Parts, n
<1>4. Len(tt) = n + 1
  BY <1>1 DEF Parts
<1>5. ASSUME NEW i \in 1..n PROVE ss[i] = tt[i]
  <2>1. i \in 1..Len(words) /\ i \in 1..Len(more) /\ more[i] = words[i]
    BY <1>1 DEF n
  <2> QED BY <2>1 DEF Parts
<1>6. tt[n + 1] = (IF n + 1 = 1 THEN <<>> ELSE <<"sep">>) \o Split!Text(w)
  <2>1. n + 1 \in 1..Len(more)
    BY <1>1
  <2> QED BY <1>1, <2>1 DEF Parts
<1>7. IsJoined(ss, x) /\ IsJoined(tt, y)
  <2>1. x = Split!FlattenSeq(ss)
    BY DEF Split!Joined, Parts
  <2>2. Len(ss) \in Nat /\ Len(tt) \in Nat
    BY <1>1, <1>3, <1>4
  <2> HIDE DEF ss, tt, x
  <2> QED BY <2>1, <2>2, FlattenIsJoined
<1> HIDE DEF ss, tt, x, y
<1>8. /\ n = 0 => y = tt[1]
      /\ n > 0 => y = x \o tt[n + 1]
  <2>1. Agree(n, ss, tt)
    BY <1>5 DEF Agree
  <2>2. n \in Nat
    BY <1>1
  <2>3. IsJoined(ss, x)
    BY <1>7
  <2>4. IsJoined(tt, y)
    BY <1>7
  <2> QED BY <1>3, <1>4, <2>1, <2>2, <2>3, <2>4, JoinedMore
<1>9. CASE n = 0
  <2>1. tt[1] = <<>> \o Split!Text(w)
    BY <1>6, <1>9
  <2>2. <<>> \o Split!Text(w) = Split!Text(w)
    <3> DEFINE v == Split!Text(w)
    <3>1. v \in Seq(InLine)
      OBVIOUS
    <3> HIDE DEF v
    <3>2. <<>> \o v = v
      BY <3>1
    <3> QED BY <3>2 DEF v
  <2> QED BY <1>1, <1>2, <1>8, <1>9, <2>1, <2>2
<1>10. CASE n > 0
  <2>1. tt[n + 1] = <<"sep">> \o Split!Text(w)
    BY <1>1, <1>6, <1>10
  <2> QED BY <1>1, <1>2, <1>8, <1>10, <2>1 DEF x
<1> QED BY <1>1, <1>9, <1>10

LEMMA SplitBegins ==
  ASSUME Split!SplitAssumption, Split!Init
  PROVE  SplitInv
<1> USE DEF Split!Init, Split!SplitAssumption
<1>1. PICK byte \in {"junk", "nul"} : line = [j \in 0..LineSize - 1 |-> byte]
  BY DEF Split!Index
<1>2. SplitTyping
  BY <1>1 DEF SplitTyping, InLine
<1>3. OnLine \/ Unread
  <2>1. Len(typed) = 0 /\ 0 \in 0..LineSize - 1 /\ \A j \in 0..0 - 1 : FALSE
    OBVIOUS
  <2> QED BY <1>1, <2>1 DEF OnLine, Unread
<1> QED BY <1>2, <1>3 DEF SplitInv, Cutting

\* A new line is in front of whatever the array held.
LEMMA ReadLineKeeps ==
  ASSUME Split!SplitAssumption, SplitInv, splitStatus \notin {"dead", "fault"},
         NEW t \in Lines, Split!ReadLine(t)
  PROVE  SplitInv'
<1> USE DEF Split!SplitAssumption
<1>1. /\ line' = [j \in 0..LineSize - 1 |-> IF j < Len(t) THEN t[j + 1]
                                           ELSE IF j = Len(t) THEN "nul" ELSE line[j]]
      /\ typed' = t /\ lineAt' = 0 /\ splitAt' = "split" /\ words' = <<>> /\ short' = FALSE
      /\ UNCHANGED <<capacity, splitStatus>>
  BY DEF Split!ReadLine, Split!Reset, Split!Index
<1>2. t \in Seq(Typed) /\ Len(t) \in Nat /\ Len(t) < LineSize /\ \A j \in 1..Len(t) : t[j] \in Typed
  BY ElementOfSeq DEF Typed
<1>3. line' \in [0..LineSize - 1 -> InLine]
  <2>1. ASSUME NEW j \in 0..LineSize - 1
        PROVE  (IF j < Len(t) THEN t[j + 1] ELSE IF j = Len(t) THEN "nul" ELSE line[j]) \in InLine
    <3>1. j < Len(t) => j + 1 \in 1..Len(t)
      BY <1>2
    <3>2. line[j] \in InLine
      BY DEF SplitInv, SplitTyping
    <3> QED BY <1>2, <3>1, <3>2 DEF Typed, InLine
  <2> QED BY <1>1, <2>1
<1>4. SplitTyping'
  <2>1. typed' \in Seq(Typed) /\ Len(typed') < LineSize
    BY <1>1, <1>2
  <2>2. words' \in Seq(Word) /\ lineAt' \in Nat /\ short' \in BOOLEAN
    <3>1. <<>> \in Seq(Word)
      OBVIOUS
    <3> HIDE DEF Split!SplitAssumption
    <3> QED BY <1>1, <3>1
  <2>3. capacity' = 0 /\ splitStatus' \in {"ok", "overrun", "dead", "fault"} /\ splitAt' = "split"
    BY <1>1 DEF SplitInv, SplitTyping
  <2> HIDE DEF Split!SplitAssumption
  <2> QED BY <1>3, <2>1, <2>2, <2>3 DEF SplitTyping
<1>5. OnLine'
  BY <1>1, <1>2 DEF OnLine
<1>6. Cutting'
  BY <1>1, <1>2 DEF Cutting, CutTo
<1> QED BY <1>1, <1>4, <1>5, <1>6 DEF SplitInv

LEMMA EndOfInputKeeps ==
  ASSUME Split!SplitAssumption, SplitInv, splitStatus \notin {"dead", "fault"}, Split!EndOfInput
  PROVE  SplitInv'
<1> USE DEF Split!SplitAssumption
<1>1. /\ lineAt' = 0 /\ splitAt' = "split" /\ words' = <<>> /\ short' = FALSE
      /\ UNCHANGED <<line, typed, capacity, splitStatus>>
  BY DEF Split!EndOfInput, Split!Reset
<1>2. SplitTyping'
  BY <1>1 DEF SplitInv, SplitTyping
<1>3. (OnLine \/ Unread)'
  BY <1>1 DEF SplitInv, OnLine, Unread
<1>4. Cutting'
  BY <1>1 DEF Cutting, CutTo, SplitInv, SplitTyping
<1> QED BY <1>1, <1>2, <1>3, <1>4 DEF SplitInv

\* Nothing else is cut when memory is out, or at the end of the line.
LEMMA EndsKeep ==
  ASSUME Split!SplitAssumption, SplitInv, splitStatus \notin {"dead", "fault"},
         Split!NoMemory \/ Split!EndOfLine
  PROVE  SplitInv'
<1>1. /\ UNCHANGED <<line, typed, lineAt, words, capacity, splitStatus>>
      /\ \/ short' = TRUE
         \/ short' = short /\ line[lineAt] = "nul"
  BY DEF Split!NoMemory, Split!EndOfLine
<1>2. splitAt = "split" /\ splitAt' = "send"
  BY DEF Split!NoMemory, Split!EndOfLine
<1>3. SplitTyping'
  BY <1>1, <1>2 DEF SplitInv, SplitTyping
<1>4. (OnLine \/ Unread)'
  BY <1>1 DEF SplitInv, OnLine, Unread
<1>5. ASSUME line[0] # "sep" PROVE Cutting'
  <2>1. CutTo(lineAt) /\ lineAt <= Len(typed)
    BY <1>2, <1>5 DEF SplitInv, Cutting
  <2>2. CutTo(lineAt)'
    BY <1>1, <2>1 DEF CutTo, Split!Joined, Split!Text
  <2>3. line[lineAt] = "nul" => lineAt >= Len(typed)
    <3>1. CASE OnLine
      <4> SUFFICES ASSUME lineAt < Len(typed) PROVE line[lineAt] # "nul"
        BY DEF SplitInv, SplitTyping
      <4>1. lineAt \in 0..Len(typed) - 1 /\ lineAt + 1 \in 1..Len(typed) /\ typed \in Seq(Typed)
        BY DEF SplitInv, SplitTyping
      <4>2. line[lineAt] = typed[lineAt + 1] /\ typed[lineAt + 1] \in Typed
        BY <3>1, <4>1, ElementOfSeq DEF OnLine
      <4> QED BY <4>2 DEF Typed
    <3>2. CASE Unread
      BY <3>2 DEF Unread, SplitInv, SplitTyping
    <3> QED BY <3>1, <3>2 DEF SplitInv
  <2>4. short' \/ lineAt' >= Len(typed')
    BY <1>1, <2>3
  <2> QED BY <1>1, <1>2, <2>2, <2>4 DEF Cutting
<1> QED BY <1>1, <1>3, <1>4, <1>5 DEF SplitInv

\* Without a separator in front of the line, the next word is what lies between
\* the place the cutting is at and the separator, or the terminator, behind it.
LEMMA NextWordIs ==
  ASSUME Split!SplitAssumption, SplitInv, splitStatus # "dead", line[0] # "sep", splitAt = "split",
         line[lineAt] # "nul",
         Split!Skip < LineSize, Split!FirstIn(Split!Skip, {"sep", "nul"}) < LineSize
  PROVE  LET w == Split!WordAt(Split!Skip)
             e == w.at + w.len
         IN /\ w \in Word /\ w.at = lineAt /\ OnLine
            /\ lineAt < Len(typed) /\ e \in lineAt..Len(typed)
            /\ line[e] = (IF e = Len(typed) THEN "nul" ELSE "sep")
            /\ Split!Text(w) \in Seq(Typed)
            /\ Split!Text(w) = [j \in 1..e - lineAt |-> typed[lineAt + j]]
<1> DEFINE e == Split!FirstIn(lineAt, {"sep", "nul"})
           L == Len(typed)
           w == [at |-> lineAt, len |-> e - lineAt]
<1>1. Split!Skip = lineAt
  <2>1. Split!Leading = 0 /\ lineAt \in Nat
    BY LeadingIs DEF SplitInv, SplitTyping, Split!SplitAssumption
  <2> QED BY <2>1 DEF Split!Skip
<1>2. Split!WordAt(Split!Skip) = w
  BY <1>1 DEF Split!WordAt
<1>3. /\ SplitTyping /\ LineSize \in Nat \ {0} /\ lineAt \in Nat /\ L \in Nat /\ L < LineSize
      /\ typed \in Seq(Typed) /\ lineAt <= L /\ CutTo(lineAt)
  BY DEF SplitInv, SplitTyping, Split!SplitAssumption, Cutting
<1>4. /\ e \in Nat /\ e < LineSize
      /\ e < LineSize => e \in lineAt..LineSize - 1 /\ line[e] \in {"sep", "nul"}
      /\ \A j \in lineAt..LineSize - 1 : line[j] \in {"sep", "nul"} => e <= j
  BY <1>1, <1>3, FirstInIs
<1> HIDE DEF e, L
<1>5. OnLine
  <2>1. ~Unread
    <3>1. e \in 0..LineSize - 1 /\ line[e] # "junk"
      BY <1>3, <1>4
    <3> QED BY <3>1 DEF Unread
  <2> QED BY <2>1 DEF SplitInv
<1>6. line[L] = "nul" /\ \A j \in 0..L - 1 : line[j] = typed[j + 1] /\ line[j] \in Typed
  <2>1. line[L] = "nul" /\ \A j \in 0..L - 1 : line[j] = typed[j + 1]
    BY <1>5 DEF OnLine, L
  <2>2. ASSUME NEW j \in 0..L - 1 PROVE typed[j + 1] \in Typed
    <3>1. j + 1 \in 1..Len(typed)
      BY <1>3 DEF L
    <3> QED BY <1>3, <3>1, ElementOfSeq
  <2> QED BY <2>1, <2>2
<1>7. lineAt < L
  BY <1>3, <1>6
<1>8. e <= L /\ e \in lineAt..L
  <2>1. L \in lineAt..LineSize - 1 /\ line[L] \in {"sep", "nul"}
    BY <1>3, <1>6
  <2> QED BY <1>3, <1>4, <2>1
<1>9. line[e] = (IF e = L THEN "nul" ELSE "sep")
  <2>1. e # L => e \in 0..L - 1
    BY <1>3, <1>8
  <2> QED BY <1>4, <1>6, <2>1 DEF Typed
<1>10. w.at = lineAt /\ w.len = e - lineAt /\ w.at + w.len = e /\ w \in Word
  BY <1>3, <1>4, <1>8 DEF Word
<1>11. Split!Text(w) = [j \in 1..e - lineAt |-> typed[lineAt + j]]
  <2>1. Split!Text(w) = [j \in 1..e - lineAt |-> line[lineAt + j - 1]]
    BY <1>10 DEF Split!Text
  <2>2. ASSUME NEW j \in 1..e - lineAt PROVE line[lineAt + j - 1] = typed[lineAt + j]
    <3>1. lineAt + j - 1 \in 0..L - 1 /\ (lineAt + j - 1) + 1 = lineAt + j
      BY <1>3, <1>8
    <3> QED BY <1>6, <3>1
  <2> QED BY <2>1, <2>2
<1>12. [j \in 1..e - lineAt |-> typed[lineAt + j]] \in Seq(Typed)
  <2>1. ASSUME NEW j \in 1..e - lineAt PROVE typed[lineAt + j] \in Typed
    <3>1. lineAt + j \in 1..Len(typed)
      BY <1>3, <1>8 DEF L
    <3> QED BY <1>3, <3>1, ElementOfSeq
  <2>2. [j \in 1..e - lineAt |-> typed[lineAt + j]] \in [1..e - lineAt -> Typed]
    BY <2>1
  <2>3. e - lineAt \in Nat
    BY <1>3, <1>8
  <2> QED BY <2>2, <2>3, SeqDef
<1> HIDE DEF w
<1>13. /\ w \in Word /\ w.at = lineAt /\ OnLine
       /\ lineAt < L /\ w.at + w.len \in lineAt..L
       /\ line[w.at + w.len] = (IF w.at + w.len = L THEN "nul" ELSE "sep")
       /\ Split!Text(w) \in Seq(Typed)
       /\ Split!Text(w) = [j \in 1..(w.at + w.len) - lineAt |-> typed[lineAt + j]]
  BY <1>5, <1>7, <1>8, <1>9, <1>10, <1>11, <1>12
<1> QED BY <1>2, <1>13 DEF L

LEMMA NextWordKeeps ==
  ASSUME Split!SplitAssumption, SplitInv, splitStatus \notin {"dead", "fault"}, Split!NextWord
  PROVE  SplitInv'
<1> DEFINE w == Split!WordAt(Split!Skip)
           e == w.at + w.len
<1>1. /\ splitAt = "split" /\ line[lineAt] # "nul"
      /\ Split!Skip < LineSize /\ Split!FirstIn(Split!Skip, {"sep", "nul"}) < LineSize
      /\ Split!Stored(w) /\ lineAt' = e + 1
      /\ splitAt' = IF line[e] = "nul" THEN "send" ELSE "split"
      /\ UNCHANGED <<line, typed, short>>
  BY DEF Split!NextWord
<1>2. capacity = 0 /\ words \in Seq(Word) /\ Len(words) \in Nat /\ lineAt \in Nat
      /\ LineSize \in Nat \ {0} /\ SplitTyping
  BY DEF SplitInv, SplitTyping, Split!SplitAssumption
<1>3. capacity' = 0 /\ elements' = 1
  <2>1. Len(words) >= capacity
    BY <1>2
  <2> QED BY <1>2, <2>1 DEF Split!NextWord, Split!Grown
<1>4. \/ words' = Append(words, w) /\ splitStatus' \in {splitStatus, "overrun"}
      \/ splitStatus' = "dead" /\ words' = words /\ words # <<>>
  <2>1. Len(words) >= elements' => words # <<>>
    BY <1>2, <1>3
  <2> HIDE DEF w, e
  <2> QED BY <1>1, <2>1 DEF Split!Stored
<1>5. w \in Word /\ e \in Nat
  <2>1. Split!Skip \in Nat
    <3>1. Split!Leading \in Nat
      BY <1>2, LeadingIs
    <3> QED BY <1>2, <3>1 DEF Split!Skip
  <2> DEFINE i == Split!Skip
             f == Split!FirstIn(i, {"sep", "nul"})
  <2>2. i \in Nat /\ f \in Nat /\ f < LineSize
    <3>1. f \in Nat
      BY <1>2, <2>1, FirstInIs
    <3> QED BY <1>1, <2>1, <3>1
  <2>3. f \in i..LineSize - 1
    <3> HIDE DEF i
    <3>1. f < LineSize => f \in i..LineSize - 1 /\ line[f] \in {"sep", "nul"}
      BY <1>2, <2>2, FirstInIs
    <3> QED BY <2>2, <3>1
  <2>4. w = [at |-> i, len |-> f - i]
    BY DEF Split!WordAt
  <2> HIDE DEF i, f, w
  <2>5. f - i \in Nat /\ i + (f - i) = f
    BY <2>2, <2>3
  <2> QED BY <2>2, <2>4, <2>5 DEF Word
<1> HIDE DEF w
<1>6. SplitTyping'
  <2>1. words' \in Seq(Word)
    BY <1>2, <1>4, <1>5
  <2>2. splitStatus' \in {"ok", "overrun", "dead", "fault"}
    BY <1>4 DEF SplitInv, SplitTyping
  <2>3. lineAt' \in Nat /\ splitAt' \in {"split", "send"}
    BY <1>1, <1>5
  <2>4. UNCHANGED <<line, typed, short>>
    BY <1>1
  <2> QED BY <1>2, <1>3, <2>1, <2>2, <2>3, <2>4 DEF SplitTyping
<1>7. (OnLine \/ Unread)'
  BY <1>1 DEF SplitInv, OnLine, Unread
<1>8. splitStatus' = "dead" => words' # <<>>
  BY <1>4
<1>11. Len(words') > 1 => splitStatus' # "ok"
  <2>1. CASE words' = Append(words, w) /\ splitStatus' = IF Len(words) < elements' THEN splitStatus ELSE "overrun"
    <3>1. Len(words') = Len(words) + 1
      BY <1>2, <1>5, <2>1
    <3> QED BY <1>2, <1>3, <2>1, <3>1
  <2>2. CASE splitStatus' = "dead"
    BY <2>2
  <2> QED BY <1>1, <2>1, <2>2 DEF Split!Stored
<1>9. splitStatus' # "fault"
  BY <1>4
<1>10. ASSUME splitStatus' # "dead", line[0] # "sep" PROVE Cutting'
  <2>1. words' = Append(words, w)
    BY <1>4, <1>10
  <2>2. /\ OnLine /\ lineAt < Len(typed) /\ e \in lineAt..Len(typed)
        /\ line[e] = (IF e = Len(typed) THEN "nul" ELSE "sep")
        /\ Split!Text(w) \in Seq(Typed)
        /\ Split!Text(w) = [j \in 1..e - lineAt |-> typed[lineAt + j]]
    BY <1>1, <1>10, NextWordIs DEF w
  <2>3. CutTo(lineAt) /\ typed \in Seq(Typed) /\ Len(typed) \in Nat
    BY <1>1, <1>2, <1>10 DEF SplitInv, Cutting, SplitTyping
  <2>4. Split!Text(w) \in Seq(InLine)
    BY <2>2 DEF Typed, InLine
  <2>5. /\ words = <<>> => Split!Joined' = Split!Text(w)
        /\ words # <<>> => Split!Joined' = Split!Joined \o (<<"sep">> \o Split!Text(w))
    BY <1>1, <1>2, <1>5, <2>1, <2>4, JoinedGrows
  <2> HIDE DEF e
  <2>6. Split!Joined' = SubSeq(typed, 1, e)
    <3>1. CASE words = <<>>
      <4>1. lineAt = 0
        BY <2>3, <3>1 DEF CutTo
      <4>2. Split!Joined' = [j \in 1..e - 0 |-> typed[0 + j]]
        BY <2>2, <2>5, <3>1, <4>1
      <4>3. SubSeq(typed, 1, e) = [j \in 1..e |-> typed[j]]
        BY <2>2, <2>3, <4>1
      <4>4. e - 0 = e /\ \A j \in 1..e : 0 + j = j
        BY <1>5
      <4> QED BY <4>2, <4>3, <4>4
    <3>2. CASE words # <<>>
      <4>1. lineAt \in 1..Len(typed) /\ typed[lineAt] = "sep" /\ Split!Joined = SubSeq(typed, 1, lineAt - 1)
        BY <1>2, <2>2, <2>3, <3>2 DEF CutTo
      <4>2. SubSeq(typed, 1, lineAt - 1) \o (<<"sep">> \o [j \in 1..e - lineAt |-> typed[lineAt + j]])
              = SubSeq(typed, 1, e)
        BY <2>2, <2>3, <4>1, OneMoreWord
      <4> QED BY <2>2, <2>5, <3>2, <4>1, <4>2
    <3> QED BY <3>1, <3>2
  <2>7. words' # <<>>
    BY <1>2, <1>5, <2>1
  <2>8. e + 1 \in 1..Len(typed) + 1 /\ (e + 1) - 1 = e
    BY <1>2, <2>2, <2>3
  <2>9. e + 1 <= Len(typed) => typed[e + 1] = "sep"
    <3> SUFFICES ASSUME e + 1 <= Len(typed) PROVE typed[e + 1] = "sep"
      OBVIOUS
    <3>1. e \in 0..Len(typed) - 1 /\ e # Len(typed)
      BY <1>5, <2>3
    <3>2. line[e] = typed[e + 1]
      BY <2>2, <3>1 DEF OnLine
    <3> QED BY <2>2, <3>1, <3>2
  <2>10. CutTo(lineAt)'
    BY <1>1, <2>6, <2>7, <2>8, <2>9 DEF CutTo
  <2>11. splitAt' = "split" => e + 1 <= Len(typed)
    BY <1>1, <1>5, <2>2, <2>3
  <2>12. splitAt' = "send" => e + 1 >= Len(typed)
    BY <1>1, <1>5, <2>2, <2>3
  <2> QED BY <1>1, <2>10, <2>11, <2>12 DEF Cutting
<1> QED BY <1>1, <1>6, <1>7, <1>8, <1>9, <1>10, <1>11 DEF SplitInv

\* The cutting ends at the terminator of the line, if the line does not start with
\* a separator and there is one.
LEMMA BehindKeeps ==
  ASSUME Split!SplitAssumption, SplitInv, splitStatus \notin {"dead", "fault"}, Split!BehindTheArray
  PROVE  SplitInv'
<1>1. /\ splitAt = "split" /\ splitStatus' = "fault"
      /\ Split!Skip >= LineSize \/ Split!FirstIn(Split!Skip, {"sep", "nul"}) >= LineSize
      /\ UNCHANGED <<line, typed, lineAt, words, capacity, splitAt, short>>
  BY DEF Split!BehindTheArray
<1>2. line[0] \in {"sep", "junk"}
  <2> SUFFICES ASSUME line[0] # "sep", line[0] # "junk" PROVE FALSE
    OBVIOUS
  <2>1. /\ LineSize \in Nat \ {0} /\ SplitTyping /\ lineAt \in Nat /\ Len(typed) \in Nat
        /\ Len(typed) < LineSize /\ lineAt <= Len(typed)
    BY <1>1 DEF SplitInv, SplitTyping, Cutting, Split!SplitAssumption
  <2>2. line[Len(typed)] = "nul"
    <3>1. ~Unread
      BY <2>1 DEF Unread
    <3> QED BY <3>1 DEF SplitInv, OnLine
  <2>3. Split!Skip = lineAt
    BY <2>1, LeadingIs DEF Split!Skip
  <2>4. Len(typed) \in lineAt..LineSize - 1
    BY <2>1
  <2>5. Split!FirstIn(lineAt, {"sep", "nul"}) \in Nat /\ Split!FirstIn(lineAt, {"sep", "nul"}) <= Len(typed)
    <3>1. line[Len(typed)] \in {"sep", "nul"}
      BY <2>2
    <3> QED BY <2>1, <2>4, <3>1, FirstInIs
  <2> QED BY <1>1, <2>1, <2>3, <2>5
<1>3. SplitTyping'
  BY <1>1 DEF SplitInv, SplitTyping
<1>4. (OnLine \/ Unread)'
  BY <1>1 DEF SplitInv, OnLine, Unread
<1>5. Cutting => Cutting'
  BY <1>1 DEF Cutting, CutTo, Split!Joined, Split!Text
<1> QED BY <1>1, <1>2, <1>3, <1>4, <1>5 DEF SplitInv

LEMMA SplitSendKeeps ==
  ASSUME Split!SplitAssumption, SplitInv, splitStatus \notin {"dead", "fault"}, Split!Send
  PROVE  SplitInv'
<1>1. /\ splitAt' = "read"
      /\ UNCHANGED <<line, typed, lineAt, words, capacity, short, splitStatus>>
  BY DEF Split!Send
<1>2. SplitTyping'
  BY <1>1 DEF SplitInv, SplitTyping
<1>3. (OnLine \/ Unread)'
  BY <1>1 DEF SplitInv, OnLine, Unread
<1> QED BY <1>1, <1>2, <1>3 DEF SplitInv, Cutting

\* What is sent is the line, but for a separator at its end.
LEMMA CutIsTheLine ==
  ASSUME Split!SplitAssumption, SplitInv
  PROVE  Split!WordsAreTheLine
<1>1. SplitTyping /\ LineSize \in Nat \ {0} /\ typed \in Seq(Typed) /\ Len(typed) \in Nat
  BY DEF SplitInv, SplitTyping, Split!SplitAssumption
<1>2. Split!Leading \in Nat /\ (Split!Leading = 0 <=> line[0] # "sep")
  BY <1>1, LeadingIs
<1>3. ASSUME splitAt = "send", splitStatus # "dead", Split!Leading = 0
      PROVE  IF short THEN Split!IsPrefix(Split!Joined, typed)
             ELSE typed \in {Split!Joined, Split!Joined \o <<"sep">>}
  <2>1. CutTo(lineAt) /\ (short \/ lineAt >= Len(typed))
    BY <1>2, <1>3 DEF SplitInv, Cutting
  <2> DEFINE x == Split!Joined
             p == lineAt
  <2>2. CASE words = <<>>
    <3>1. x = <<>>
      <4>1. x = Split!FlattenSeq(Parts(words)) /\ Len(Parts(words)) = 0 /\ Parts(words) = <<>>
        BY <2>2 DEF Split!Joined, Parts
      <4>2. IsJoined(Parts(words), Split!FlattenSeq(Parts(words)))
        BY <4>1, FlattenIsJoined
      <4> QED BY <4>1, <4>2 DEF IsJoined
    <3>2. p = 0
      BY <2>1, <2>2 DEF CutTo
    <3> HIDE DEF x
    <3>3. Split!IsPrefix(x, typed)
      <4>1. Len(x) = 0 /\ SubSeq(x, 1, 0) = <<>> /\ SubSeq(typed, 1, 0) = <<>>
        BY <1>1, <3>1
      <4> QED BY <1>1, <4>1 DEF Split!IsPrefix
    <3>4. ~short => typed = x
      BY <1>1, <2>1, <3>1, <3>2
    <3> QED BY <3>3, <3>4 DEF x
  <2>3. CASE words # <<>>
    <3>1. p \in 1..Len(typed) + 1 /\ x = SubSeq(typed, 1, p - 1) /\ (p <= Len(typed) => typed[p] = "sep")
      BY <2>1, <2>3 DEF CutTo
    <3> HIDE DEF x, p
    <3>2. x \in Seq(Typed) /\ Len(x) = p - 1 /\ \A j \in 1..p - 1 : x[j] = typed[j]
      <4>1. \A j \in 1..p - 1 : typed[j] \in Typed
        BY <1>1, <3>1, ElementOfSeq
      <4> QED BY <1>1, <3>1, <4>1, SubSeqProperties
    <3>3. Split!IsPrefix(x, typed)
      <4>1. SubSeq(x, 1, p - 1) = [j \in 1..p - 1 |-> x[j]]
        BY <3>1, <3>2
      <4>2. SubSeq(typed, 1, p - 1) = [j \in 1..p - 1 |-> typed[j]]
        BY <1>1, <3>1
      <4>3. SubSeq(x, 1, p - 1) = SubSeq(typed, 1, p - 1)
        BY <3>2, <4>1, <4>2
      <4>4. Len(x) <= Len(typed)
        BY <1>1, <3>1, <3>2
      <4> QED BY <3>2, <4>3, <4>4 DEF Split!IsPrefix
    <3>4. CASE p = Len(typed) + 1
      <4>1. x = typed
        BY <1>1, <3>2, <3>4
      <4> QED BY <3>3, <4>1 DEF x
    <3>5. CASE p = Len(typed)
      <4>1. typed = x \o <<"sep">>
        <5>1. x \o <<"sep">> = Append(x, "sep")
          BY <3>2
        <5>2. "sep" \in Typed
          BY DEF Typed
        <5>3. /\ Append(x, "sep") \in Seq(Typed) /\ Len(Append(x, "sep")) = p
              /\ Append(x, "sep")[p] = "sep" /\ \A j \in 1..p - 1 : Append(x, "sep")[j] = typed[j]
          BY <3>1, <3>2, <5>2
        <5> DEFINE y == Append(x, "sep")
        <5>4. \A j \in 1..Len(typed) : y[j] = typed[j]
          BY <3>1, <3>5, <5>3
        <5>5. y \in Seq(Typed) /\ Len(y) = Len(typed)
          BY <3>5, <5>3
        <5> HIDE DEF y
        <5>6. y = typed
          BY <1>1, <5>4, <5>5
        <5> QED BY <5>1, <5>6 DEF y
      <4> QED BY <3>3, <4>1 DEF x
    <3>6. short \/ p = Len(typed) \/ p = Len(typed) + 1
      BY <1>1, <2>1, <3>1 DEF p
    <3> QED BY <3>3, <3>4, <3>5, <3>6 DEF x
  <2> QED BY <2>2, <2>3
<1>4. splitStatus = "dead" => words # <<>>
  BY DEF SplitInv
<1>5. splitStatus = "fault" => Split!Leading > 0 \/ line[0] = "junk"
  BY <1>2 DEF SplitInv
<1>6. Len(words) > 1 => splitStatus # "ok"
  BY DEF SplitInv
<1> QED BY <1>3, <1>4, <1>5, <1>6 DEF Split!WordsAreTheLine

\* A line that does not start with a separator is cut into the words that make it up,
\* whatever the array holds behind it, for any size of the array and any lines
\* (kvs_str.c:257-288, kvs_cli.c:92-101).
THEOREM WordsMakeTheLine ==
  ASSUME Split!SplitAssumption
  PROVE  Split!Spec => []Split!WordsAreTheLine
<1>1. Split!Init => SplitInv
  BY SplitBegins
<1>2. SplitInv /\ [Split!Next]_Split!vars => SplitInv'
  <2> SUFFICES ASSUME SplitInv, [Split!Next]_Split!vars PROVE SplitInv'
    OBVIOUS
  <2>1. CASE UNCHANGED Split!vars
    BY <2>1 DEF Split!vars, SplitInv, SplitTyping, OnLine, Unread, Cutting, CutTo, Split!Joined, Split!Text
  <2>2. CASE Split!Next
    BY <2>2, ReadLineKeeps, EndOfInputKeeps, EndsKeep, NextWordKeeps, BehindKeeps, SplitSendKeeps
       DEF Split!Next
  <2> QED BY <2>1, <2>2
<1>3. SplitInv => Split!WordsAreTheLine
  BY CutIsTheLine
<1> QED BY <1>1, <1>2, <1>3, PTL DEF Split!Spec

-----------------------------------------------------------------------------
(***************************************************************************)
(* The client's request.  Until a formatted piece is cut, what the buffer  *)
(* holds is the request up to the step that marshal is at, and a piece can *)
(* be cut only when what is there and the piece are as long as the array.  *)
(* A word that memory was refused for is left out.                         *)
(***************************************************************************)
Request == [p: {"null", "buf", "heap"}, flag: {"buf", "buffer"}, len: Nat, alloc: Nat,
            mem: UNION {[0..n - 1 -> Int] : n \in Nat}, ok: BOOLEAN]

\* A buffer that has a block, with room for the terminator.
Solid(c) == /\ c \in Request /\ c.ok /\ c.p \in {"buf", "heap"} /\ c.flag = "buffer"
            /\ c.alloc >= ArraySize /\ c.mem \in [0..c.alloc - 1 -> Int] /\ c.len < c.alloc

\* Its text.
Carries(c, t) == c.len = Len(t) /\ \A j \in 0..c.len - 1 : c.mem[j] = t[j + 1]

LEMMA ArrayIsLarge == ArraySize \in Nat /\ ArraySize > 7
BY PartsAssumption DEF Marshal!MarshalAssumption

LEMMA ABlockOfInts ==
  ASSUME NEW n \in Nat, NEW m \in [0..n - 1 -> Int]
  PROVE  m \in UNION {[0..k - 1 -> Int] : k \in Nat}
OBVIOUS

PutIn(r, c, i, s) ==
  /\ r \in Request /\ r.mem \in [0..c.alloc - 1 -> Int]
  /\ r.p = c.p /\ r.flag = c.flag /\ r.len = c.len /\ r.alloc = c.alloc /\ r.ok = c.ok
  /\ \A j \in 0..c.alloc - 1 :
       r.mem[j] = IF i <= j /\ j < i + Len(s) THEN s[(j - i) + 1] ELSE c.mem[j]

LEMMA PutInto ==
  ASSUME NEW c \in Request, c.mem \in [0..c.alloc - 1 -> Int], NEW i \in Nat, NEW s \in Seq(Int),
         i + Len(s) <= c.alloc
  PROVE  PutIn(Marshal!Put(c, i, s), c, i, s)
<1> DEFINE m == [j \in 0..c.alloc - 1 |-> IF j \in i..i + Len(s) - 1 THEN s[j - i + 1] ELSE c.mem[j]]
           r == [c EXCEPT !.mem = m]
<1>1. c.alloc \in Nat /\ Len(s) \in Nat /\ DOMAIN c.mem = 0..c.alloc - 1
  BY DEF Request
<1>2. Marshal!Put(c, i, s) = r
  <2>1. i..i + Len(s) - 1 \subseteq 0..c.alloc - 1
    BY <1>1
  <2>2. i..i + Len(s) - 1 \subseteq Marshal!Holds(c)
    BY <1>1, <2>1 DEF Marshal!Holds
  <2>3. Marshal!Put(c, i, s) = [c EXCEPT !.mem = [j \in DOMAIN @ |-> IF j \in i..i + Len(s) - 1 THEN s[j - i + 1] ELSE @[j]]]
    BY <2>2 DEF Marshal!Put
  <2> QED BY <1>1, <2>3 DEF Request
<1>3. ASSUME NEW j \in 0..c.alloc - 1
      PROVE  m[j] \in Int /\ m[j] = IF i <= j /\ j < i + Len(s) THEN s[(j - i) + 1] ELSE c.mem[j]
  <2>1. j \in i..i + Len(s) - 1 <=> i <= j /\ j < i + Len(s)
    BY <1>1
  <2>2. j \in i..i + Len(s) - 1 => j - i + 1 \in 1..Len(s) /\ j - i + 1 = (j - i) + 1
    BY <1>1
  <2>3. j \in i..i + Len(s) - 1 => s[j - i + 1] \in Int
    BY <2>2, ElementOfSeq
  <2>4. c.mem[j] \in Int
    OBVIOUS
  <2> QED BY <2>1, <2>2, <2>3, <2>4
<1>4. m \in [0..c.alloc - 1 -> Int]
  BY <1>3
<1> HIDE DEF m
<1>5. m \in UNION {[0..k - 1 -> Int] : k \in Nat}
  BY <1>1, <1>4, ABlockOfInts
<1>6. /\ r.mem = m /\ r.p = c.p /\ r.flag = c.flag /\ r.len = c.len /\ r.alloc = c.alloc /\ r.ok = c.ok
      /\ r \in Request
  BY <1>5 DEF Request
<1> HIDE DEF r
<1> QED BY <1>2, <1>3, <1>4, <1>6 DEF PutIn

\* The block is made larger, and the text stays.
LEMMA GrownTo ==
  ASSUME NEW c, Solid(c), NEW n \in Nat, n >= c.alloc
  PROVE  LET r == Marshal!Grown(c, n) IN
         /\ Solid(r) /\ r.len = c.len /\ r.alloc = n
         /\ \A j \in 0..c.len - 1 : r.mem[j] = c.mem[j]
<1> DEFINE kept == IF c.p = "buf" THEN c.len ELSE c.alloc
           m == [j \in 0..n - 1 |-> IF j < kept /\ j \in DOMAIN c.mem THEN c.mem[j] ELSE 256]
           r == [c EXCEPT !.p = "heap", !.alloc = n, !.mem = m]
<1>1. /\ c \in Request /\ c.alloc \in Nat /\ c.len \in Nat /\ c.len < c.alloc /\ kept \in Nat /\ c.len <= kept
      /\ DOMAIN c.mem = 0..c.alloc - 1 /\ c.mem \in [0..c.alloc - 1 -> Int] /\ c.alloc >= ArraySize
  BY DEF Solid, Request
<1>2. Marshal!Grown(c, n) = r
  BY DEF Marshal!Grown, Marshal!Moved, Marshal!Holds
<1> HIDE DEF kept
<1>3. m \in [0..n - 1 -> Int] /\ \A j \in 0..c.len - 1 : m[j] = c.mem[j]
  BY <1>1
<1>4. m \in UNION {[0..k - 1 -> Int] : k \in Nat}
  BY <1>3, ABlockOfInts
<1> HIDE DEF m
<1>5. r \in Request /\ r.mem = m /\ r.p = "heap" /\ r.flag = c.flag /\ r.len = c.len /\ r.alloc = n /\ r.ok = c.ok
  BY <1>1, <1>4 DEF Request
<1> HIDE DEF r
<1>6. n >= ArraySize /\ c.len < n
  BY <1>1, ArrayIsLarge
<1>7. Solid(r)
  BY <1>3, <1>5, <1>6 DEF Solid
<1> QED BY <1>2, <1>3, <1>5, <1>7

LEMMA Associate ==
  ASSUME NEW u \in Seq(Int), NEW v \in Seq(Int), NEW w \in Seq(Int)
  PROVE  (u \o v) \o w = u \o (v \o w)
BY SMTT(60), ConcatAssociative

\* Only the length is set.
LEMMA LengthSet ==
  ASSUME NEW c \in Request, NEW n \in Nat
  PROVE  LET r == [c EXCEPT !.len = n] IN
         /\ r \in Request /\ r.len = n
         /\ r.mem = c.mem /\ r.p = c.p /\ r.flag = c.flag /\ r.alloc = c.alloc /\ r.ok = c.ok
BY DEF Request

\* The array, before anything is in it.
LEMMA EmptyArray ==
  LET r == Marshal!InArray(Marshal!Null("buffer"))
  IN /\ Solid(r) /\ r.len = 0 /\ r.alloc = ArraySize
     /\ Marshal!Ready(Marshal!Null("buffer")) = r
<1> DEFINE m == [j \in 0..ArraySize - 1 |-> 256]
           r == [p |-> "buf", flag |-> "buffer", len |-> 0, alloc |-> ArraySize, mem |-> m, ok |-> TRUE]
<1>1. Marshal!InArray(Marshal!Null("buffer")) = r
  <2> DEFINE e == Marshal!Block(0)
             q == [p |-> "null", flag |-> "buffer", len |-> 0, alloc |-> 0, mem |-> e, ok |-> TRUE]
  <2>1. Marshal!Null("buffer") = q
    BY DEF Marshal!Null
  <2>2. Marshal!Block(ArraySize) = m
    BY DEF Marshal!Block
  <2> HIDE DEF e, m
  <2>3. Marshal!InArray(q) = [q EXCEPT !.p = "buf", !.len = 0, !.alloc = ArraySize, !.mem = m]
    BY <2>2 DEF Marshal!InArray
  <2> QED BY <2>1, <2>3
<1>2. Marshal!Ready(Marshal!Null("buffer")) = Marshal!InArray(Marshal!Null("buffer"))
  BY DEF Marshal!Ready, Marshal!Null
<1>3. m \in [0..ArraySize - 1 -> Int]
  OBVIOUS
<1> HIDE DEF m
<1>4. m \in UNION {[0..k - 1 -> Int] : k \in Nat}
  BY <1>3, ArrayIsLarge, ABlockOfInts
<1>5. r \in Request
  BY <1>4, ArrayIsLarge DEF Request
<1>6. Solid(r) /\ r.len = 0 /\ r.alloc = ArraySize
  BY <1>3, <1>5, ArrayIsLarge DEF Solid
<1> HIDE DEF r
<1> QED BY <1>1, <1>2, <1>6

\* A formatted piece that fits is put behind the text.
LEMMA PieceFits ==
  ASSUME NEW c, Solid(c), NEW s \in Seq(Int), Marshal!Fits(c, s), NEW fails, NEW d,
         Marshal!Ready(d) = c, d.flag = "buffer"
  PROVE  LET r == Marshal!Sprintf(d, s, fails) IN
         /\ Solid(r) /\ r.len = c.len + Len(s)
         /\ \A t \in Seq(Int) : Carries(c, t) => Carries(r, t \o s)
<1> DEFINE v == s \o <<0>>
           put == Marshal!Put(c, c.len, v)
           r == [put EXCEPT !.len = @ + Len(s)]
<1>1. /\ c \in Request /\ c.alloc \in Nat /\ c.len \in Nat /\ Len(s) \in Nat
      /\ c.alloc >= ArraySize /\ c.len < c.alloc /\ Len(s) < c.alloc - c.len
      /\ c.mem \in [0..c.alloc - 1 -> Int] /\ c.ok /\ c.p \in {"buf", "heap"} /\ c.flag = "buffer"
  BY DEF Solid, Request, Marshal!Fits
<1>2. Marshal!Sprintf(d, s, fails) = r
  <2>1. Marshal!Accepted(c, s)
    BY <1>1 DEF Marshal!Accepted
  <2>2. Marshal!Sprintf(d, s, fails) = Marshal!Counted(Marshal!Printed(c, s), s)
    BY <2>1 DEF Marshal!Sprintf
  <2>3. Marshal!Printed(c, s) = put
    <3>1. c.alloc - c.len # 0 /\ ~(Len(s) >= c.alloc - c.len)
      BY <1>1
    <3> QED BY <3>1 DEF Marshal!Printed
  <2> HIDE DEF put
  <2> QED BY <2>2, <2>3 DEF Marshal!Counted
<1>3. v \in Seq(Int) /\ Len(v) = Len(s) + 1 /\ \A j \in 1..Len(s) : v[j] = s[j]
  OBVIOUS
<1> HIDE DEF v
<1>4. /\ put \in Request /\ put.mem \in [0..c.alloc - 1 -> Int]
      /\ put.p = c.p /\ put.flag = c.flag /\ put.len = c.len /\ put.alloc = c.alloc /\ put.ok = c.ok
      /\ \A j \in 0..c.alloc - 1 :
           put.mem[j] = IF c.len <= j /\ j < c.len + Len(v) THEN v[(j - c.len) + 1] ELSE c.mem[j]
  <2> DEFINE i == c.len
  <2>1. i + Len(v) <= c.alloc /\ i \in Nat
    BY <1>1, <1>3
  <2>2. c \in Request /\ c.mem \in [0..c.alloc - 1 -> Int] /\ v \in Seq(Int)
    BY <1>1, <1>3
  <2>3. put = Marshal!Put(c, i, v)
    OBVIOUS
  <2> HIDE DEF i, put
  <2>4. /\ put \in Request /\ put.mem \in [0..c.alloc - 1 -> Int]
        /\ put.p = c.p /\ put.flag = c.flag /\ put.len = c.len /\ put.alloc = c.alloc /\ put.ok = c.ok
        /\ \A j \in 0..c.alloc - 1 :
             put.mem[j] = IF i <= j /\ j < i + Len(v) THEN v[(j - i) + 1] ELSE c.mem[j]
    <3>8. PutIn(put, c, i, v)
      BY <2>1, <2>2, <2>3, PutInto
    <3> QED BY <3>8 DEF PutIn
  <2> QED BY <2>4 DEF i
<1> HIDE DEF put
<1>5. /\ r \in Request /\ r.mem = put.mem /\ r.p = c.p /\ r.flag = c.flag /\ r.alloc = c.alloc /\ r.ok = c.ok
      /\ r.len = c.len + Len(s)
  <2> DEFINE m == c.len + Len(s)
  <2>1. m \in Nat /\ put \in Request
    BY <1>1, <1>4
  <2>2. r = [put EXCEPT !.len = m]
    BY <1>4
  <2> HIDE DEF m, r
  <2>3. /\ r \in Request /\ r.len = m
        /\ r.mem = put.mem /\ r.p = put.p /\ r.flag = put.flag /\ r.alloc = put.alloc /\ r.ok = put.ok
    BY <2>1, <2>2, LengthSet
  <2> QED BY <1>4, <2>3 DEF m
<1> HIDE DEF r
<1>6. Solid(r)
  <2>1. r.len < r.alloc
    BY <1>1, <1>5
  <2>2. r.mem \in [0..r.alloc - 1 -> Int]
    BY <1>4, <1>5
  <2> QED BY <1>1, <1>5, <2>1, <2>2 DEF Solid
<1>7. ASSUME NEW t \in Seq(Int), Carries(c, t) PROVE Carries(r, t \o s)
  <2> DEFINE u == t \o s
  <2>1. c.len = Len(t) /\ \A j \in 0..c.len - 1 : c.mem[j] = t[j + 1]
    BY <1>7 DEF Carries
  <2>2. /\ Len(u) = Len(t) + Len(s)
        /\ \A j \in 1..Len(t) : u[j] = t[j]
        /\ \A j \in 1..Len(s) : u[Len(t) + j] = s[j]
    BY Joint
  <2> HIDE DEF u
  <2>3. ASSUME NEW j \in 0..r.len - 1 PROVE r.mem[j] = u[j + 1]
    <3>1. j \in 0..c.alloc - 1 /\ Len(t) \in Nat
      BY <1>1, <1>5
    <3>2. CASE j < c.len
      <4>1. r.mem[j] = c.mem[j]
        BY <1>1, <1>4, <1>5, <3>1, <3>2
      <4>2. j \in 0..c.len - 1 /\ j + 1 \in 1..Len(t)
        BY <1>1, <2>1, <3>1, <3>2
      <4> QED BY <2>1, <2>2, <4>1, <4>2
    <3>3. CASE j >= c.len
      <4>1. (j - c.len) + 1 \in 1..Len(s) /\ Len(t) + ((j - c.len) + 1) = j + 1
            /\ c.len <= j /\ j < c.len + Len(v)
        <5>1. Len(t) = c.len /\ Len(v) = Len(s) + 1 /\ j \in Nat /\ j < c.len + Len(s)
              /\ c.len \in Nat /\ Len(s) \in Nat
          BY <1>1, <1>3, <1>5, <2>1, <3>1
        <5> DEFINE h == c.len
                   k == Len(s)
        <5>2. j \in Nat /\ h \in Nat /\ k \in Nat /\ j < h + k /\ j >= h
          BY <3>3, <5>1
        <5> HIDE DEF h, k
        <5>3. (j - h) + 1 \in 1..k /\ h + ((j - h) + 1) = j + 1 /\ h <= j /\ j < h + (k + 1)
          BY <5>2
        <5> QED BY <5>1, <5>3 DEF h, k
      <4>2. r.mem[j] = v[(j - c.len) + 1]
        BY <1>4, <1>5, <3>1, <4>1
      <4>3. v[(j - c.len) + 1] = s[(j - c.len) + 1]
        BY <1>3, <4>1
      <4>4. u[Len(t) + ((j - c.len) + 1)] = s[(j - c.len) + 1]
        BY <2>2, <4>1
      <4> QED BY <4>1, <4>2, <4>3, <4>4
    <3> QED BY <1>1, <3>1, <3>2, <3>3
  <2>4. r.len = Len(u)
    BY <1>5, <2>1, <2>2
  <2> QED BY <2>3, <2>4 DEF Carries, u
<1> QED BY <1>2, <1>5, <1>6, <1>7

\* A word is put behind the text, or memory for it was refused.
LEMMA WordAdded ==
  ASSUME NEW c, Solid(c), NEW s \in Seq(Int), NEW fails \in BOOLEAN
  PROVE  LET r == Marshal!Appended(c, s, fails) IN
         \/ r = c /\ Marshal!SetRangeFails(c, c.len, s, fails)
         \/ /\ Solid(r) /\ r.len = c.len + Len(s)
            /\ \A t \in Seq(Int) : Carries(c, t) => Carries(r, t \o s)
<1> DEFINE need == c.len + Len(s) + 1
           n == IF need < 2 * c.alloc THEN 2 * c.alloc ELSE need
           g == IF Marshal!Enough(c, need) THEN c ELSE Marshal!Grown(c, n)
           l == c.len
           a == Marshal!Put(g, l, s)
           z == Marshal!Put(a, l + Len(s), <<0>>)
           r == [z EXCEPT !.len = l + Len(s)]
<1>1. /\ c \in Request /\ c.alloc \in Nat /\ l \in Nat /\ Len(s) \in Nat
      /\ c.alloc >= ArraySize /\ l < c.alloc
      /\ c.mem \in [0..c.alloc - 1 -> Int] /\ c.ok /\ c.p \in {"buf", "heap"} /\ c.flag = "buffer"
  BY DEF Solid, Request
<1>2. \A f : Marshal!Prepared(c, need, f) = c
  BY <1>1 DEF Marshal!Prepared
<1>3. CASE ~Marshal!Enough(c, need) /\ fails
  <2>1. Marshal!Appended(c, s, fails) = c
    <3>1. ~(c.len < 0)
      BY <1>1
    <3> QED BY <1>2, <1>3, <3>1 DEF Marshal!Appended, Marshal!SetRange
  <2>2. Marshal!SetRangeFails(c, c.len, s, fails)
    BY <1>2, <1>3 DEF Marshal!SetRangeFails
  <2> QED BY <2>1, <2>2
<1>4. CASE Marshal!Enough(c, need) \/ ~fails
  <2>1. /\ Solid(g) /\ g.len = l /\ g.alloc >= need
        /\ \A j \in 0..l - 1 : g.mem[j] = c.mem[j]
    <3>1. CASE Marshal!Enough(c, need)
      BY <1>1, <3>1 DEF Marshal!Enough
    <3>2. CASE ~Marshal!Enough(c, need)
      <4>1. n \in Nat /\ n >= need /\ n >= c.alloc
        <5>1. need \in Nat /\ c.alloc \in Nat
          BY <1>1
        <5> HIDE DEF need
        <5> QED BY <5>1
      <4>2. g = Marshal!Grown(c, n)
        BY <3>2
      <4> HIDE DEF n, g, need, l
      <4>3. /\ Solid(g) /\ g.len = c.len /\ g.alloc = n
            /\ \A j \in 0..c.len - 1 : g.mem[j] = c.mem[j]
        BY <4>1, <4>2, GrownTo
      <4> QED BY <4>1, <4>3 DEF l
    <3> QED BY <3>1, <3>2
  <2>2. Marshal!Appended(c, s, fails) = Marshal!Ended(Marshal!Filled(a, l), l + Len(s))
    <3>1. ~(c.len < 0)
      BY <1>1
    <3> QED BY <1>2, <1>4, <3>1 DEF Marshal!Appended, Marshal!SetRange
  <2>3. need = l + Len(s) + 1
    OBVIOUS
  <2> HIDE DEF g, need, n, l
  <2>4. /\ g \in Request /\ g.alloc \in Nat /\ g.mem \in [0..g.alloc - 1 -> Int] /\ l + Len(s) < g.alloc
        /\ g.ok /\ g.p \in {"buf", "heap"} /\ g.flag = "buffer" /\ g.alloc >= ArraySize
    <3>1. /\ g \in Request /\ g.ok /\ g.p \in {"buf", "heap"} /\ g.flag = "buffer"
          /\ g.alloc >= ArraySize /\ g.mem \in [0..g.alloc - 1 -> Int]
      BY <2>1 DEF Solid
    <3>2. g.alloc \in Nat
      BY <3>1 DEF Request
    <3>3. l + Len(s) < g.alloc
      <4>1. g.alloc >= l + Len(s) + 1
        BY <2>1, <2>3
      <4> QED BY <1>1, <3>2, <4>1
    <3> QED BY <3>1, <3>2, <3>3
  <2>5. /\ a \in Request /\ a.mem \in [0..g.alloc - 1 -> Int]
        /\ a.p = g.p /\ a.flag = g.flag /\ a.len = g.len /\ a.alloc = g.alloc /\ a.ok = g.ok
        /\ \A j \in 0..g.alloc - 1 :
             a.mem[j] = IF l <= j /\ j < l + Len(s) THEN s[(j - l) + 1] ELSE g.mem[j]
    <3>1. l + Len(s) <= g.alloc
      BY <1>1, <2>4
    <3>9. PutIn(a, g, l, s)
      BY <1>1, <2>4, <3>1, PutInto
    <3> QED BY <3>9 DEF PutIn
  <2> HIDE DEF a
  <2>6. Marshal!Filled(a, l) = a
    BY <1>1, <2>1, <2>5 DEF Marshal!Filled
  <2>7. Marshal!Appended(c, s, fails) = r
    BY <2>2, <2>6 DEF Marshal!Ended
  <2> DEFINE m == l + Len(s)
             o == <<0>>
  <2>8. /\ z \in Request /\ z.mem \in [0..a.alloc - 1 -> Int]
        /\ z.p = a.p /\ z.flag = a.flag /\ z.len = a.len /\ z.alloc = a.alloc /\ z.ok = a.ok
        /\ \A j \in 0..a.alloc - 1 :
             z.mem[j] = IF m <= j /\ j < m + Len(o) THEN o[(j - m) + 1] ELSE a.mem[j]
    <3>1. m \in Nat /\ o \in Seq(Int) /\ Len(o) = 1
      BY <1>1
    <3>2. z = Marshal!Put(a, m, o)
      OBVIOUS
    <3> HIDE DEF m, o, z
    <3>3. m + Len(o) <= a.alloc
      BY <1>1, <2>4, <2>5, <3>1 DEF m
    <3>4. a.mem \in [0..a.alloc - 1 -> Int]
      BY <2>5
    <3>9. PutIn(z, a, m, o)
      BY <2>5, <3>1, <3>2, <3>3, <3>4, PutInto
    <3> QED BY <3>9 DEF PutIn
  <2> HIDE DEF z
  <2>9. /\ r \in Request /\ r.mem = z.mem /\ r.p = g.p /\ r.flag = g.flag /\ r.alloc = g.alloc /\ r.ok = g.ok
        /\ r.len = m
    <3>1. m \in Nat /\ z \in Request
      BY <1>1, <2>8
    <3> HIDE DEF m
    <3>2. /\ r \in Request /\ r.len = m
          /\ r.mem = z.mem /\ r.p = z.p /\ r.flag = z.flag /\ r.alloc = z.alloc /\ r.ok = z.ok
      <4>1. r = [z EXCEPT !.len = m]
        BY DEF m
      <4> HIDE DEF r
      <4> QED BY <3>1, <4>1, LengthSet
    <3> QED BY <2>5, <2>8, <3>2
  <2> HIDE DEF r
  <2>10. Solid(r)
    <3>1. r.len < r.alloc /\ r.mem \in [0..r.alloc - 1 -> Int]
      BY <2>4, <2>5, <2>8, <2>9
    <3> QED BY <2>4, <2>9, <3>1 DEF Solid
  <2>11. ASSUME NEW t \in Seq(Int), Carries(c, t) PROVE Carries(r, t \o s)
    <3> DEFINE u == t \o s
    <3>1. l = Len(t) /\ \A j \in 0..l - 1 : c.mem[j] = t[j + 1]
      BY <2>11 DEF Carries, l
    <3>2. /\ Len(u) = Len(t) + Len(s)
          /\ \A j \in 1..Len(t) : u[j] = t[j]
          /\ \A j \in 1..Len(s) : u[Len(t) + j] = s[j]
      BY Joint
    <3> HIDE DEF u
    <3>3. ASSUME NEW j \in 0..r.len - 1 PROVE r.mem[j] = u[j + 1]
      <4>1. j \in 0..a.alloc - 1 /\ j \in 0..g.alloc - 1 /\ Len(t) \in Nat /\ ~(m <= j) /\ j < m
        BY SMTT(60), <1>1, <2>4, <2>5, <2>9
      <4>2. r.mem[j] = a.mem[j]
        BY <2>8, <2>9, <4>1
      <4>3. CASE j < l
        <5>1. j \in 0..l - 1 /\ j + 1 \in 1..Len(t) /\ ~(l <= j)
          BY <1>1, <3>1, <4>1, <4>3
        <5>2. a.mem[j] = c.mem[j]
          BY <2>1, <2>5, <4>1, <5>1
        <5> QED BY <3>1, <3>2, <4>2, <5>1, <5>2
      <4>4. CASE j >= l
        <5>1. (j - l) + 1 \in 1..Len(s) /\ Len(t) + ((j - l) + 1) = j + 1 /\ l <= j /\ j < l + Len(s)
          BY <1>1, <3>1, <4>1, <4>4
        <5>2. a.mem[j] = s[(j - l) + 1]
          BY <2>5, <4>1, <5>1
        <5>3. u[Len(t) + ((j - l) + 1)] = s[(j - l) + 1]
          BY <3>2, <5>1
        <5> QED BY <4>2, <5>1, <5>2, <5>3
      <4> QED BY <1>1, <4>1, <4>3, <4>4
    <3>4. r.len = Len(u)
      BY <2>9, <3>1, <3>2
    <3> QED BY <3>3, <3>4 DEF Carries, u
  <2>12. r.len = c.len + Len(s)
    BY <2>9 DEF l
  <2> QED BY <2>7, <2>10, <2>11, <2>12
<1> QED BY <1>3, <1>4

-----------------------------------------------------------------------------
\* What is printed.
LEMMA NumbersFit ==
  ASSUME NEW n \in Nat, n < 10000
  PROVE  /\ Marshal!CountLine(n) \in Seq(Int) /\ Len(Marshal!CountLine(n)) <= 7
         /\ Marshal!LengthLine(n) \in Seq(Int) /\ Len(Marshal!LengthLine(n)) <= 7
<1> DEFINE w == Marshal!Width(n)
           P(x) == n < Marshal!Tens[x + 1] /\ (x = 1 \/ n >= Marshal!Tens[x])
           d == Marshal!Digits(n)
<1>1. /\ Marshal!Tens[1] = 1 /\ Marshal!Tens[2] = 10 /\ Marshal!Tens[3] = 100
      /\ Marshal!Tens[4] = 1000 /\ Marshal!Tens[5] = 10000
  BY DEF Marshal!Tens
<1>2. w \in 1..4
  <2>1. \E x \in 1..4 : P(x)
    <3>1. CASE n < 10
      <4>1. P(1)
        BY <1>1, <3>1
      <4> QED BY <4>1
    <3>2. CASE n >= 10 /\ n < 100
      <4>1. P(2)
        BY <1>1, <3>2
      <4> QED BY <4>1
    <3>3. CASE n >= 100 /\ n < 1000
      <4>1. P(3)
        BY <1>1, <3>3
      <4> QED BY <4>1
    <3>4. CASE n >= 1000
      <4>1. P(4)
        BY <1>1, <3>4
      <4> QED BY <4>1
    <3> QED BY <3>1, <3>2, <3>3, <3>4
  <2>2. w = CHOOSE x \in 1..4 : P(x)
    BY DEF Marshal!Width
  <2> HIDE DEF P, w
  <2> QED BY <2>1, <2>2
<1> HIDE DEF w
<1>3. d \in Seq(Int) /\ Len(d) = w
  <2>1. d = [j \in 1..w |-> 48 + ((n \div Marshal!Tens[w - j + 1]) % 10)]
    BY DEF Marshal!Digits, w
  <2>2. ASSUME NEW j \in 1..w PROVE 48 + ((n \div Marshal!Tens[w - j + 1]) % 10) \in Int
    <3> DEFINE q == Marshal!Tens[w - j + 1]
               e == (n \div q) % 10
    <3>1. w - j + 1 \in {1, 2, 3, 4}
      BY <1>2
    <3>2. q \in {1, 10, 100, 1000}
      BY <1>1, <3>1
    <3> HIDE DEF q
    <3>3. n \div q \in Int
      BY <3>2
    <3>4. e \in Int
      BY <3>3
    <3> HIDE DEF e
    <3>5. 48 + e \in Int
      BY <3>4
    <3> QED BY <3>5 DEF e, q
  <2> HIDE DEF d
  <2>3. d \in [1..w -> Int]
    BY <2>1, <2>2
  <2>4. w \in Nat
    BY <1>2
  <2> QED BY <2>3, <2>4
<1>4. Marshal!CountLine(n) = (<<42>> \o d) \o <<13, 10>> /\ Marshal!LengthLine(n) = (<<36>> \o d) \o <<13, 10>>
  BY DEF Marshal!CountLine, Marshal!LengthLine, Marshal!CRLF
<1> HIDE DEF d
<1>5. ASSUME NEW x \in Int
      PROVE  (<<x>> \o d) \o <<13, 10>> \in Seq(Int) /\ Len((<<x>> \o d) \o <<13, 10>>) = w + 3
  <2> DEFINE a == <<x>>
             u == a \o d
             z == <<13, 10>>
  <2>1. a \in Seq(Int) /\ Len(a) = 1 /\ z \in Seq(Int) /\ Len(z) = 2
    OBVIOUS
  <2> HIDE DEF a, z
  <2>2. u \in Seq(Int) /\ Len(u) = 1 + w
    <3>1. a \o d \in Seq(Int) /\ Len(a \o d) = Len(a) + Len(d)
      <4>1. a \in Seq(Int) /\ d \in Seq(Int)
        BY <1>3, <2>1
      <4> QED BY <4>1, JointInts
    <3> QED BY <1>3, <2>1, <3>1
  <2> HIDE DEF u
  <2>3. u \o z \in Seq(Int) /\ Len(u \o z) = (1 + w) + 2
    <3>1. u \o z \in Seq(Int) /\ Len(u \o z) = Len(u) + Len(z)
      <4>1. u \in Seq(Int) /\ z \in Seq(Int)
        BY <2>1, <2>2
      <4> QED BY <4>1, JointInts
    <3> QED BY <2>1, <2>2, <3>1
  <2>4. (1 + w) + 2 = w + 3
    BY <1>2
  <2> QED BY <2>3, <2>4 DEF u, a, z
<1>6. w + 3 <= 7
  BY <1>2
<1>7. 42 \in Int /\ 36 \in Int
  OBVIOUS
<1> QED BY <1>4, <1>5, <1>6, <1>7

\* One print behind a text that is no shorter than the buffer says.
LEMMA OnePrint ==
  ASSUME NEW c, Solid(c), NEW s \in Seq(Int), Len(s) <= 7, NEW fails, NEW d,
         Marshal!Ready(d) = c, d.flag = "buffer",
         NEW t \in Seq(Int), c.len <= Len(t)
  PROVE  LET r == Marshal!Sprintf(d, s, fails) IN
         /\ ~Marshal!Fits(c, s) => Len(t \o s) >= ArraySize
         /\ Marshal!Fits(c, s) => /\ Solid(r) /\ r.len <= Len(t \o s)
                                  /\ Carries(c, t) => Carries(r, t \o s)
<1> DEFINE r == Marshal!Sprintf(d, s, fails)
           u == t \o s
<1>1. c.alloc \in Nat /\ c.len \in Nat /\ Len(s) \in Nat /\ Len(t) \in Nat /\ c.alloc >= ArraySize
  BY DEF Solid, Request
<1>2. Len(u) = Len(t) + Len(s)
  BY Joint
<1>3. CASE ~Marshal!Fits(c, s)
  <2>1. Len(s) >= c.alloc - c.len
    BY <1>1, <1>3 DEF Marshal!Fits
  <2> HIDE DEF u
  <2>2. Len(u) >= c.alloc
    BY <1>1, <1>2, <2>1
  <2>3. Len(u) >= ArraySize
    BY <1>1, <1>2, <2>2, ArrayIsLarge
  <2> QED BY <1>3, <2>3 DEF u
<1>4. CASE Marshal!Fits(c, s)
  <2>1. /\ Solid(r) /\ r.len = c.len + Len(s)
        /\ Carries(c, t) => Carries(r, u)
    BY <1>4, PieceFits
  <2> HIDE DEF r, u
  <2>2. r.len <= Len(u)
    BY <1>1, <1>2, <2>1
  <2> QED BY <1>4, <2>1, <2>2 DEF r, u
<1> QED BY <1>3, <1>4

-----------------------------------------------------------------------------
\* The request as it grows: F[j] is its first line and the first j words.
WordPiece(ws, j) == Marshal!LengthLine(Len(ws[j])) \o ws[j] \o <<13, 10>>

Grows(ws, F) ==
  /\ F[0] = Marshal!CountLine(Len(ws)) /\ F[Len(ws)] = Marshal!Formatted(ws)
  /\ \A j \in 0..Len(ws) : F[j] \in Seq(Int)
  /\ \A j \in 1..Len(ws) : F[j] = F[j - 1] \o WordPiece(ws, j)

\* The pieces of a request.
LEMMA PiecesAreBytes ==
  ASSUME NEW ws \in Requests
  PROVE  /\ Len(ws) \in Nat /\ Len(ws) < 10000
         /\ \A j \in 1..Len(ws) : /\ ws[j] \in Seq(Int) /\ Len(ws[j]) \in Nat /\ Len(ws[j]) < 10000
                                  /\ WordPiece(ws, j) \in Seq(Int)
<1>1. /\ ws \in Seq(Seq(0..255)) /\ Len(ws) < 10000
      /\ \A j \in 1..Len(ws) : Len(ws[j]) < 10000
  BY PartsAssumption DEF Marshal!MarshalAssumption
<1>2. ASSUME NEW j \in 1..Len(ws)
      PROVE  /\ ws[j] \in Seq(Int) /\ Len(ws[j]) \in Nat /\ Len(ws[j]) < 10000
             /\ WordPiece(ws, j) \in Seq(Int)
  <2> DEFINE w == ws[j]
             l == Marshal!LengthLine(Len(w))
             z == <<13, 10>>
  <2>1. w \in Seq(0..255) /\ Len(w) < 10000
    BY <1>1, ElementOfSeq
  <2> HIDE DEF w, z
  <2>2. w \in Seq(Int) /\ Len(w) \in Nat
    BY <2>1, InWider
  <2>3. l \in Seq(Int)
    BY <2>1, <2>2, NumbersFit
  <2> HIDE DEF l
  <2>4. z \in Seq(Int)
    BY DEF z
  <2>5. l \o w \in Seq(Int)
    BY <2>2, <2>3, Joint
  <2>6. (l \o w) \o z \in Seq(Int)
    BY <2>4, <2>5, Joint
  <2>7. WordPiece(ws, j) = (l \o w) \o z
    BY DEF WordPiece, l, w, z
  <2> QED BY <2>1, <2>2, <2>6, <2>7 DEF w
<1> QED BY <1>1, <1>2

LEMMA RequestGrows ==
  ASSUME NEW ws \in Requests
  PROVE  \E F : Grows(ws, F)
<1> DEFINE n == Len(ws)
           ss == [j \in 1..Len(ws) |-> WordPiece(ws, j)]
           cl == Marshal!CountLine(Len(ws))
           x == Marshal!FlattenSeq(ss)
<1>1. n \in Nat /\ n < 10000 /\ \A j \in 1..n : WordPiece(ws, j) \in Seq(Int)
  BY PiecesAreBytes
<1>2. cl \in Seq(Int)
  BY <1>1, NumbersFit
<1>3. Marshal!Formatted(ws) = cl \o x
  BY DEF Marshal!Formatted, Marshal!CRLF, WordPiece
<1>4. ss \in Seq(Seq(Int)) /\ Len(ss) = n /\ \A j \in 1..n : ss[j] = WordPiece(ws, j)
  <2>1. ss \in [1..n -> Seq(Int)]
    BY <1>1
  <2> QED BY <1>1, <2>1
<1>5. IsJoined(ss, x)
  BY <1>1, <1>4, FlattenIsJoined
<1> HIDE DEF cl, ss, x, n
<1>6. CASE n = 0
  <2>1. x = ss
    BY <1>4, <1>5, <1>6 DEF IsJoined
  <2>2. ss = <<>>
    BY <1>4, <1>6, EmptySeq
  <2>3. cl \o x = cl
    BY <1>2, <2>1, <2>2, ConcatEmptySeq
  <2> DEFINE F == [j \in 0..0 |-> cl]
  <2>4. F[0] = cl /\ n = 0 /\ cl = cl \o x
    BY <1>6, <2>3
  <2>5. \A j \in 0..n : F[j] \in Seq(Int)
    BY <1>2, <1>6
  <2> HIDE DEF F
  <2>6. Grows(ws, F)
    BY <1>3, <2>4, <2>5 DEF Grows, n, cl
  <2> QED BY <2>6
<1>7. CASE n # 0
  <2>1. PICK f : Joins(ss, n, f) /\ x = f[n]
    BY <1>4, <1>5, <1>7 DEF IsJoined
  <2>2. \A j \in 1..n : f[j] = IF j = 1 THEN WordPiece(ws, j) ELSE f[j - 1] \o WordPiece(ws, j)
    BY <1>4, <2>1 DEF Joins
  <2>3. \A j \in 1..n : f[j] \in Seq(Int)
    <3> DEFINE S == {j \in 1..n : f[j] \notin Seq(Int)}
    <3>1. ASSUME S # {} PROVE FALSE
      <4>1. PICK j \in S : \A i \in S : j <= i
        <5>1. S \in SUBSET Nat
          OBVIOUS
        <5> HIDE DEF S
        <5> QED BY <3>1, <5>1, LeastNat
      <4>2. CASE j = 1
        BY <1>1, <2>2, <4>1, <4>2
      <4>3. CASE j # 1
        <5>1. j - 1 \in 1..n /\ j - 1 \notin S
          BY <1>1, <4>1, <4>3
        <5>2. f[j - 1] \in Seq(Int) /\ WordPiece(ws, j) \in Seq(Int)
          BY <1>1, <4>1, <5>1
        <5>3. f[j - 1] \o WordPiece(ws, j) \in Seq(Int)
          BY <5>2, Joint
        <5> QED BY <2>2, <4>1, <4>3, <5>3
      <4> QED BY <4>2, <4>3
    <3> QED BY <3>1
  <2> DEFINE F == [j \in 0..n |-> IF j = 0 THEN cl ELSE cl \o f[j]]
  <2>4. F[0] = cl /\ F[n] = cl \o x
    <3>1. 0 \in 0..n /\ n \in 0..n
      BY <1>1
    <3> QED BY <1>7, <2>1, <3>1
  <2>5. \A j \in 0..n : F[j] \in Seq(Int)
    <3>1. ASSUME NEW j \in 1..n PROVE cl \o f[j] \in Seq(Int)
      <4>1. f[j] \in Seq(Int)
        BY <2>3
      <4> QED BY <1>2, <4>1, Joint
    <3>2. \A j \in 0..n : j = 0 \/ j \in 1..n
      BY <1>1
    <3> QED BY <1>2, <3>1, <3>2
  <2>6. ASSUME NEW j \in 1..n PROVE F[j] = F[j - 1] \o WordPiece(ws, j)
    <3> DEFINE w == WordPiece(ws, j)
    <3>1. F[j] = cl \o f[j] /\ F[j - 1] = IF j = 1 THEN cl ELSE cl \o f[j - 1]
      <4>1. j \in 0..n /\ j # 0 /\ j - 1 \in 0..n /\ (j - 1 = 0 <=> j = 1)
        BY <1>1
      <4> QED BY <4>1
    <3> HIDE DEF F
    <3>2. CASE j = 1
      BY <2>2, <3>1, <3>2
    <3>3. CASE j # 1
      <4> DEFINE e == f[j - 1]
      <4>1. e \in Seq(Int) /\ w \in Seq(Int)
        <5>1. j - 1 \in 1..n
          BY <1>1, <3>3
        <5> QED BY <1>1, <2>3, <5>1
      <4>2. f[j] = e \o w
        BY <2>2, <3>3
      <4>3. F[j] = cl \o f[j] /\ F[j - 1] = cl \o e
        BY <3>1, <3>3
      <4> HIDE DEF e, w
      <4>4. (cl \o e) \o w = cl \o (e \o w)
        <5>1. cl \in Seq(Int) /\ e \in Seq(Int) /\ w \in Seq(Int)
          BY <1>2, <4>1
        <5> QED BY <5>1, Associate
      <4>5. F[j] = F[j - 1] \o w
        BY <4>2, <4>3, <4>4
      <4> QED BY <4>5 DEF w
    <3> QED BY <3>2, <3>3
  <2> HIDE DEF F
  <2>7. Grows(ws, F)
    BY <1>3, <2>4, <2>5, <2>6 DEF Grows, n, cl
  <2> QED BY <2>7
<1> QED BY <1>6, <1>7

\* It only grows.
LEMMA FrontIsShorter ==
  ASSUME NEW ws \in Requests, NEW F, Grows(ws, F), NEW i \in 0..Len(ws)
  PROVE  Len(F[i]) <= Len(Marshal!Formatted(ws))
<1> DEFINE n == Len(ws)
           B == {j \in 0..n : Len(F[i]) > Len(F[j]) /\ i <= j}
<1>1. n \in Nat /\ \A j \in 1..n : WordPiece(ws, j) \in Seq(Int)
  BY PiecesAreBytes
<1>2. \A j \in 0..n : F[j] \in Seq(Int) /\ Len(F[j]) \in Nat
  BY DEF Grows
<1>3. ASSUME B # {} PROVE FALSE
  <2>1. PICK j \in B : \A h \in B : j <= h
    <3>1. B \in SUBSET Nat
      OBVIOUS
    <3> HIDE DEF B
    <3> QED BY <1>3, <3>1, LeastNat
  <2>2. j \in 0..n /\ i <= j /\ Len(F[i]) > Len(F[j])
    BY <2>1
  <2>3. j # i
    BY <1>2, <2>2
  <2>4. j \in 1..n /\ j - 1 \in 0..n /\ i <= j - 1 /\ ~(j <= j - 1)
    BY <1>1, <2>2, <2>3
  <2>5. j - 1 \notin B
    BY <2>1, <2>4
  <2> DEFINE e == F[j - 1]
             w == WordPiece(ws, j)
  <2>6. e \in Seq(Int) /\ w \in Seq(Int) /\ F[j] = e \o w /\ Len(F[i]) <= Len(e)
    <3>1. F[j] = e \o w
      BY <2>4 DEF Grows
    <3>2. Len(F[i]) <= Len(e)
      BY <1>2, <2>4, <2>5
    <3> QED BY <1>1, <1>2, <2>4, <3>1, <3>2
  <2> HIDE DEF e, w, B
  <2>7. Len(e \o w) = Len(e) + Len(w) /\ Len(e) \in Nat /\ Len(w) \in Nat
    BY <2>6, Joint
  <2> QED BY <1>2, <2>2, <2>6, <2>7
<1>4. n \in 0..n /\ i <= n /\ F[n] = Marshal!Formatted(ws)
  BY <1>1 DEF Grows
<1>5. ~(Len(F[i]) > Len(F[n]))
  BY <1>3, <1>4
<1> QED BY <1>2, <1>4, <1>5

-----------------------------------------------------------------------------
Front(ws) == CHOOSE F : Grows(ws, F)

\* What has been given to the buffer before the step that marshal is at.
Sofar(ws, j, at) ==
  CASE at = "length" -> Front(ws)[j]
    [] at = "word"   -> Front(ws)[j] \o Marshal!LengthLine(Len(ws[j + 1]))
    [] at = "crlf"   -> (Front(ws)[j] \o Marshal!LengthLine(Len(ws[j + 1]))) \o ws[j + 1]
    [] OTHER         -> Marshal!Formatted(ws)

\* The steps of one word.
LEMMA WordGrows ==
  ASSUME NEW ws \in Requests, NEW j \in 0..Len(ws) - 1
  PROVE  LET f == Front(ws)[j]
             l == Marshal!LengthLine(Len(ws[j + 1]))
             w == ws[j + 1]
         IN /\ f \in Seq(Int) /\ l \in Seq(Int) /\ Len(l) <= 7 /\ w \in Seq(Int)
            /\ f \o l \in Seq(Int) /\ (f \o l) \o w \in Seq(Int)
            /\ ((f \o l) \o w) \o <<13, 10>> = Front(ws)[j + 1]
            /\ Len(f \o l) <= Len(Marshal!Formatted(ws))
            /\ Len(((f \o l) \o w) \o <<13, 10>>) <= Len(Marshal!Formatted(ws))
<1> DEFINE f == Front(ws)[j]
           i == j + 1
           w == ws[i]
           l == Marshal!LengthLine(Len(w))
           z == <<13, 10>>
           F == Front(ws)
           all == Len(Marshal!Formatted(ws))
<1>1. Grows(ws, F)
  BY RequestGrows DEF Front
<1>2. Len(ws) \in Nat /\ i \in 1..Len(ws) /\ i - 1 = j /\ j \in 0..Len(ws) /\ i \in 0..Len(ws)
  BY PiecesAreBytes
<1>3. f \in Seq(Int)
  BY <1>1, <1>2 DEF Grows
<1>4. F[i] = f \o WordPiece(ws, i)
  BY <1>1, <1>2 DEF Grows
<1>5. w \in Seq(Int) /\ Len(w) \in Nat /\ Len(w) < 10000
  BY <1>2, PiecesAreBytes
<1>6. l \in Seq(Int) /\ Len(l) <= 7
  <2> DEFINE n == Len(w)
  <2>1. n \in Nat /\ n < 10000
    BY <1>5
  <2>2. l = Marshal!LengthLine(n)
    OBVIOUS
  <2> HIDE DEF n
  <2> QED BY <2>1, <2>2, NumbersFit
<1>7. WordPiece(ws, i) = (l \o w) \o z
  BY DEF WordPiece
<1>8. Len(F[i]) <= all
  BY <1>1, <1>2, FrontIsShorter
<1>9. j + 1 = i /\ z \in Seq(Int) /\ all = Len(Marshal!Formatted(ws))
  OBVIOUS
<1>10. all \in Nat
  <2>1. Marshal!Formatted(ws) \in Seq(Int)
    <3>1. Len(ws) \in 0..Len(ws)
      BY <1>2
    <3> HIDE DEF F
    <3> QED BY <1>1, <3>1 DEF Grows
  <2> QED BY <2>1
<1> HIDE DEF f, i, w, l, z, F, all
<1>11. f \o l \in Seq(Int) /\ Len(f \o l) = Len(f) + Len(l)
  BY <1>3, <1>6, JointInts
<1>12. (f \o l) \o w \in Seq(Int) /\ Len((f \o l) \o w) = Len(f \o l) + Len(w)
  BY <1>5, <1>11, JointInts
<1>13. Len(((f \o l) \o w) \o z) = Len((f \o l) \o w) + Len(z)
  BY <1>9, <1>12, JointInts
<1>14. ((f \o l) \o w) \o z = F[i]
  <2>1. l \o w \in Seq(Int)
    BY <1>5, <1>6, JointInts
  <2>2. (f \o l) \o w = f \o (l \o w)
    <3>1. f \in Seq(Int) /\ l \in Seq(Int) /\ w \in Seq(Int)
      BY <1>3, <1>5, <1>6
    <3> QED BY <3>1, Associate
  <2> DEFINE lw == l \o w
  <2>3. lw \in Seq(Int)
    BY <2>1
  <2> HIDE DEF lw
  <2>4. (f \o lw) \o z = f \o (lw \o z)
    BY <1>3, <1>9, <2>3, Associate
  <2> QED BY <1>4, <1>7, <2>2, <2>4 DEF lw
<1>15. Len(((f \o l) \o w) \o z) <= all
  BY <1>8, <1>14
<1>16. Len(f \o l) <= all
  <2>1. Len(w) \in Nat /\ Len(z) \in Nat /\ Len(f \o l) \in Nat
    BY <1>5, <1>9, <1>11
  <2>2. Len(f \o l) + Len(w) + Len(z) <= all
    BY <1>12, <1>13, <1>15
  <2> QED BY <1>10, <2>1, <2>2
<1>17. /\ f \in Seq(Int) /\ l \in Seq(Int) /\ Len(l) <= 7 /\ w \in Seq(Int)
       /\ f \o l \in Seq(Int) /\ (f \o l) \o w \in Seq(Int)
       /\ ((f \o l) \o w) \o z = F[i]
       /\ Len(f \o l) <= all
       /\ Len(((f \o l) \o w) \o z) <= all
  BY <1>3, <1>5, <1>6, <1>11, <1>12, <1>14, <1>15, <1>16
<1> QED BY <1>17, Zenon DEF f, i, w, l, z, F, all

\* The buffer and the text it should have.
LEMMA PrintKeeps ==
  ASSUME NEW s \in Seq(Int), Len(s) <= 7, Marshal!Prints(s), ~cutShort,
         NEW c, Solid(c), Marshal!Ready(request) = c, request.flag = "buffer",
         NEW t \in Seq(Int), c.len <= Len(t), ~starved => Carries(c, t)
  PROVE  /\ cutShort' => Len(t \o s) >= ArraySize
         /\ ~cutShort' => /\ Solid(request') /\ request'.len <= Len(t \o s)
                          /\ ~starved' => Carries(request', t \o s)
<1>1. PICK fails \in Marshal!Failures :
        /\ request' = Marshal!Sprintf(request, s, fails)
        /\ cutShort' = (cutShort \/ (Marshal!Accepted(c, s) /\ ~Marshal!Fits(c, s)))
        /\ starved' = (starved \/ Marshal!SprintfFails(request, s, fails))
  BY DEF Marshal!Prints
<1>2. Marshal!Accepted(c, s)
  <2>1. c.alloc \in Nat /\ c.alloc >= ArraySize /\ Len(s) \in Nat
    BY DEF Solid, Request
  <2> QED BY <2>1, ArrayIsLarge DEF Marshal!Accepted
<1>3. cutShort' <=> ~Marshal!Fits(c, s)
  BY <1>1, <1>2
<1>4. ~starved' => ~starved
  BY <1>1
<1> DEFINE r == request'
           d == request
<1>5. r = Marshal!Sprintf(d, s, fails) /\ Marshal!Ready(d) = c /\ d.flag = "buffer"
  BY <1>1
<1> HIDE DEF r, d
<1>6. /\ ~Marshal!Fits(c, s) => Len(t \o s) >= ArraySize
      /\ Marshal!Fits(c, s) => /\ Solid(r) /\ r.len <= Len(t \o s)
                               /\ Carries(c, t) => Carries(r, t \o s)
  BY <1>5, OnePrint
<1> QED BY <1>3, <1>4, <1>6 DEF r

-----------------------------------------------------------------------------
MarshalPlaces == {"count", "length", "word", "crlf", "write", "written"}

MarshalInv ==
  /\ argv \in Requests
  /\ marshalAt \in MarshalPlaces
  /\ marshalAt \in {"length", "word", "crlf"} => wordAt \in 0..Len(argv) - 1
  /\ cutShort => Len(Marshal!Formatted(argv)) >= ArraySize
  /\ ~cutShort /\ marshalAt = "count" => request = Marshal!Null("buffer")
  /\ ~cutShort /\ marshalAt # "count" =>
       /\ Solid(request) /\ request.len <= Len(Sofar(argv, wordAt, marshalAt))
       /\ ~starved => Carries(request, Sofar(argv, wordAt, marshalAt))
  /\ marshalAt = "written" /\ ~cutShort /\ ~starved => written = Marshal!Formatted(argv)

LEMMA MarshalStarts == Marshal!Init => MarshalInv
BY DEF Marshal!Init, MarshalInv, MarshalPlaces

\* Where a printing step leads.
LEMMA AfterPrint ==
  ASSUME MarshalInv, NEW s \in Seq(Int), Len(s) <= 7, Marshal!Prints(s),
         NEW c, ~cutShort => Solid(c) /\ Marshal!Ready(request) = c /\ request.flag = "buffer",
         NEW t \in Seq(Int), ~cutShort => c.len <= Len(t) /\ (~starved => Carries(c, t)),
         Len(t \o s) <= Len(Marshal!Formatted(argv)),
         argv' = argv, marshalAt' \in {"length", "word", "crlf", "write"},
         marshalAt' # "write" => wordAt' \in 0..Len(argv) - 1,
         Sofar(argv', wordAt', marshalAt') = t \o s
  PROVE  MarshalInv'
<1> DEFINE u == t \o s
           all == Len(Marshal!Formatted(argv))
<1>1. Len(u) \in Nat /\ all \in Nat
  <2>1. Len(u) \in Nat
    BY JointInts
  <2>2. Marshal!Formatted(argv) \in Seq(Int)
    <3>1. argv \in Requests
      BY DEF MarshalInv
    <3>2. PICK F : Grows(argv, F)
      BY <3>1, RequestGrows
    <3>3. Len(argv) \in 0..Len(argv)
      BY <3>1, PiecesAreBytes
    <3> QED BY <3>2, <3>3 DEF Grows
  <2> QED BY <2>1, <2>2
<1>2. cutShort => cutShort'
  BY DEF Marshal!Prints
<1>3. cutShort' => all >= ArraySize
  <2>1. CASE cutShort
    BY <2>1 DEF MarshalInv
  <2>2. CASE ~cutShort
    <3>1. cutShort' => Len(u) >= ArraySize
      BY <2>2, PrintKeeps
    <3> QED BY <1>1, <3>1, ArrayIsLarge
  <2> QED BY <2>1, <2>2
<1>4. ~cutShort' => /\ Solid(request') /\ request'.len <= Len(u)
                    /\ ~starved' => Carries(request', u)
  BY <1>2, PrintKeeps
<1>5. Sofar(argv', wordAt', marshalAt') = u
  OBVIOUS
<1>6. argv' \in Requests /\ Marshal!Formatted(argv') = Marshal!Formatted(argv)
  BY DEF MarshalInv
<1> HIDE DEF u
<1> QED BY <1>3, <1>4, <1>5, <1>6 DEF MarshalInv, MarshalPlaces

\* marshal begins with the number of words, in the empty array.
LEMMA CountKeeps == MarshalInv /\ Marshal!Count => MarshalInv'
<1> SUFFICES ASSUME MarshalInv, Marshal!Count PROVE MarshalInv'
  OBVIOUS
<1> DEFINE n == Len(argv)
           s == Marshal!CountLine(n)
           c == Marshal!InArray(Marshal!Null("buffer"))
           t == <<>>
<1>1. /\ marshalAt = "count" /\ Marshal!Prints(s) /\ argv' = argv /\ wordAt' = 0
      /\ marshalAt' = IF 0 < n THEN "length" ELSE "write"
  BY DEF Marshal!Count, Marshal!Start
<1>2. argv \in Requests /\ n \in Nat /\ n < 10000
  BY PiecesAreBytes DEF MarshalInv
<1>3. s \in Seq(Int) /\ Len(s) <= 7
  BY <1>2, NumbersFit
<1>4. ~cutShort => request = Marshal!Null("buffer")
  BY <1>1 DEF MarshalInv
<1>5. Solid(c) /\ c.len = 0 /\ Marshal!Ready(Marshal!Null("buffer")) = c
  BY EmptyArray
<1>6. Marshal!Null("buffer").flag = "buffer"
  BY DEF Marshal!Null
<1>7. t \in Seq(Int) /\ Len(t) = 0
  OBVIOUS
<1>8. Carries(c, t)
  BY <1>5, <1>7 DEF Carries
<1>9. t \o s = s
  BY <1>3, ConcatEmptySeq
<1>10. Grows(argv, Front(argv))
  BY <1>2, RequestGrows DEF Front
<1>11. Front(argv)[0] = s /\ Front(argv)[n] = Marshal!Formatted(argv)
  BY <1>10 DEF Grows
<1>12. Sofar(argv', wordAt', marshalAt') = s
  <2>1. CASE 0 < n
    BY <1>1, <1>11, <2>1 DEF Sofar
  <2>2. CASE ~(0 < n)
    BY <1>1, <1>2, <1>11, <2>2 DEF Sofar
  <2> QED BY <2>1, <2>2
<1>13. Len(s) <= Len(Marshal!Formatted(argv))
  <2>1. 0 \in 0..Len(argv)
    BY <1>2
  <2> HIDE DEF s
  <2> QED BY <1>2, <1>10, <1>11, <2>1, FrontIsShorter
<1>14. marshalAt' \in {"length", "word", "crlf", "write"} /\ (marshalAt' # "write" => wordAt' \in 0..n - 1)
  BY <1>1, <1>2
<1> HIDE DEF s, c, t
<1>15. ~cutShort => Solid(c) /\ Marshal!Ready(request) = c /\ request.flag = "buffer"
  BY <1>4, <1>5, <1>6
<1>16. ~cutShort => c.len <= Len(t) /\ (~starved => Carries(c, t))
  BY <1>5, <1>7, <1>8
<1>17. Len(t \o s) <= Len(Marshal!Formatted(argv)) /\ Sofar(argv', wordAt', marshalAt') = t \o s
  BY <1>9, <1>12, <1>13
<1> QED BY <1>1, <1>3, <1>7, <1>14, <1>15, <1>16, <1>17, AfterPrint

\* What holds between the first piece and the last.
LEMMA Midway ==
  ASSUME MarshalInv, ~cutShort, marshalAt # "count"
  PROVE  /\ Solid(request) /\ Marshal!Ready(request) = request /\ request.flag = "buffer"
         /\ request.len <= Len(Sofar(argv, wordAt, marshalAt))
         /\ ~starved => Carries(request, Sofar(argv, wordAt, marshalAt))
<1>1. /\ Solid(request) /\ request.len <= Len(Sofar(argv, wordAt, marshalAt))
      /\ ~starved => Carries(request, Sofar(argv, wordAt, marshalAt))
  BY DEF MarshalInv
<1>2. request.p # "null" /\ request.flag = "buffer"
  BY <1>1 DEF Solid
<1> QED BY <1>1, <1>2 DEF Marshal!Ready

LEMMA LengthKeeps == MarshalInv /\ Marshal!Length => MarshalInv'
<1> SUFFICES ASSUME MarshalInv, Marshal!Length PROVE MarshalInv'
  OBVIOUS
<1> DEFINE f == Front(argv)[wordAt]
           s == Marshal!LengthLine(Len(argv[wordAt + 1]))
<1>1. /\ marshalAt = "length" /\ Marshal!Prints(s) /\ argv' = argv /\ wordAt' = wordAt
      /\ marshalAt' = "word"
  BY DEF Marshal!Length
<1>2. argv \in Requests /\ wordAt \in 0..Len(argv) - 1
  BY <1>1 DEF MarshalInv
<1>3. /\ f \in Seq(Int) /\ s \in Seq(Int) /\ Len(s) <= 7
      /\ Len(f \o s) <= Len(Marshal!Formatted(argv))
  BY <1>2, WordGrows
<1>4. Sofar(argv, wordAt, marshalAt) = f
  BY <1>1 DEF Sofar
<1>5. Sofar(argv', wordAt', marshalAt') = f \o s
  BY <1>1 DEF Sofar
<1> HIDE DEF f, s
<1> DEFINE c == request
<1>6. ~cutShort => Solid(c) /\ Marshal!Ready(request) = c /\ request.flag = "buffer"
  BY <1>1, Midway
<1>7. ~cutShort => c.len <= Len(f) /\ (~starved => Carries(c, f))
  BY <1>1, <1>4, Midway
<1>8. marshalAt' \in {"length", "word", "crlf", "write"} /\ (marshalAt' # "write" => wordAt' \in 0..Len(argv) - 1)
  BY <1>1, <1>2
<1>9. PICK d : d = c
  OBVIOUS
<1>10. ~cutShort => Solid(d) /\ Marshal!Ready(request) = d /\ request.flag = "buffer"
  BY <1>6, <1>9
<1>11. ~cutShort => d.len <= Len(f) /\ (~starved => Carries(d, f))
  BY <1>7, <1>9
<1> HIDE DEF c
<1>12. PICK t \in Seq(Int) : t = f
  BY <1>3
<1>13. PICK v \in Seq(Int) : v = s
  BY <1>3
<1>14. /\ Len(v) <= 7 /\ Marshal!Prints(v) /\ Len(t \o v) <= Len(Marshal!Formatted(argv))
       /\ Sofar(argv', wordAt', marshalAt') = t \o v
       /\ ~cutShort => d.len <= Len(t) /\ (~starved => Carries(d, t))
  BY <1>1, <1>3, <1>5, <1>11, <1>12, <1>13
<1> QED BY <1>1, <1>8, <1>10, <1>14, AfterPrint

LEMMA WordKeeps == MarshalInv /\ Marshal!Word => MarshalInv'
<1> SUFFICES ASSUME MarshalInv, Marshal!Word PROVE MarshalInv'
  OBVIOUS
<1> DEFINE f == Front(argv)[wordAt] \o Marshal!LengthLine(Len(argv[wordAt + 1]))
           s == argv[wordAt + 1]
           u == f \o s
           c == request
<1>1. /\ marshalAt = "word" /\ argv' = argv /\ wordAt' = wordAt /\ cutShort' = cutShort
      /\ marshalAt' = "crlf" /\ written' = written
  BY DEF Marshal!Word
<1>2. PICK fails \in BOOLEAN :
        /\ request' = Marshal!Appended(c, s, fails)
        /\ starved' = (starved \/ Marshal!SetRangeFails(c, c.len, s, fails))
  <2>1. Marshal!Failures \subseteq BOOLEAN
    BY DEF Marshal!Failures
  <2> QED BY <2>1 DEF Marshal!Word
<1>3. argv \in Requests /\ wordAt \in 0..Len(argv) - 1
  BY <1>1 DEF MarshalInv
<1>4. f \in Seq(Int) /\ s \in Seq(Int)
  BY <1>3, WordGrows
<1>5. Sofar(argv, wordAt, marshalAt) = f
  BY <1>1 DEF Sofar
<1>6. Sofar(argv', wordAt', marshalAt') = u
  BY <1>1 DEF Sofar
<1> HIDE DEF f, s
<1>7. Len(u) = Len(f) + Len(s) /\ Len(f) \in Nat /\ Len(s) \in Nat
  BY <1>4, JointInts
<1>8. ~cutShort => /\ Solid(request') /\ request'.len <= Len(u)
                   /\ ~starved' => Carries(request', u)
  <2> SUFFICES ASSUME ~cutShort
               PROVE  /\ Solid(request') /\ request'.len <= Len(u)
                      /\ ~starved' => Carries(request', u)
    OBVIOUS
  <2>1. Solid(c) /\ c.len <= Len(f) /\ (~starved => Carries(c, f))
    BY <1>1, <1>5, Midway
  <2>2. c.len \in Nat
    BY <2>1 DEF Solid, Request
  <2> DEFINE r == request'
  <2>3. r = Marshal!Appended(c, s, fails)
    BY <1>2
  <2>4. PICK d : d = c
    OBVIOUS
  <2> HIDE DEF r, c
  <2>5. Solid(d) /\ r = Marshal!Appended(d, s, fails)
    BY <2>1, <2>3, <2>4
  <2>6. \/ r = d /\ Marshal!SetRangeFails(d, d.len, s, fails)
        \/ /\ Solid(r) /\ r.len = d.len + Len(s)
           /\ \A t \in Seq(Int) : Carries(d, t) => Carries(r, t \o s)
    BY <1>4, <2>5, WordAdded
  <2> HIDE DEF u
  <2>7. CASE r = c /\ Marshal!SetRangeFails(c, c.len, s, fails)
    <3>1. starved'
      BY <1>2, <2>7
    <3>2. r.len <= Len(u)
      BY <1>7, <2>1, <2>2, <2>7
    <3> QED BY <2>1, <2>7, <3>1, <3>2 DEF r
  <2>8. CASE /\ Solid(r) /\ r.len = c.len + Len(s)
             /\ \A t \in Seq(Int) : Carries(c, t) => Carries(r, t \o s)
    <3>1. r.len <= Len(u)
      BY <1>7, <2>1, <2>2, <2>8
    <3>2. ~starved' => Carries(r, u)
      BY <1>2, <1>4, <2>1, <2>8 DEF u
    <3> QED BY <2>8, <3>1, <3>2 DEF r
  <2> QED BY <2>4, <2>6, <2>7, <2>8
<1>9. wordAt' \in 0..Len(argv') - 1
  BY <1>1, <1>3
<1>10. argv' \in Requests /\ (cutShort' => Len(Marshal!Formatted(argv')) >= ArraySize)
  <2>1. argv' \in Requests
    BY <1>1, <1>3
  <2>2. cutShort => Len(Marshal!Formatted(argv)) >= ArraySize
    BY DEF MarshalInv
  <2>3. Marshal!Formatted(argv') = Marshal!Formatted(argv)
    BY <1>1
  <2> QED BY <1>1, <2>1, <2>2, <2>3
<1> HIDE DEF u, c
<1> QED BY <1>1, <1>6, <1>8, <1>9, <1>10 DEF MarshalInv, MarshalPlaces

LEMMA EndOfWordKeeps == MarshalInv /\ Marshal!EndOfWord => MarshalInv'
<1> SUFFICES ASSUME MarshalInv, Marshal!EndOfWord PROVE MarshalInv'
  OBVIOUS
<1> DEFINE f == (Front(argv)[wordAt] \o Marshal!LengthLine(Len(argv[wordAt + 1]))) \o argv[wordAt + 1]
           s == <<13, 10>>
           c == request
<1>1. /\ marshalAt = "crlf" /\ Marshal!Prints(s) /\ argv' = argv /\ wordAt' = wordAt + 1
      /\ marshalAt' = IF wordAt + 1 < Len(argv) THEN "length" ELSE "write"
  BY DEF Marshal!EndOfWord, Marshal!Start, Marshal!CRLF
<1>2. argv \in Requests /\ wordAt \in 0..Len(argv) - 1 /\ Len(argv) \in Nat
  BY <1>1, PiecesAreBytes DEF MarshalInv
<1>3. f \in Seq(Int) /\ f \o s = Front(argv)[wordAt + 1] /\ Len(f \o s) <= Len(Marshal!Formatted(argv))
  BY <1>2, WordGrows
<1>4. s \in Seq(Int) /\ Len(s) <= 7
  OBVIOUS
<1>5. Sofar(argv, wordAt, marshalAt) = f
  BY <1>1 DEF Sofar
<1> HIDE DEF f, s
<1>6. Sofar(argv', wordAt', marshalAt') = f \o s
  <2>1. CASE wordAt + 1 < Len(argv)
    BY <1>1, <1>3, <2>1 DEF Sofar
  <2>2. CASE ~(wordAt + 1 < Len(argv))
    <3>1. wordAt + 1 = Len(argv)
      BY <1>2, <2>2
    <3>2. Front(argv)[Len(argv)] = Marshal!Formatted(argv)
      <4>1. Grows(argv, Front(argv))
        BY <1>2, RequestGrows DEF Front
      <4> QED BY <4>1 DEF Grows
    <3>3. Sofar(argv', wordAt', marshalAt') = Marshal!Formatted(argv)
      BY <1>1, <2>2 DEF Sofar
    <3> QED BY <1>3, <3>1, <3>2, <3>3
  <2> QED BY <2>1, <2>2
<1>7. marshalAt' \in {"length", "word", "crlf", "write"} /\ (marshalAt' # "write" => wordAt' \in 0..Len(argv) - 1)
  BY <1>1, <1>2
<1>8. PICK d : d = c
  OBVIOUS
<1>9. ~cutShort => Solid(d) /\ Marshal!Ready(request) = d /\ request.flag = "buffer"
  BY <1>1, <1>8, Midway
<1>10. ~cutShort => d.len <= Len(f) /\ (~starved => Carries(d, f))
  BY <1>1, <1>5, <1>8, Midway
<1> HIDE DEF c
<1>11. PICK t \in Seq(Int) : t = f
  BY <1>3
<1>12. /\ Len(t \o s) <= Len(Marshal!Formatted(argv))
       /\ Sofar(argv', wordAt', marshalAt') = t \o s
       /\ ~cutShort => d.len <= Len(t) /\ (~starved => Carries(d, t))
  BY <1>3, <1>6, <1>10, <1>11
<1> QED BY <1>1, <1>4, <1>7, <1>9, <1>12, AfterPrint

\* What is written is what the buffer holds.
LEMMA HandOverKeeps == MarshalInv /\ Marshal!Write => MarshalInv'
<1> SUFFICES ASSUME MarshalInv, Marshal!Write PROVE MarshalInv'
  OBVIOUS
<1> DEFINE u == Marshal!Formatted(argv)
           c == request
<1>1. /\ marshalAt = "write" /\ marshalAt' = "written" /\ written' = Marshal!Bytes(c)
      /\ argv' = argv /\ wordAt' = wordAt /\ request' = request /\ starved' = starved /\ cutShort' = cutShort
  BY DEF Marshal!Write
<1>2. Sofar(argv, wordAt, marshalAt) = u /\ Sofar(argv', wordAt', marshalAt') = u
  BY <1>1 DEF Sofar
<1>3. ~cutShort /\ ~starved => Marshal!Bytes(c) = u
  <2> SUFFICES ASSUME ~cutShort, ~starved PROVE Marshal!Bytes(c) = u
    OBVIOUS
  <2>1. Solid(c) /\ Carries(c, u)
    BY <1>1, <1>2, Midway
  <2>2. c.p # "null" /\ c.len \in Nat /\ c.alloc \in Nat /\ c.len < c.alloc /\ DOMAIN c.mem = 0..c.alloc - 1
    BY <2>1 DEF Solid, Request
  <2>3. u \in Seq(Int)
    <3>1. argv \in Requests
      BY DEF MarshalInv
    <3>2. PICK F : Grows(argv, F)
      BY <3>1, RequestGrows
    <3>3. Len(argv) \in 0..Len(argv)
      BY <3>1, PiecesAreBytes
    <3> QED BY <3>2, <3>3 DEF Grows
  <2> HIDE DEF u, c
  <2>4. Marshal!Bytes(c) = [j \in 1..c.len |-> IF j - 1 \in 0..c.alloc - 1 THEN c.mem[j - 1] ELSE 256]
    BY <2>2 DEF Marshal!Bytes, Marshal!Holds
  <2>5. ASSUME NEW j \in 1..c.len
        PROVE  j - 1 \in 0..c.alloc - 1 /\ c.mem[j - 1] = u[j]
    <3>1. j - 1 \in 0..c.alloc - 1 /\ j - 1 \in 0..c.len - 1 /\ (j - 1) + 1 = j
      BY <2>2
    <3> QED BY <2>1, <3>1 DEF Carries
  <2>6. Marshal!Bytes(c) = [j \in 1..c.len |-> u[j]]
    BY <2>4, <2>5
  <2>7. u = [j \in 1..Len(u) |-> u[j]] /\ c.len = Len(u)
    BY <2>1, <2>3 DEF Carries
  <2> QED BY <2>6, <2>7
<1>4. ~cutShort => /\ Solid(request') /\ request'.len <= Len(u)
                   /\ ~starved' => Carries(request', u)
  BY <1>1, <1>2, Midway
<1>5. argv' \in Requests /\ (cutShort' => Len(Marshal!Formatted(argv')) >= ArraySize)
  BY <1>1 DEF MarshalInv
<1>6. Marshal!Formatted(argv') = u
  BY <1>1
<1> HIDE DEF u, c
<1> QED BY <1>1, <1>2, <1>3, <1>4, <1>5, <1>6 DEF MarshalInv, MarshalPlaces

LEMMA MarshalInvInductive == MarshalInv /\ [Marshal!Next]_(Marshal!vars) => MarshalInv'
<1>1. MarshalInv /\ UNCHANGED Marshal!vars => MarshalInv'
  <2> SUFFICES ASSUME MarshalInv, UNCHANGED Marshal!vars PROVE MarshalInv'
    OBVIOUS
  <2>1. /\ argv' = argv /\ wordAt' = wordAt /\ marshalAt' = marshalAt /\ request' = request
        /\ starved' = starved /\ cutShort' = cutShort /\ written' = written
    BY DEF Marshal!vars
  <2> QED BY <2>1 DEF MarshalInv
<1> QED BY <1>1, CountKeeps, LengthKeeps, WordKeeps, EndOfWordKeeps, HandOverKeeps DEF Marshal!Next

LEMMA MarshalInvImplies == MarshalInv => Marshal!SentUnlessSpoilt
<1> SUFFICES ASSUME MarshalInv PROVE Marshal!SentUnlessSpoilt
  OBVIOUS
<1>1. ~request.ok => cutShort
  <2>1. Marshal!Null("buffer").ok
    BY DEF Marshal!Null
  <2>2. ~cutShort /\ marshalAt = "count" => request = Marshal!Null("buffer")
    BY DEF MarshalInv
  <2>3. ~cutShort /\ marshalAt # "count" => Solid(request)
    BY DEF MarshalInv
  <2> QED BY <2>1, <2>2, <2>3 DEF Solid
<1> QED BY <1>1 DEF MarshalInv, Marshal!SentUnlessSpoilt

\* A request goes out as formatted unless a formatted piece did not fit the room left,
\* and only a request longer than the array has such a piece (kvs_cli.c:13-44,
\* kvs_str.c:156-164).
THEOREM RequestsGoOut == Marshal!Spec => []Marshal!SentUnlessSpoilt
BY MarshalStarts, MarshalInvInductive, MarshalInvImplies, PTL DEF Marshal!Spec

-----------------------------------------------------------------------------
(***************************************************************************)
(* The same of the components side by side: in each of its behaviours the  *)
(* others stay as they are, so that what each promises holds of all.       *)
(***************************************************************************)

\* With KVS_LOG_ATOMIC no line of the log is parted by another, and a line that write
\* took is the whole line (kvs_log.c:97-117).
THEOREM LinesOfTheLog == PartsSpec => []LinesStayWhole
<1>1. PartsInit => Log!Init
  BY DEF PartsInit
<1>2. [PartsNext]_partsVars => [Log!Next]_Log!vars
  BY DEF PartsNext, partsVars, logVars, Log!vars
<1>3. Log!Spec => []Log!LinesStayWhole
  BY PartsAssumption, LogLinesStayWhole
<1> QED
  BY <1>1, <1>2, <1>3, PTL DEF PartsSpec, Log!Spec, LinesStayWhole

\* Each line the client sends is answered by what the server says of it, and the first
\* part of an answer that a read leaves is not mistaken for more (kvs_cli.c:109-138).
THEOREM AnswersOfTheClient == PartsSpec => []ShownIsAnswer
<1>1. PartsInit => Talk!Init
  BY DEF PartsInit
<1>2. [PartsNext]_partsVars => [Talk!Next]_Talk!vars
  BY DEF PartsNext, partsVars, talkVars, Talk!vars
<1>3. Talk!Spec => []Talk!ShownIsAnswer
  BY PartsAssumption, AnswersAreShown
<1> QED
  BY <1>1, <1>2, <1>3, PTL DEF PartsSpec, Talk!Spec, ShownIsAnswer

\* The client and the server wait for each other only behind a line that has no answer
\* (kvs_cli.c:105-109).
THEOREM WaitsOfTheClient == PartsSpec => []BothWaitOnlyUnanswered
<1>1. PartsInit => Talk!Init
  BY DEF PartsInit
<1>2. [PartsNext]_partsVars => [Talk!Next]_Talk!vars
  BY DEF PartsNext, partsVars, talkVars, Talk!vars
<1>3. Talk!Spec => []Talk!BothWaitOnlyUnanswered
  BY PartsAssumption, WaitingIsForNothing
<1> QED
  BY <1>1, <1>2, <1>3, PTL DEF PartsSpec, Talk!Spec, BothWaitOnlyUnanswered

\* The words the client makes of a line are the line, whatever line and array
\* (kvs_cli.c:92-103, kvs_str.c:257-288).
THEOREM WordsOfTheClient == PartsSpec => []WordsAreTheLine
<1>1. PartsInit => Split!Init
  BY DEF PartsInit
<1>2. [PartsNext]_partsVars => [Split!Next]_Split!vars
  BY DEF PartsNext, partsVars, splitVars, Split!vars
<1>3. Split!Spec => []Split!WordsAreTheLine
  BY PartsAssumption, WordsMakeTheLine
<1> QED
  BY <1>1, <1>2, <1>3, PTL DEF PartsSpec, Split!Spec, WordsAreTheLine

\* The client's request goes out as formatted, or was longer than the array
\* (kvs_cli.c:13-44).
THEOREM RequestsOfTheClient == PartsSpec => []SentUnlessSpoilt
<1>1. PartsInit => Marshal!Init
  BY DEF PartsInit
<1>2. [PartsNext]_partsVars => [Marshal!Next]_(Marshal!vars)
  BY DEF PartsNext, partsVars, marshalVars, Marshal!vars
<1>3. Marshal!Spec => []Marshal!SentUnlessSpoilt
  BY RequestsGoOut
<1> QED
  BY <1>1, <1>2, <1>3, PTL DEF PartsSpec, Marshal!Spec, SentUnlessSpoilt
=============================================================================
