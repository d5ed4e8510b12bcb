----------------------------- MODULE KvsTexts ------------------------------
(***************************************************************************)
(* The places where text is put into an array of a fixed size, side by     *)
(* side: the buffers of kvs_str.c (KvsBuf), the client's line and words    *)
(* (KvsSplit), its requests (KvsMarshal), the answers it prints (KvsCli)   *)
(* and the lines of the log (KvsLog).  They share no state: `part` says    *)
(* which of them a behaviour is about, and the others stay as they began.  *)
(***************************************************************************)
EXTENDS KvsBuf

CONSTANTS Lines, LineSize,          \* of KvsSplit
          Requests, ArraySize,      \* of KvsMarshal
          Room, Kinds, MaxLines,    \* of KvsCli
          Thread, BufSize, Titles, Lengths, MaxCalls, Atomic, Nobody  \* of KvsLog

VARIABLES part,
          line, typed, lineAt, words, capacity, elements, splitAt, short, splitStatus,
          argv, wordAt, marshalAt, request, starved, cutShort, written,
          asked, up, back, srv, talkAt, val, shown, late, talkStatus,
          logAt, title, text, size, place, right, done, partly, calls, lock, log, logStatus

splitVars   == <<line, typed, lineAt, words, capacity, elements, splitAt, short, splitStatus>>
marshalVars == <<argv, wordAt, marshalAt, request, starved, cutShort, written>>
talkVars    == <<asked, up, back, srv, talkAt, val, shown, late, talkStatus>>
logVars     == <<logAt, title, text, size, place, right, done, partly, calls, lock, log, logStatus>>

Split == INSTANCE KvsSplit WITH p <- lineAt, argv <- words, alloc <- capacity, room <- elements,
                                pc <- splitAt, status <- splitStatus

\* Bytes by their code; 256 is none.
Marshal == INSTANCE KvsMarshal WITH NUL <- 0, Junk <- 256, Dsize <- ArraySize, k <- wordAt,
                                    pc <- marshalAt, b <- request, spoilt <- cutShort,
                                    out <- written

Talk == INSTANCE KvsCli WITH pc <- talkAt, status <- talkStatus

Log == INSTANCE KvsLog WITH Texts <- Lengths, pc <- logAt, short <- partly, out <- log,
                            status <- logStatus

ASSUME PartsAssumption == /\ Split!SplitAssumption /\ Marshal!MarshalAssumption
                          /\ Talk!CliAssumption /\ Log!LogAssumption

PartsInit == /\ part \in {"buffer", "split", "marshal", "talk", "log"}
             /\ Init /\ Split!Init /\ Marshal!Init /\ Talk!Init /\ Log!Init
             /\ part # "buffer"  => b = Null("buf")
             /\ part # "split"   => line = [j \in 0..LineSize - 1 |-> "nul"]
             /\ part # "marshal" => argv = CHOOSE ws \in Requests : TRUE

PartsNext == /\ UNCHANGED part
             /\ \/ /\ part = "buffer"  /\ Next
                   /\ UNCHANGED <<splitVars, marshalVars, talkVars, logVars>>
                \/ /\ part = "split"   /\ Split!Next
                   /\ UNCHANGED <<vars, marshalVars, talkVars, logVars>>
                \/ /\ part = "marshal" /\ Marshal!Next
                   /\ UNCHANGED <<vars, splitVars, talkVars, logVars>>
                \/ /\ part = "talk"    /\ Talk!Next
                   /\ UNCHANGED <<vars, splitVars, marshalVars, logVars>>
                \/ /\ part = "log"     /\ Log!Next
                   /\ UNCHANGED <<vars, splitVars, marshalVars, talkVars>>

partsVars == <<part, vars, splitVars, marshalVars, talkVars, logVars>>
PartsSpec == PartsInit /\ [][PartsNext]_partsVars

\* The fairness of KvsCli.
FairPartsSpec == PartsSpec /\ Talk!Fairness

\* What the components promise.
WordsAreTheLine  == Split!WordsAreTheLine
SentUnlessSpoilt == Marshal!SentUnlessSpoilt
ShownIsAnswer    == Talk!ShownIsAnswer
Prompted         == Talk!Prompted
BothWaitOnlyUnanswered == Talk!BothWaitOnlyUnanswered
LinesStayWhole   == Log!LinesStayWhole
=============================================================================
