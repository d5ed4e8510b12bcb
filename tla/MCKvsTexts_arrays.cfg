\* Buffers, lines, requests, answers and log lines, with and without memory.
\* Two threads share a lock; titles leave room in the array, fill it, or do not fit.
SPECIFICATION FairPartsSpec
CONSTANTS
  ca = ca
  cb = cb
  t1 = t1
  t2 = t2
  Nobody = Nobody
  NUL = NUL
  Junk = Junk
  Dsize = 2
  Texts <- MCTexts
  Offsets <- MCOffsets
  MaxLen = 4
  AllocFails = TRUE
  Lines <- MCLines
  LineSize = 8
  Requests <- MCRequests
  ArraySize = 64
  Room = 8
  Kinds <- MCKinds
  MaxLines = 2
  Thread = {t1, t2}
  BufSize = 4
  Titles = {2, 4, 5}
  Lengths = {1, 2}
  MaxCalls = 1
  Atomic = TRUE
INVARIANTS InBlock WordsAreTheLine SentUnlessSpoilt ShownIsAnswer LinesStayWhole
PROPERTIES ImplementsText Prompted
CHECK_DEADLOCK FALSE
