\* Two clients in order, and one that is not, with two requests each.
SPECIFICATION FairSpec
CONSTANTS
  c1 = c1
  c2 = c2
  Client = {c1, c2}
  Word <- MCWord
  Nets <- SharedAndOdd
  Leftover = {"k", "get"}
  OutputMax = 2
  MaxRequests = 2
  MaxBack = 2
INVARIANTS AnswerIsScheduled StaysUp UncutRunAsSent AnswersAreEarned
PROPERTIES ImplementsKv StuckForGood Answered
CHECK_DEADLOCK FALSE
