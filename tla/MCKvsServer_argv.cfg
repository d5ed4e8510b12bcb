\* One request, arriving in parts.
SPECIFICATION Spec
CONSTANTS
  c1 = c1
  c2 = c2
  Client = {c1, c2}
  Word <- MCWord
  Nets <- OnlyParted
  Leftover = {"k"}
  OutputMax = 2
  MaxRequests = 1
  MaxBack = 1
INVARIANT RunAsSent
CHECK_DEADLOCK FALSE
