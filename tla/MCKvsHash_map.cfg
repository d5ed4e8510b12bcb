\* Callers that never delete through a stale head: the table is a dictionary.
SPECIFICATION Spec
CONSTANTS
  Key = {0, 1, 3, 4, 5}
  Val = {va, vb}
  None = None
  Hash <- MCHash
  Sizes = {1, 2, 4}
  MinSize = 2
  Hints = {0}
  Step = 1
  AllocFails = TRUE
  AliasedOps = FALSE
INVARIANTS TypeOK MigratedStayEmpty
PROPERTIES NothingLost ImplementsMap
CHECK_DEADLOCK FALSE
