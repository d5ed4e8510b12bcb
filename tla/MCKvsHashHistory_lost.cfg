\* The documented meaning of kvs_hash_del's -1, in the code as it is.
SPECIFICATION HSpec
CONSTANTS
  Key = {0, 1, 3, 4, 5}
  Val = {va}
  None = None
  Hash <- MCHash
  Sizes = {1, 2, 4, 8}
  MinSize = 2
  Hints = {0}
  Step = 1
  AllocFails = FALSE
  AliasedOps = TRUE
PROPERTIES DelFailsOnlyForAbsentKeys
CHECK_DEADLOCK FALSE
