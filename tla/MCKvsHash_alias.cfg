\* The code as it is, deletions and frees through stale heads included; six keys,
\* two buckets per operation.
SPECIFICATION FairSpec
CONSTANTS
  Key = {0, 1, 2, 3, 5, 7}
  Val = {va}
  None = None
  Hash <- MCHash
  Sizes = {2, 4, 8}
  MinSize = 2
  Hints = {0, 3}
  Step = 2
  AllocFails = FALSE
  AliasedOps = TRUE
INVARIANTS UseIsExact FaultOnlyAfterAliasing LoadBounded
PROPERTIES ExpansionCompletes
CHECK_DEADLOCK FALSE
