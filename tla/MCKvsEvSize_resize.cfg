\* Three descriptors; 0 is refused, 26 holds two events and is beyond the fd_set.
SPECIFICATION Spec
CONSTANTS
  Sizes = {0, 1, 2, 3, 26}
  Fds = {0, 1, 24}
  SetBytes = 3
  EventBytes = 12
INVARIANTS RegisteredKeepEntries FaultsAreEarned
CHECK_DEADLOCK FALSE
