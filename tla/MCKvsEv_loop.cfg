\* Two descriptors for clients below the size and one above it; an array that may
\* hold anything.
SPECIFICATION Spec
CONSTANTS
  Size = 3
  FdMax = 4
  MaxConns = 3
  InitFds <- ZeroOrWild
  Interrupts = TRUE
  Apis = {"select", "epoll"}
INVARIANTS CacheMatchesKernel OwnClient NeverAstray ServedUnlessTooHigh FaultNeedsCrowd
CHECK_DEADLOCK FALSE
