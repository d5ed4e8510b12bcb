\* A size that a round never exceeds.
SPECIFICATION FairSpec
CONSTANTS
  Size = 5
  FdMax = 3
  MaxConns = 2
  InitFds = {0}
  Interrupts = TRUE
  Apis = {"select", "epoll"}
PROPERTIES InputIsHandled WaitingIsAccepted
CHECK_DEADLOCK FALSE
