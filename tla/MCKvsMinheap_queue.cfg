SPECIFICATION Spec
CONSTANTS
  MinSize = 8
  Prio <- MCPrio
  Junk = 0
  AllocFails = TRUE
PROPERTIES LeastGoesFirst ImplementsQueue
CHECK_DEADLOCK FALSE
