\* Five values, two clients, two keys; memory may run out.
SPECIFICATION Spec
CONSTANTS
  Client = {c1, c2}
  Key = {k1, k2}
  Obj = {o1, o2, o3, o4, o5}
  None = None
  MemoryFails = TRUE
SYMMETRY Symmetry
INVARIANTS OneOwner NeverMisused AnsweredIsStored ReplacedIsFreed
CHECK_DEADLOCK FALSE
