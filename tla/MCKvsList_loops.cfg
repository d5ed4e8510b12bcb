\* Three nodes, and loops that go on behind the nodes they began with.
SPECIFICATION Spec
CONSTANTS
  n1 = n1
  n2 = n2
  n3 = n3
  Node = {n1, n2, n3}
  Anchor = Anchor
  MaxVisits = 4
  Null = Null
INVARIANTS TouchesTheLiving VisitsAll
PROPERTIES ImplementsSequence
CHECK_DEADLOCK FALSE
