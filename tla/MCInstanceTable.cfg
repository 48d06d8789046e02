CONSTANTS
  i1 = i1
  i2 = i2
  w1 = w1
  p1 = p1
  a1 = a1
  a2 = a2
  Isolates = {i1, i2}
  Workers = {w1}
  Ports = {p1}
  Heap = {a1, a2}
  Static = Static
  None = None
  MaxId = 3
  Ways = 2
SPECIFICATION Spec
INVARIANTS
  LookupFindsOwn
  SubscribersExact
  OwnEventsUnlessCrossed
SYMMETRY Symmetric
CHECK_DEADLOCK FALSE
