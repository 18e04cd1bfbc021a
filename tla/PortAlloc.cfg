SPECIFICATION Spec
CONSTANTS
  User = {u1, u2}
  Req = {r1, r2, r3}
  Scan = 2
  Slots = 3
  NumWorkers = 2
  Null = null
  Faults = TRUE
SYMMETRY Symmetry
INVARIANTS
  SharedSlotsOverlap
  ViewerOnGrantedPort
PROPERTIES
  FullStartIsCurrent
  ReleasedAfterClose
CHECK_DEADLOCK FALSE
