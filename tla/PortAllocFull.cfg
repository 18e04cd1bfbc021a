SPECIFICATION Spec
CONSTANTS
  User = {u1, u2}
  Req = {r1, r2, r3}
  Scan = 2
  Slots = 3
  NumWorkers = 2
  Null = null
  Faults = FALSE
SYMMETRY Symmetry
PROPERTIES
  FullMeansInUse
CHECK_DEADLOCK FALSE
