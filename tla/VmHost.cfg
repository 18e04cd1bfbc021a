SPECIFICATION Spec
CONSTANTS
  u1 = u1
  u2 = u2
  User = {u1, u2}
  Proc = {p0, p1, p2, p3}
  Main = p0
  NumBase = 2
  BaseFiles = {0, 1}
  Port = {1, 2}
  Index = {1, 257}
  Workload <- Load
  IndexMod = 256
  MaxCmds = 4
  None = none
  Blank = blank
  Faults = TRUE
SYMMETRY Symmetry
INVARIANTS
  SomeoneAccepts
  AloneOnOwnPort
  BaseImageUsedOnce
PROPERTIES
  StrayForGood
  ImagesAsPromised
CHECK_DEADLOCK FALSE
