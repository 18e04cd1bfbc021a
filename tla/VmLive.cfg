SPECIFICATION FairSpec
CONSTANTS
  u1 = u1
  u2 = u2
  User = {u1, u2}
  Proc = {p0, p1, p2, p3}
  Main = p0
  NumBase = 2
  BaseFiles = {0}
  Port = {1, 2}
  Index = {1, 257}
  Workload <- LiveLoad
  IndexMod = 256
  MaxCmds = 3
  None = none
  Blank = blank
  Faults = FALSE
PROPERTIES
  EveryCommandAccepted
  AloneBoots
  CreateMakesImage
CHECK_DEADLOCK FALSE
