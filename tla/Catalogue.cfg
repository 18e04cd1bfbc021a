SPECIFICATION FairSpec
CONSTANTS
  User = {u1}
  Os = {disk}
  MaxReq = 3
  Old = 1
  Worker = {w1}
  IndexMod = 2
  Faults = TRUE
  None = none
INVARIANTS
  TypeOK
  CatalogueMatchesHost
  ShownIsCurrent
  DeletedStaysGone
PROPERTIES
  NoOverwrite
  EveryRequestAnswered
CHECK_DEADLOCK FALSE
