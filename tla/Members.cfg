SPECIFICATION Spec
CONSTANTS
  id1 = id1
  one1 = one1
  pw1 = pw1
  r1 = r1
  r2 = r2
  r3 = r3
  None = None
  Email <- MCEmail
  Ones <- MCOnes
  Password <- MCPassword
  Req <- Three
  Faults = TRUE
SYMMETRY ThreeAlike
INVARIANTS
  OwnIndex
  CounterThere
  LoginAfterJoin
  NobodyForgotten
CHECK_DEADLOCK FALSE
