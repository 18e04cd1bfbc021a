SPECIFICATION FairSpec
CONSTANTS
  Session = {s1, s2}
  None = none
  Faults = TRUE
INVARIANTS
  SoundToNewest
  SilentWhenRobbed
  InputToNewest
  OrphanExplained
PROPERTIES
  EndsWithPage
CHECK_DEADLOCK FALSE
