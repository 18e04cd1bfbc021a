SPECIFICATION FairSpec
CONSTANTS
  FinalPos = 3
  FinalCnt = 2
  MaxFiles = 4
  MaxSessions = 2
INVARIANTS
  FinishedFilesInOrder
  OldSoundFirstLap
PROPERTIES
  EveryFileTried
CHECK_DEADLOCK FALSE
