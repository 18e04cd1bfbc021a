SPECIFICATION FairStream
CONSTANTS
  FinalPos = 3
  FinalCnt = 2
  W = 6
  H = 2
  Rect <- Areas
  MaxDraw = 1
INVARIANTS
  WritesInFile
  WholeAreasShown
PROPERTIES
  PictureCatchesUp
CHECK_DEADLOCK FALSE
