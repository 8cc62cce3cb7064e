SPECIFICATION FairSpec
CONSTANTS
  Commands <- MCCommands
  Frames = 5
  MaxAgain = 1
  InitialFiles = {0, 1, 3}
CHECK_DEADLOCK FALSE
INVARIANTS
  ShowsTheDirectory
PROPERTIES
  ClearsThePast
  LastFrameShown
  StopEnds
