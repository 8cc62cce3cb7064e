SPECIFICATION FairSpec
CONSTANTS
  Sessions = {1}
  Images <- MCImages
  Garbage = Garbage
  IMAGE_BSIZE_MAX = 3
  TS_MOD = 1073741824
  U64_MOD = 1000000
  SizeSets <- Lossy
  FirstSeqs <- Rollover
  MaxBlocks = 2
  MaxLosses = 4
  MaxOvertaken = 0
  MaxCopies = 0
  MaxSignals = 1
CHECK_DEADLOCK FALSE
INVARIANTS
  LossExact
  FilesAreFramesSeen
  NoBlockFromTheFuture
  IntactAfterMarkerIsWhole
  BlocksLostAreMissingRows
PROPERTIES
  StopLeavesLoop
  StopSavesFrame
