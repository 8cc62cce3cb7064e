SPECIFICATION Spec
CONSTANTS
  Sessions = {1}
  Images <- MCImages
  Garbage = Garbage
  IMAGE_BSIZE_MAX = 3
  TS_MOD = 1073741824
  U64_MOD = 1000000
  FIFO_SIZE = 2
  EmptyBlocks <- NoBlocks
  LargeBlocks <- NoBlocks
  THREAD_N = 2
  SizeSets <- Short
  FirstSeqs <- NoRollover
  MaxBlocks = 2
  MaxLosses = 1
  MaxOvertaken = 0
  MaxCopies = 0
  MaxSignals = 0
CHECK_DEADLOCK FALSE
PROPERTIES
  JoinsLaunchedOnly
