SPECIFICATION FairSpec
CONSTANTS
  Sessions = {1}
  Images <- MCImages
  Garbage = Garbage
  IMAGE_BSIZE_MAX = 3
  TS_MOD = 1073741824
  U64_MOD = 1000000
  SizeSets <- OneFile
  FirstSeqs <- NoRollover
  MaxBlocks = 2
  MaxLosses = 0
  MaxOvertaken = 0
  MaxCopies = 0
  MaxSignals = 0
CHECK_DEADLOCK FALSE
PROPERTIES
  ImplementsVideoLink
