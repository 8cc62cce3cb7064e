SPECIFICATION Spec
CONSTANTS
  Sessions = {1}
  Images <- MCImages
  Garbage = Garbage
  IMAGE_BSIZE_MAX = 3
  TS_MOD = 1073741824
  U64_MOD = 1000000
  SizeSets <- Mixed
  FirstSeqs <- Rollover
  MaxBlocks = 2
  MaxLosses = 1
  MaxOvertaken = 2
  MaxCopies = 1
  MaxSignals = 0
CHECK_DEADLOCK FALSE
INVARIANTS
  NamesInOrder
  LossAccounting
  LossNotUnderestimated
