SPECIFICATION FairSpec
CONSTANTS
  Videos <- MCVideos
  FirstFrames <- MCFirstFrames
  StaleBlocks = {0, 5}
  InitialSeqs = {65534}
  MaxChunk = 40
  MAX_BLOCKS_PER_CHUNK = 2
  MAX_BLOCK_BYTES = 15
  TS_MOD = 1073741824
  FpsDivs = {5}
  MaxSignals = 1
CHECK_DEADLOCK FALSE
INVARIANTS
  ReadsItsFrame
  PacketsWellFormed
PROPERTIES
  FrameBegunEnds
  ImplementsSenderThread
