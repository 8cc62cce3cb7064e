SPECIFICATION FairSpec
CONSTANTS
  Videos <- MCVideos
  InitialSeqs <- MCInitialSeqs
  MaxChunk = 30
  MAX_BLOCKS_PER_CHUNK = 3
  TS_MOD = 1073741824
  MaxSignals = 2
CHECK_DEADLOCK FALSE
INVARIANTS
  PacketsWellFormed
  StopWithinOnePacket
  UndisturbedIsComplete
PROPERTIES
  Terminates
  ImplementsPacketStream
