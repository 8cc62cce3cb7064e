SPECIFICATION FairSpec
CONSTANTS
  a = a
  b = b
  Clients = {a, b}
  Casts <- MCCasts
  None = None
  MaxSigInts = 1
  MaxCrashes = 1
  MaxRequests = 3
CHECK_DEADLOCK FALSE
INVARIANTS
  OneSender
  SidesAgree
PROPERTIES
  StopSenderEnds
  OrphanEnds
  ClientProceeds
