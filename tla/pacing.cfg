SPECIFICATION PacingSpec
CONSTANTS
  NSEC = 10
  UNIT_NS = 3
  Files = 5
  StartTimes <- MCStartTimes
  Ticks <- MCTicks
  MaxTime = 45
CHECK_DEADLOCK FALSE
INVARIANTS
  NeverEarly
  PutOffToWholeSeconds
