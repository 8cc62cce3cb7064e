SPECIFICATION Spec
CONSTANTS
  QuantValue <- MCQuantValue
  Requests <- MCRequests
  Images <- MCImages
  WidthUnit = 2
  LengthMod = 14
  Unset = Unset
CHECK_DEADLOCK FALSE
INVARIANTS
  ShownIsQuantized
  WithinBounds
  PlainImageSurvives
