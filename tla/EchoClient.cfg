CONSTANTS
  Messages = 3
  MaxLosses = 1
  MaxSurplus = 1
SPECIFICATION Spec
INVARIANTS Inv NothingDropped WokenMeansSame
PROPERTIES WokenEventually SessionEnds
CHECK_DEADLOCK FALSE
