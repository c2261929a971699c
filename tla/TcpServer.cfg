SPECIFICATION Spec
CONSTANTS
  MaxThreads = 2
  MaxConns = 3
INVARIANTS
  Inv
  LiveStays
PROPERTIES
  ClosedReleased
  DestructorReports
  JoinReturns
CHECK_DEADLOCK FALSE
