CONSTANTS
    Threads = {t1}
    MaxConnects = 1
    MaxStops = 1
    MaxPending = 2
    Null = Null
SPECIFICATION FairSpec
INVARIANTS Inv NotAbandoned
PROPERTIES StopEnds
CHECK_DEADLOCK FALSE
