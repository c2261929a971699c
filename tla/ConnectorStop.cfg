CONSTANTS
    Threads = {t1}
    MaxConnects = 1
    MaxStops = 1
    MaxPending = 1
    Null = Null
SPECIFICATION Spec
INVARIANT StopInAnyThread
CHECK_DEADLOCK FALSE
