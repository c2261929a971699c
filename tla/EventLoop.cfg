CONSTANTS
    Threads = {t1, t2}
    LoopThread = loop
    Functors = {f1, f2}
    None = none
    MaxPending = 3
SPECIFICATION FairSpec
INVARIANTS NoLostWakeup
PROPERTIES RunsAsTaskQueue RunsAllTasks QuitStops KeepsPolling
CHECK_DEADLOCK FALSE
