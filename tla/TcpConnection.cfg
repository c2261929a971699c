CONSTANTS
    Threads = {t1}
    Messages = {m1, m2}
    WriteComplete = TRUE
    OwnerLeaves = TRUE
    MaxInbound = 1
SPECIFICATION FairSpec
INVARIANTS StreamIntact FinAfterBuffer DownOnce ClosedNotPolled
PROPERTIES ShutdownCompletes PeerCloseNoticed ReleasedAfterClose
CHECK_DEADLOCK FALSE
