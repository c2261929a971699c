CONSTANTS
    Threads = {t1}
    Messages = {m1, m2}
    WriteComplete = FALSE
    OwnerLeaves = FALSE
    MaxInbound = 0
SPECIFICATION Spec
INVARIANT NoUseAfterFree
CHECK_DEADLOCK FALSE
