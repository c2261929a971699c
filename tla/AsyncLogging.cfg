SPECIFICATION FairSpec
CONSTANTS
    a = a
    b = b
    c = c
    d = d
    long = long
    Lines <- MCLines
    Size <- MCSize
    Capacity = 3
    MaxBuffers = 2
    Garbage = {0, 1}
    Null = Null
    Notice = Notice
INVARIANTS AssertionsHold LinesInOrder
PROPERTIES LinesAreFlushed StopReturns
CHECK_DEADLOCK FALSE
