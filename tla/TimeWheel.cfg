CONSTANTS
    Tasks = {a, b}
    None = none
    SlotLen = 3
    Timeouts <- MCTimeouts
    Garbage <- MCGarbage
    MaxInt = 3
    MaxLag = 2
    MaxSetbacks = 1
SPECIFICATION FairSpec
PROPERTIES FiresOnTime EveryTaskExecutes
