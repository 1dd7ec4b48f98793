SPECIFICATION FairSpec
CONSTANTS
    IDs = {i1, i2, i3}
    NoID = NoID
    MaxActions = 4
    maxConcurrentActions = 2
    Waiters = {w1}
INVARIANTS
    RunningWithinLimits
    SameIDInOrder
    NoIdleSlot
    WaitMeansExecuted
PROPERTIES
    ImplementsExecutor
    
