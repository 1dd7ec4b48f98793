SPECIFICATION FairSpec
CONSTANTS
    Allocators = {a, b}
    Threads = {t1, t2}
    Nobody = Nobody
    MaxVictims = 2
PROPERTY AllocationReturns
CHECK_DEADLOCK FALSE
