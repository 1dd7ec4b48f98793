SPECIFICATION MCSpec
CONSTANTS
    Types = {T1, T2}
    MaxSends = 3
    Calls = {c1, c2, c3}
    MaxConns = 3
    Owners = {o1, o2}
    MaxStarts = 3
INVARIANTS
    WaitingCanBeAnswered
    UndisturbedGetsOwnResponse
    ConnectionConsistent
    RestartFindsAddressFree
PROPERTIES
    CallsReturn
CHECK_DEADLOCK FALSE
