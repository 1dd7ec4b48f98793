SPECIFICATION MCSpec
CONSTANTS
    Values = {1, 2, 3, 4}
    minThreshold = 1
    maxThreshold = 3
    Timeouts = {0, 2}
    MaxTime = 8
    CPUCount = 2
    MaxDMIPs = 300
    PollPeriod = 2
    AverageWindows = {1, 4, 6}
    Domains = {"inst", "other"}
    Instance = "inst"
    MaxClock = 5
INVARIANTS
    RaisedAndFollowed
    AlertsWhenDue
    
CHECK_DEADLOCK FALSE
