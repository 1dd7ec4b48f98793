SPECIFICATION MCSpec
CONSTANTS
    Contents <- MCContents
    Archives <- MCArchives
    Names = {"./", "x", "y"}
    NoFile = NoFile
    MaxTries = {0, 1, 3}
    MaxDelays = {0, 3}
    retryDelay = 1
    TryBound = 5
    Points <- MCPoints
    Dirs <- MCDirs
    Sources = {"s1", "s2"}
    WithDots = {"x.."}
    MaxMounts = 2
    QuotaUsers = {"u1", "u2"}
    Limits = {0, 1, 2}
    MaxBytes = 3
    MaxVersion = 3
    MaxCrashes = 1
    Partitions = 2
    Sign64 = 4
    Sign32 = 2
    IDs = {"i1", "i2"}
    Payloads = {"p1", "p2"}
    Fields = {0, 7, 61}
    MaxList = 2
    MaxHops = 2
    Null = Null
INVARIANTS
    DownloadIsTrusted
    
    FileSystemLimits
    AnyReleaseStarts
    TestPartitionsClean
    

    
CHECK_DEADLOCK FALSE
