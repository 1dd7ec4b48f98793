SPECIFICATION FairSpec
CONSTANTS
    MaxEntries = 3
    MaxCrashes = 2
    MaxErrors = 1
INVARIANTS
    NothingPassedOver
PROPERTIES
    EntryReported
CHECK_DEADLOCK FALSE
