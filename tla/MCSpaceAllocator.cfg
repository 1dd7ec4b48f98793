SPECIFICATION Spec
CONSTANTS
    limited = limited
    unlimited = unlimited
    Allocators = {limited, unlimited}
    PartLimit <- MCPartLimit
    Items <- MCItems
    Owner <- MCOwner
    Size <- MCSize
    TotalSize = 2
    MaxFailures = 1

    
    
PROPERTIES
    OldestRemovedFirst
CHECK_DEADLOCK FALSE
