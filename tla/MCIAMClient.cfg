SPECIFICATION FairSpec
CONSTANTS
    NewSubs = {cert}
    LateSubs = {late}
    CertSub = cert
    MaxBreaks = 1
    MaxFailures = 2
    EarlyBreaks = FALSE
    Nobody = Nobody
    Closer = Closer
    Caller = Caller

    
PROPERTIES
    LostSubscriptionRestored
    CloseReturnsUnlessRaced
CHECK_DEADLOCK FALSE
