SPECIFICATION FairSpec
CONSTANTS
    NewSubs = {node, cert}
    LateSubs = {}
    CertSub = cert
    MaxBreaks = 2
    MaxFailures = 0
    EarlyBreaks = TRUE
    Nobody = Nobody
    Closer = Closer
    Caller = Caller
PROPERTY LostSubscriptionRestored
CHECK_DEADLOCK FALSE
