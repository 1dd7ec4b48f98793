SPECIFICATION FairSpec
CONSTANTS
    Instances = {i1, i2}
    Node = Node
    None = None
    Configs <- MCConfigs
    Known = {"cpu"}
    ChannelSize = 1
    MaxConfigs = 2
INVARIANTS
    ProcessorsOwned
    RulesApplied
PROPERTIES
    CallReturns
CHECK_DEADLOCK FALSE
