CONSTANTS
    s1 = s1
    s2 = s2
    m = m
    a = a
    b = b
    NoOne = NoOne
    Sentinel <- MCSentinels
    Redis <- MCRedis
    FirstMaster = m
    Priority <- MCPriority
    Quorum = 2
    ParallelSyncs = 1
    MaxEpoch = 1
    Failing = {m}
    MaxDown = 1
    MaxFixes = 1
    MaxFaults = 1
SPECIFICATION Spec
SYMMETRY MCSymmetry
INVARIANTS
    OneLeaderPerEpoch
    OneConfigPerEpoch
    PromotedWhenRead
PROPERTY
    EpochsNeverGoBack
CHECK_DEADLOCK FALSE
