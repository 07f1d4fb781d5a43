SPECIFICATION FairSpec
CONSTANTS
    Requests = {r1, r2, r3}
    MaxPools = 4
    MaxSize = 2
    MinSize = 1
    NumTenants = 2
INVARIANTS
    TypeOK
    NoRefusalBeforeStop
    NoPoolLeaked
    ClosedPoolsUnused
    AtMostTwoPoolsConnected
    StopLeavesAtMostOneUndrained
PROPERTIES
    DrainCompletes
    ShutdownCompletes
