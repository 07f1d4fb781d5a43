SPECIFICATION FairSpec
CONSTANTS
    Leases = {120, 240}
    MinInterval = 4
    Retry = 4
    MaxFetch = 4
    MaxCreate = 1
    MaxDrain = 3
    MaxFailures = 1
INVARIANTS
    PublishedLeaseAlive
PROPERTY RefreshRecurs
