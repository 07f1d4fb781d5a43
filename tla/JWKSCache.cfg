SPECIFICATION FairSpec
CONSTANTS
    Tasks = {t1, t2, t3}
    Kids = {k1, k2}
    TTL = 4
    KidCooldown = 2
    RetryCooldown = 1
    NoTask = NoTask
INVARIANTS
    OneFetchPerBurst
    OneTimeoutPerCall
    RefetchesSpaced
PROPERTIES
    RefusalHasEvidence
    StaleOnlyAfterFailure
    EveryCallReturns
