SPECIFICATION FairSpec
CONSTANTS
    Primary = primary
    Secondary = {a, b, c}
    Policies <- MCPolicies
    Floor = 2
    MaxCount = 4
    NULL = NULL
    Stray = stray
INVARIANTS
    ValidationSound
    PublishedRowSafe
    DerivedFollowCohorts
    SettlesInOnePass
    NothingWithheldWithoutCause
PROPERTY ValidationEnds
