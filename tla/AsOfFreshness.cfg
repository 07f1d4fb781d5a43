SPECIFICATION Spec
CONSTANTS
    Requests = {r1, r2}
    Views = {v1, v2}
    MaxRefreshes = 2
    TTL = 2
    MaxQuery = 1
    None = None
SYMMETRY Symmetry
INVARIANTS
    RecordsNeverLookFresher
    OneQueryWhenCold
PROPERTY StalenessBounded
