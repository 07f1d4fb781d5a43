SPECIFICATION GuardSpec
CONSTANTS
    Contracts = {c1, c2}
    Months = {m1, m2}
    RowCounts = {0, 1, 2, 4}
    ScanLimits = {1, 3}
    Floor = 2
    NULL = NULL
SYMMETRY Symmetry
INVARIANTS
    TotalsNotRecoverable
    CohortsNotRecoverable
    GuardOnlyWhereNeeded
