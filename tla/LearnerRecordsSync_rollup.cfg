CONSTANTS
    l1 = l1  l2 = l2  e1 = e1  e2 = e2  a = a  Absent = Absent  None = None  Unsent = Unsent  Cold = Cold
    LearnerRows = {l1}
    EnrollmentRows = {e1, e2}
    LearnerId <- IdOfLearner
    EnrollmentId <- IdOfEnrollment
    InContract = {e1, e2}
    Collections = {"roster", "contract", "all"}
    Values = {a}
    Second = 2  Retention = 4  StartTTL = 1  MaxRequest = 1  PurgeAge = 7
    PageSize = 1  MaxNow <- RollupHorizon  MaxRefreshes = 2  MaxRebuilds = 1  MaxFailures <- RosterMayFail
SPECIFICATION Spec
INVARIANT NothingLost
PROPERTY StaleStartBounded
