CONSTANTS
    l1 = l1  l2 = l2  e1 = e1  e2 = e2  a = a  Absent = Absent  None = None  Unsent = Unsent  Cold = Cold
    LearnerRows = {l1, l2}
    EnrollmentRows = {e1, e2}
    LearnerId <- IdOfLearner
    EnrollmentId <- IdOfEnrollment
    InContract = {e1, e2}
    Collections = {"enrollments", "roster"}
    Values = {a}
    Second = 2  Retention = 1  StartTTL = 1  MaxRequest = 1  PurgeAge = 4
    PageSize = 1  MaxNow <- SingleViewHorizon  MaxRefreshes = 2  MaxRebuilds = 1  MaxFailures <- NoFailure
SPECIFICATION Spec
PROPERTIES ImplementsReplica EventuallyConsistent
