------------------------ MODULE MCLearnerRecordsSync ------------------------
(***************************************************************************)
(* Small instances: two learners on the roster, and one enrollment of the  *)
(* first that the warehouse may re-key.                                    *)
(***************************************************************************)
EXTENDS LearnerRecordsSync

CONSTANTS l1, l2, e1, e2

IdOfLearner == [p \in Rows |-> IF p = l2 THEN 2 ELSE 1]
IdOfEnrollment == [p \in EnrollmentRows |-> 1]

\* Horizons: long enough for a purge, for a stale start, for two views whose
\* refreshes fall in different seconds.
SingleViewHorizon == [c \in Collections |-> IF c = "roster" THEN 1 ELSE 5]
PagingHorizon == [c \in Collections |-> 2]
RollupHorizon == [c \in Collections |-> IF c = "roster" THEN 6 ELSE 2]
RosterMayFail == [c \in Collections |-> IF c = "roster" THEN 1 ELSE 0]
NoFailure == [c \in Collections |-> 0]
=============================================================================
