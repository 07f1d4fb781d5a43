---------------------------- MODULE ConsentGate ----------------------------
(***************************************************************************)
(* Learner consent, shared by both tenants (core/consent.py), and the      *)
(* decision of a learner rollup (b2b_learner_records/queries.py).  A       *)
(* recorded decision is a BOOLEAN, Null when the learner has not answered. *)
(***************************************************************************)
CONSTANTS Null, Absent

\* outcomes_shared_sql: a recorded decision wins, fail_open covers the rest.
OutcomesShared(decision, failOpen) == IF decision = Null THEN failOpen ELSE decision

\* CONSENT_STATUS_SQL: the decision before fail_open applies.
ConsentStatus(decision) ==
    CASE decision = Null -> "not_recorded"
      [] decision = TRUE -> "consented"
      [] OTHER -> "declined"

\* The outcomes of a row: CASE WHEN shared in the query, and once more in the
\* model's validator.
Gate(shared, outcome) == IF shared THEN outcome ELSE Null

\* _ROLLUP_DECISION over the decisions of the enrollments a rollup counts.
RollupDecision(decisions) ==
    IF FALSE \in decisions THEN FALSE
    ELSE IF Null \in decisions THEN Null ELSE TRUE

\* Mutant: mv_b2b_learner's decision alone.
JoinedDecisionRosterOnly(l, e) == IF l = Absent THEN e ELSE l

\* The decision under include_inactive, from the row of mv_b2b_learner (l) and
\* the rollup of mv_b2b_learner_enrollment (e), either of them Absent: the two
\* views refresh one after the other and the more conservative answer wins.
JoinedDecision(l, e) ==
    IF e = FALSE \/ l = FALSE THEN FALSE
    ELSE IF l = Absent THEN e
    ELSE IF e = Absent THEN l
    ELSE IF e = Null THEN Null ELSE l
=============================================================================
