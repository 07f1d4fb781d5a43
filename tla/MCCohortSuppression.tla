------------------------ MODULE MCCohortSuppression ------------------------
(* CohortSuppression on every declaration over three secondary cohorts,    *)
(* cyclic and ill-formed ones included.                                    *)
EXTENDS CohortSuppression, FiniteSets, TLC
CONSTANTS Stray     \* a name that is no cohort of the row

\* Every cohort inside one of Cohorts, or uncontained (NULL here).  Each
\* secondary has a derived column, and one column is derived from them all;
\* a derived column is named by a cohort.
Place(f) ==
    [contained_in |-> [s \in {x \in Secondary : f[x] # NULL} |-> f[s]],
     uncontained  |-> {s \in Secondary : f[s] = NULL},
     derived      |-> [c \in Cohorts |-> IF c = Primary THEN Secondary ELSE {c}]]
WellFormed == {Place(f) : f \in [Secondary -> Cohorts \cup {NULL}]}

\* One slip each: a stray name, an unclassified or a doubly classified cohort.
IllFormed ==
    UNION {{[p EXCEPT !.uncontained = @ \cup {Stray}],
            [p EXCEPT !.uncontained = {}],
            [p EXCEPT !.uncontained = @ \cup Secondary],
            [p EXCEPT !.derived = @ @@ (Stray :> {Stray})],
            [p EXCEPT !.contained_in = @ @@ (Stray :> Primary)],
            [p EXCEPT !.contained_in = [s \in DOMAIN @ |-> Stray]]} : p \in WellFormed}

MCPolicies == WellFormed \cup IllFormed
=============================================================================
