-------------------------- MODULE CrossGrainGuard --------------------------
(***************************************************************************)
(* The cross-grain guard of /engagement-trend (organizations.py, query.py, *)
(* anonymization.py).  The same learners are published per contract and    *)
(* per organization, and an organization's month is the sum of its         *)
(* contracts' months, so the organization endpoint first scans the         *)
(* contract rows, runs them through the floor exactly as their own         *)
(* endpoint would, and blanks what they withhold.                          *)
(*                                                                         *)
(* The trend's policy is cut down to one column of each sort: the primary, *)
(* a cohort with no derived column (active), and a cohort inside it        *)
(* (watchers) with the additive total derived from it.  Both grains share  *)
(* the policy, as ContractMonthlyEngagementTrend inherits it.              *)
(***************************************************************************)
EXTENDS Disclosure, FiniteSets

CONSTANTS
    Contracts,      \* the organization's contracts, one month row each at most
    Months,         \* the guard's key
    RowCounts,      \* counts a row may hold
    ScanLimits      \* values of _GRAIN_SCAN_LIMIT

ASSUME GrainAssumption ==
    /\ RowCounts \subseteq Nat /\ ScanLimits \subseteq Nat \ {0}
    /\ Floor \in Nat \ {0}

VARIABLES
    month,      \* the month of each contract's row
    finer,      \* contracts with a row in the finer view
    rows,       \* the finer view's rows
    coarse,     \* the organization's row, per month
    limit,      \* _GRAIN_SCAN_LIMIT
    stage,      \* start, scan, respond or failed
    todo,       \* scanned rows the guard has not been through
    hidden,     \* hidden_additive_columns() so far: columns per month
    response    \* the coarse response, per month: the columns published

guardVars == <<month, finer, rows, coarse, limit, stage, todo, hidden, response>>
dataVars == <<month, finer, rows, coarse, limit>>

TrendCohorts == {"contributing", "active", "watchers"}
Additive  == {"total"}
Bare      == {"active"}     \* secondaries no derived column is computed over
Columns   == TrendCohorts \cup Additive
Values    == RowCounts \cup {NULL}
Row == [contributing : Values, active : Values, watchers : Values, total : {0, NULL}]

\* A view sums what it has: NULL counts for nothing.
Known(v) == IF v = NULL THEN 0 ELSE v
InMonth(m) == {c \in finer : month[c] = m}
Count(m, col) ==
    LET S == InMonth(m)
        sum[T \in SUBSET S] == IF T = {} THEN 0 ELSE
            LET c == CHOOSE x \in T : TRUE IN Known(rows[c][col]) + sum[T \ {c}]
    IN sum[S]

\* The organization's months: contracts that share no learner, so that the
\* cohorts are exact sums, the case guarded_cohorts is there for.
CoarseRow(m) ==
    [contributing |-> Count(m, "contributing"), active |-> Count(m, "active"),
     watchers |-> Count(m, "watchers"), total |-> 0]

GuardInit ==
    /\ finer \in SUBSET Contracts
    /\ month \in [Contracts -> Months]
    /\ rows \in [finer -> Row]
    /\ coarse = [m \in Months |-> CoarseRow(m)]
    /\ limit \in ScanLimits
    /\ stage = "start" /\ todo = {}
    /\ hidden = [m \in Months |-> {}]
    /\ response = [m \in Months |-> {}]

-----------------------------------------------------------------------------
\* _suppressed_cohorts() for this policy: watchers is inside active.
SuppressedCohorts(r) ==
    LET small == {c \in TrendCohorts \ {"contributing"} : IsDisclosive(r[c])}
    IN IF /\ small = {}
          /\ ComplementIsDisclosive(r.watchers, r.active)
       THEN {"watchers"} ELSE small

\* suppress_small_cohorts() on one row: the columns left with a value, none
\* when the row is dropped.
Visible(r) ==
    IF BelowFloor(r.contributing) THEN {}
    ELSE {c \in Columns : r[c] # NULL} \ (SuppressedCohorts(r) \cup
            (IF "watchers" \in SuppressedCohorts(r) THEN {"total"} ELSE {}))

\* Mutants: the two weaker tests -- only dropped rows count; a withheld
\* cohort without a derived total goes unreported.
HiddenIfDropped(r) == IF BelowFloor(r.contributing) THEN Additive ELSE {}
HiddenTotalsOnly(r) ==
    IF BelowFloor(r.contributing) THEN Additive ELSE Additive \ Visible(r)

\* One row's part in hidden_additive_columns().
HiddenBy(r) ==
    IF BelowFloor(r.contributing) THEN Additive
    ELSE (Additive \cup Bare) \ Visible(r)

\* fetch_grain_scan(): the database applies the limit, and a scan that fills
\* it cannot be told from one that was cut short, so the request fails.
Scan ==
    /\ stage = "start"
    /\ \E S \in SUBSET finer :
          /\ Cardinality(S) = limit \/ (Cardinality(S) < limit /\ S = finer)
          /\ \/ Cardinality(S) >= limit /\ stage' = "failed" /\ todo' = {}
             \/ Cardinality(S) < limit /\ stage' = "scan" /\ todo' = S
    /\ UNCHANGED <<dataVars, hidden, response>>

\* One row of the loop in hidden_additive_columns().
GuardRow(c) ==
    /\ stage = "scan" /\ c \in todo
    /\ hidden' = [hidden EXCEPT ![month[c]] = @ \cup HiddenBy(rows[c])]
    /\ todo' = todo \ {c}
    /\ UNCHANGED <<dataVars, stage, response>>

\* Mutant: the cohorts are blanked for every key.
BlankAlways(m, cols) == cols \ (hidden[m] \cup TrendCohorts)

\* suppress_cross_grain_additives() on the columns of one coarse row.
Blank(m, cols) == IF hidden[m] = {} THEN cols ELSE cols \ (hidden[m] \cup TrendCohorts)

\* fetch_and_suppress() with the guard's findings.
Respond ==
    /\ stage = "scan" /\ todo = {}
    /\ stage' = "respond"
    /\ response' = [m \in Months |-> Blank(m, Visible(coarse[m]))]
    /\ UNCHANGED <<dataVars, todo, hidden>>

Done == stage \in {"respond", "failed"} /\ UNCHANGED guardVars

GuardNext == Scan \/ (\E c \in Contracts : GuardRow(c)) \/ Respond \/ Done
GuardSpec == GuardInit /\ [][GuardNext]_guardVars

-----------------------------------------------------------------------------
(* Properties                                                              *)

GuardTypeOK ==
    /\ finer \in SUBSET Contracts /\ month \in [Contracts -> Months]
    /\ rows \in [finer -> Row]
    /\ limit \in ScanLimits
    /\ stage \in {"start", "scan", "respond", "failed"}
    /\ todo \in SUBSET finer
    /\ hidden \in [Months -> SUBSET Columns] /\ response \in [Months -> SUBSET Columns]

\* No total can be had by subtraction: an organization's additive column is
\* published only when every contract row of the month publishes its own.
TotalsNotRecoverable ==
    \A m \in Months : \A col \in response[m] \cap Additive :
        \A c \in InMonth(m) : col \in Visible(rows[c])

\* Nor a cohort: with disjoint contracts the counts add up too, so a month
\* that shows any of them has no contract row with anything withheld.
CohortsNotRecoverable ==
    \A m \in Months : response[m] \cap TrendCohorts # {} =>
        \A c \in InMonth(m) : TrendCohorts \subseteq Visible(rows[c])

\* The guard costs nothing where nothing is withheld: such a month shows
\* what the floor alone would.
GuardOnlyWhereNeeded ==
    stage = "respond" =>
        \A m \in Months :
            (\A c \in InMonth(m) : Visible(rows[c]) = Columns)
            => response[m] = Visible(coarse[m])
=============================================================================
