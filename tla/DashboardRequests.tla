------------------------- MODULE DashboardRequests -------------------------
(***************************************************************************)
(* The read endpoints of the dashboard tenant: the learner directory       *)
(* (learner-progress, learners, course-runs), the needs-attention tile,    *)
(* and the panels over a view (organizations, contracts, admin), each a    *)
(* page statement and a count statement in two round trips, while the      *)
(* warehouse refreshes and the UTC date changes; and a client that walks   *)
(* the pages by the published rule, comparing total_count with len(data)   *)
(* plus the offset.  The rollup decision of the learner-records tenant is  *)
(* here too, for its two views refresh apart.                              *)
(*                                                                         *)
(* Rows, learners, contracts and course runs are numbers, in the order of  *)
(* the ORDER BY; a row's outcomes are its completion_status.  as_of is     *)
(* AsOfFreshness's, the columns of a panel row are CohortSuppression's, a   *)
(* contract's course runs are those of its rows.                           *)
(***************************************************************************)
EXTENDS Integers, FiniteSets, ConsentGate

CONSTANTS
    Rows,         \* keys of mv_b2b_learner_enrollment
    Learner,      \* user_global_id of each row, Null without one
    Contract, Run,
    Contents,     \* what each row can hold: [status, since, active]
    Decisions,    \* the answers of each learner for each contract
    PanelRows, PanelContents, \* a panel's view: [cohort, since, health]
    Requests,     \* [endpoint, filter, limit] considered
    Offsets,      \* OFFSETs that WithheldInvisible compares answers at
    Floor,        \* anonymization_floor
    LastDay, MaxRefreshes \* bounds

\* _is_disclosive, _complement_is_disclosive and the row gate
INSTANCE Disclosure WITH NULL <- Null

Statuses == {"not_started", "in_progress", "passed", "certified"}
Learners == {Learner[p] : p \in Rows} \ {Null}
Contracts == {Contract[p] : p \in Rows}
Panels == {"panel", "admin"}
Dated == {"learner-progress", "learners", "needs-attention"}

Healths == {"inactive", "high_utilization", "at_risk", "healthy", "early_stage"}

Answer == BOOLEAN \cup {Null}
Row == [status : Statuses \cup {Absent}, since : Nat \cup {Null}, active : BOOLEAN]
PanelRow == [cohort : Nat, since : Nat \cup {Null}, health : Healths]
Filters ==
    [contract : Nat \cup {Null}, search : SUBSET Nat, runs : SUBSET Nat,
     statuses : SUBSET (Statuses \cup {"unknown"}), needs : BOOLEAN \cup {Null}, inactive : BOOLEAN]

\* Keys and answers are what the views hold; include_inactive is a parameter
\* of learner-progress alone.
ASSUME RequestsAssumption ==
    /\ Null # Absent /\ Null \notin Nat /\ Null \notin BOOLEAN /\ Null \notin Statuses
    /\ Absent \notin BOOLEAN /\ Absent \notin Statuses
    /\ Rows \subseteq Nat /\ IsFiniteSet(Rows) /\ Floor \in Nat
    /\ PanelRows \subseteq Nat /\ IsFiniteSet(PanelRows)
    /\ \A p \in Rows : Learner[p] \in Nat \cup {Null} /\ Contract[p] \in Nat /\ Run[p] \in Nat
    /\ \A p \in Rows : Contents[p] # {} /\ \A c \in Contents[p] : c \in Row
    /\ \A p \in Rows : Learner[p] # Null => <<Learner[p], Contract[p]>> \in DOMAIN Decisions
    /\ \A k \in DOMAIN Decisions : Decisions[k] \subseteq Answer
    /\ PanelContents # {} /\ \A c \in PanelContents : c \in PanelRow
    /\ \A r \in Requests :
          /\ r \in [endpoint : Dated \cup Panels \cup {"course-runs"}, filter : Filters,
                    limit : Nat \ {0}]
          /\ r.endpoint = "learners" => ~r.filter.inactive
    /\ Offsets \subseteq Nat /\ LastDay \in Nat /\ MaxRefreshes \in Nat

VARIABLES
    failOpen,  \* consent_fail_open
    table,     \* mv_b2b_learner_enrollment
    decision,  \* its outcomes_shared, one per learner and contract
    roster,    \* mv_b2b_learner: outcomes_shared per learner, or Absent
    panel,     \* the view behind a panel
    day,       \* UTC date
    refreshes,
    req, pc, today, offset, page, counts,
    seen,      \* the entries the walk has read
    moved      \* history: the data changed during the walk

data == <<table, decision, roster, panel>>
vars == <<failOpen, data, day, refreshes, req, pc, today, offset, page, counts, seen, moved>>

-----------------------------------------------------------------------------
(* The statements                                                          *)

Decision(p) == decision[<<Learner[p], Contract[p]>>]
Shared(p) == OutcomesShared(Decision(p), failOpen)

\* _needs_attention: the view's date has come; COALESCE makes NULL false.
NeedsAttention(p, date) == table[p].since # Null /\ table[p].since <= date

\* _records: the contract's rows, active ones unless asked for.
Records(contract, inactive) ==
    {p \in Rows : /\ table[p].status # Absent /\ Contract[p] = contract /\ Learner[p] # Null
                  /\ inactive \/ table[p].active}

\* Mutant: the status filter looks at the status of a withheld row.
MatchesUngated(p, f, date) ==
    /\ Learner[p] \in f.search
    /\ f.runs # {} => Run[p] \in f.runs
    /\ f.statuses # {} => \/ table[p].status \in f.statuses
                          \/ "unknown" \in f.statuses /\ ~Shared(p)
    /\ f.needs # Null => Shared(p) /\ NeedsAttention(p, date) = f.needs

\* _where: every predicate tests one row, and those on outcomes only a shared
\* one; "unknown" selects the withheld.
Matches(p, f, date) ==
    /\ Learner[p] \in f.search
    /\ f.runs # {} => Run[p] \in f.runs
    /\ f.statuses # {} => \/ Shared(p) /\ table[p].status \in f.statuses
                          \/ "unknown" \in f.statuses /\ ~Shared(p)
    /\ f.needs # Null => Shared(p) /\ NeedsAttention(p, date) = f.needs

\* _projection and LearnerEnrollment
Projection(p, date) ==
    [row |-> p, consent |-> ConsentStatus(Decision(p)), shared |-> Shared(p),
     status |-> Gate(Shared(p), table[p].status),
     needs |-> Gate(Shared(p), NeedsAttention(p, date))]

\* LIMIT and OFFSET over a set in its order.
Slice(S, limit, skip) ==
    {x \in S : Cardinality({y \in S : y < x}) \in skip..(skip + limit - 1)}

Count(S, P(_)) == Cardinality({x \in S : P(x)})

\* learner_progress
Matched(f, date) == {p \in Records(f.contract, f.inactive) : Matches(p, f, date)}

ProgressPage(r, date, skip) ==
    {Projection(p, date) : p \in Slice(Matched(r.filter, date), r.limit, skip)}

\* Mutant: the count statement has the date of its own evaluation.
ProgressCountOwnDate(r, date) ==
    LET rows == Matched(r.filter, day) IN
    [total |-> Cardinality(rows), withheld |-> Count(rows, LAMBDA p : ~Shared(p)),
     status |-> [s \in Statuses |-> Count(rows, LAMBDA p : Shared(p) /\ table[p].status = s)],
     needs |-> Count(rows, LAMBDA p : Shared(p) /\ NeedsAttention(p, day))]

ProgressCount(r, date) ==
    LET rows == Matched(r.filter, date) IN
    [total |-> Cardinality(rows), withheld |-> Count(rows, LAMBDA p : ~Shared(p)),
     status |-> [s \in Statuses |-> Count(rows, LAMBDA p : Shared(p) /\ table[p].status = s)],
     needs |-> Count(rows, LAMBDA p : Shared(p) /\ NeedsAttention(p, date))]

\* learners: learners with a matching row, paged by learner, each with all of
\* their active enrollments.
ListedLearners(f, date) == {Learner[p] : p \in Matched(f, date)}

\* LearnerWithEnrollments.from_rows: keyed by learner_id.
WithEnrollments(i, rows, date) ==
    [learner |-> i, enrollments |-> {Projection(p, date) : p \in {q \in rows : Learner[q] = i}}]

LearnersPage(r, date, skip) ==
    {WithEnrollments(i, Records(r.filter.contract, FALSE), date) :
     i \in Slice(ListedLearners(r.filter, date), r.limit, skip)}

LearnersCount(r, date) ==
    [total |-> Cardinality(ListedLearners(r.filter, date)),
     withheld |-> Cardinality({Learner[p] : p \in {q \in Matched(r.filter, date) : ~Shared(q)}})]

\* course_runs: catalog metadata, neither gated nor floored.
CourseRuns(contract) == {Run[p] : p \in {q \in Rows : Contract[q] = contract}}

\* needs_attention_aggregate: distinct learners of a contract's active rows.
Active(contract) == {p \in Rows : /\ table[p].status # Absent /\ table[p].active
                                  /\ Contract[p] = contract}

\* COUNT(DISTINCT learner_id) passes NULL over.
Distinct(rows) == Cardinality({Learner[p] : p \in rows} \ {Null})

\* Mutant: one count per enrollment.
TilePerEnrollment(contract, date) ==
    LET rows == Active(contract)
        known == {p \in rows : Learner[p] # Null} IN
    [contract |-> contract, considered |-> Distinct(rows),
     needing |-> Cardinality({p \in known : Shared(p) /\ NeedsAttention(p, date)}),
     withheld |-> Distinct({p \in known : ~Shared(p)})]

Tile(contract, date) ==
    LET rows == Active(contract)
        known == {p \in rows : Learner[p] # Null} IN
    [contract |-> contract, considered |-> Distinct(rows),
     needing |-> Distinct({p \in known : Shared(p) /\ NeedsAttention(p, date)}),
     withheld |-> Distinct({p \in known : ~Shared(p)})]

\* HAVING COUNT(DISTINCT learner_id) >= floor, in both statements.
GatedContracts(f) ==
    {c \in Contracts : (f.contract # Null => c = f.contract) /\ Active(c) # {}
                       /\ Distinct(Active(c)) >= Floor}

\* ContractNeedsAttention's policy, in fetch_and_suppress: both secondary counts
\* are contained in the primary one, and withheld with a sub-floor complement.
Suppress(tile) ==
    LET floored(n) == IF IsDisclosive(n) \/ ComplementIsDisclosive(n, tile.considered)
                      THEN Null ELSE n
    IN [tile EXCEPT !.needing = floored(@), !.withheld = floored(@)]

\* Mutant: the page's gate is left to suppress_small_cohorts, after the LIMIT.
TilePageLate(r, date, skip) ==
    {Suppress(Tile(c, date)) :
     c \in {k \in Slice({x \in Contracts : Active(x) # {}}, r.limit, skip) :
              ~BelowFloor(Distinct(Active(k)))}}

TilePage(r, date, skip) ==
    {Suppress(Tile(c, date)) :
     c \in {k \in Slice(GatedContracts(r.filter), r.limit, skip) : ~BelowFloor(Distinct(Active(k)))}}

\* build_select, then suppress_small_cohorts over the page: the LIMIT counts
\* the rows that are dropped.
Visible(x) == ~BelowFloor(panel[x].cohort)

PanelPage(r, skip) ==
    {[row |-> x, since |-> panel[x].since, health |-> panel[x].health] :
     x \in {y \in Slice(PanelRows, r.limit, skip) : Visible(y)}}

\* admin's _with_at_risk: the view froze its status at its last refresh.
WithAtRisk(e, date) ==
    IF e.since # Null /\ e.since <= date THEN [e EXCEPT !.health = "at_risk"] ELSE e

\* build_count and fetch_visible_count: the same gate in SQL, over every page.
PanelCount == Count(PanelRows, LAMBDA x : panel[x].cohort >= Floor)

PageOf(r, date, skip) ==
    CASE r.endpoint = "learner-progress" -> ProgressPage(r, date, skip)
      [] r.endpoint = "learners" -> LearnersPage(r, date, skip)
      [] r.endpoint = "course-runs" -> Slice(CourseRuns(r.filter.contract), r.limit, skip)
      [] r.endpoint = "needs-attention" -> TilePage(r, date, skip)
      [] OTHER -> PanelPage(r, skip)

CountsOf(r, date) ==
    CASE r.endpoint = "learner-progress" -> ProgressCount(r, date)
      [] r.endpoint = "learners" -> LearnersCount(r, date)
      [] r.endpoint = "course-runs" -> [total |-> Cardinality(CourseRuns(r.filter.contract))]
      [] r.endpoint = "needs-attention" -> [total |-> Cardinality(GatedContracts(r.filter))]
      [] OTHER -> [total |-> PanelCount]

-----------------------------------------------------------------------------
(* A request, and the client's walk                                        *)

\* _utc_today: resolved once, before either statement.
ReadToday ==
    /\ pc = "today" /\ req.endpoint \in Dated
    /\ today' = day /\ pc' = "page"
    /\ UNCHANGED <<failOpen, data, day, refreshes, req, offset, page, counts, seen, moved>>

\* The page statement.
FetchPage ==
    /\ pc = IF req.endpoint \in Dated THEN "page" ELSE "today"
    /\ page' = PageOf(req, today, offset)
    /\ pc' = IF req.endpoint = "admin" THEN "clock" ELSE "count"
    /\ UNCHANGED <<failOpen, data, day, refreshes, req, today, offset, counts, seen, moved>>

\* contract_health: the date is the service's own, read after the rows.
ReadClock ==
    /\ pc = "clock" /\ pc' = "count"
    /\ today' = day /\ page' = {WithAtRisk(e, day) : e \in page}
    /\ UNCHANGED <<failOpen, data, day, refreshes, req, offset, counts, seen, moved>>

FetchCount ==
    /\ pc = "count"
    /\ counts' = CountsOf(req, today) /\ pc' = "answered"
    /\ seen' = seen \cup page
    /\ UNCHANGED <<failOpen, data, day, refreshes, req, today, offset, page, moved>>

More == offset + Cardinality(page) < counts.total

\* The client reads on while the total says there is more.
NextPage ==
    /\ pc = "answered" /\ More
    /\ pc' = "today" /\ offset' = offset + req.limit
    /\ today' = 0 /\ page' = {} /\ counts' = [total |-> 0]
    /\ UNCHANGED <<failOpen, data, day, refreshes, req, seen, moved>>

\* Or the walk is over, and some time later there is another one.
StartOver ==
    /\ pc = "answered" /\ ~More
    /\ pc' = "today" /\ offset' = 0 /\ seen' = {} /\ moved' = FALSE
    /\ today' = 0 /\ page' = {} /\ counts' = [total |-> 0]
    /\ UNCHANGED <<failOpen, data, day, refreshes, req>>

\* The view of enrollments is refreshed: a row, or an answer, changes.
Refresh ==
    /\ refreshes < MaxRefreshes /\ req.endpoint \notin Panels
    /\ \/ \E p \in Rows : \E c \in Contents[p] \ {table[p]} :
             table' = [table EXCEPT ![p] = c] /\ UNCHANGED decision
       \/ \E k \in DOMAIN Decisions : \E d \in Decisions[k] \ {decision[k]} :
             decision' = [decision EXCEPT ![k] = d] /\ UNCHANGED table
    /\ refreshes' = refreshes + 1 /\ moved' = TRUE
    /\ UNCHANGED <<failOpen, roster, panel, day, req, pc, today, offset, page, counts, seen>>

\* mv_b2b_learner, refreshed at its own time, resolves every contract of a learner on the roster.
Resolved(i) == RollupDecision({decision[k] : k \in {j \in DOMAIN Decisions : j[1] = i}})

RefreshRoster ==
    /\ refreshes < MaxRefreshes /\ req.endpoint \notin Panels
    /\ \E on \in SUBSET Learners :
          roster' = [i \in Learners |-> IF i \in on THEN Resolved(i) ELSE Absent]
    /\ refreshes' = refreshes + 1
    /\ UNCHANGED <<failOpen, table, decision, panel, day, req, pc, today, offset, page, counts, seen, moved>>

\* The view of a panel is refreshed: its status is that of the day.
RefreshPanel ==
    /\ refreshes < MaxRefreshes /\ req.endpoint \in Panels
    /\ \E x \in PanelRows, c \in PanelContents :
          panel' = [panel EXCEPT ![x] = [c EXCEPT !.health =
                      IF c.since # Null /\ c.since <= day THEN "at_risk" ELSE @]]
    /\ refreshes' = refreshes + 1 /\ moved' = TRUE
    /\ UNCHANGED <<failOpen, table, decision, roster, day, req, pc, today, offset, page, counts, seen>>

Midnight ==
    /\ day < LastDay /\ day' = day + 1
    /\ UNCHANGED <<failOpen, data, refreshes, req, pc, today, offset, page, counts, seen, moved>>

-----------------------------------------------------------------------------
Frozen(c) == [c EXCEPT !.health = IF c.since # Null /\ c.since <= 0 THEN "at_risk" ELSE @]

Init ==
    /\ failOpen \in BOOLEAN /\ req \in Requests
    /\ IF req.endpoint \in Panels
       THEN /\ table = [p \in Rows |-> CHOOSE c \in Contents[p] : TRUE]
            /\ decision = [k \in DOMAIN Decisions |-> Null]
            /\ panel \in [PanelRows -> {Frozen(c) : c \in PanelContents}]
       ELSE /\ table \in {f \in [Rows -> UNION {Contents[p] : p \in Rows}] :
                             \A p \in Rows : f[p] \in Contents[p]}
            /\ decision \in {f \in [DOMAIN Decisions -> Answer] :
                                \A k \in DOMAIN Decisions : f[k] \in Decisions[k]}
            /\ panel = [x \in PanelRows |-> CHOOSE c \in PanelContents : TRUE]
    /\ roster = [i \in Learners |-> Resolved(i)]
    /\ day = 0 /\ refreshes = 0 /\ pc = "today" /\ today = 0 /\ offset = 0
    /\ page = {} /\ counts = [total |-> 0] /\ seen = {} /\ moved = FALSE

Next ==
    \/ ReadToday \/ FetchPage \/ ReadClock \/ FetchCount \/ NextPage \/ StartOver
    \/ Refresh \/ RefreshRoster \/ RefreshPanel \/ Midnight

Spec == Init /\ [][Next]_vars

-----------------------------------------------------------------------------
(* Properties                                                              *)

\* Of page, counts and seen, the statements say what they are.
TypeOK ==
    /\ failOpen \in BOOLEAN /\ req \in Requests
    /\ table \in [Rows -> Row] /\ decision \in [DOMAIN Decisions -> Answer]
    /\ roster \in [Learners -> Answer \cup {Absent}] /\ panel \in [PanelRows -> PanelRow]
    /\ day \in 0..LastDay /\ refreshes \in 0..MaxRefreshes
    /\ pc \in {"today", "page", "clock", "count", "answered"}
    /\ today \in 0..day /\ offset \in Nat /\ moved \in BOOLEAN

Answered == pc = "answered" /\ ~moved

\* The outcomes of withheld rows erased: what an organization may know.
Public ==
    [p \in Rows |-> IF Learner[p] # Null /\ Shared(p) THEN table[p]
                    ELSE [table[p] EXCEPT !.status = IF @ = Absent THEN Absent ELSE Null, !.since = Null]]

SameAnswers ==
    \A r \in Requests, date \in 0..LastDay, skip \in Offsets :
        PageOf(r, date, skip)' = PageOf(r, date, skip) /\ CountsOf(r, date)' = CountsOf(r, date)
WithheldChange == table' # table /\ Public' = Public

\* No filter, count or page depends on the outcomes of a learner who has not
\* agreed to share them (_where's comments): a refresh that changes nothing
\* else changes no answer of any endpoint.
WithheldInvisible == [][WithheldChange => SameAnswers]_vars

\* A page and the counts beside it describe the same rows on the same date,
\* though midnight may fall between the two statements (_utc_today): the
\* counts of a page that holds everything are the counts of its rows, and
\* withheld and statuses add up to the total (CompletionStatusCounts).
CountsAgreeWithRows ==
    Answered /\ offset = 0 /\ Cardinality(page) < req.limit =>
        CASE req.endpoint = "learner-progress" ->
               /\ counts.total = Cardinality(page)
               /\ counts.withheld = Count(page, LAMBDA e : e.status = Null)
               /\ counts.needs = Count(page, LAMBDA e : e.needs = TRUE)
               /\ \A s \in Statuses : counts.status[s] = Count(page, LAMBDA e : e.status = s)
          [] req.endpoint = "learners" ->
               /\ counts.total = Cardinality(page)
               /\ counts.withheld = Count(page, LAMBDA e : \A x \in e.enrollments : ~x.shared)
          [] OTHER -> TRUE

\* The tile's number is that of the learners the directory lists under
\* needs_attention=true for the same contract and date (needs_attention.py):
\* one per learner, active enrollments only, non-SSO accounts in neither.
TileMatchesDirectory ==
    \A c \in Contracts, date \in 0..LastDay :
        Tile(c, date).needing =
            Cardinality(ListedLearners([contract |-> c, inactive |-> FALSE, search |-> Learners,
                                        runs |-> {}, statuses |-> {}, needs |-> TRUE], date))

\* Everything an endpoint shows, whatever the page.
Whole == PageOf([req EXCEPT !.limit = Cardinality(Rows) + Cardinality(PanelRows)], today, 0)
Key(e) == CASE req.endpoint = "learner-progress" -> e.row
            [] req.endpoint = "learners" -> e.learner
            [] req.endpoint = "needs-attention" -> e.contract
            [] req.endpoint = "course-runs" -> e
            [] OTHER -> e.row

\* A walk that stops where total_count says has read every entry (the rule
\* of OrgAnalyticsResponse): the page's LIMIT and the count are over one set,
\* the floor included.  A panel's LIMIT is over more rows than its count; for
\* it the total is the number of rows that the pages show between them.
WalkComplete ==
    Answered /\ ~More /\ (req.endpoint \in Dated /\ req.filter.needs # Null => day = 0) =>
        IF req.endpoint \in Panels THEN counts.total = Cardinality(Whole)
        ELSE {Key(e) : e \in seen} = {Key(e) : e \in Whole}

\* What /learners decides for a learner with include_inactive.
RollupOf(i) ==
    LET rows == {p \in Rows : Learner[p] = i /\ table[p].status # Absent}
    IN JoinedDecision(roster[i], IF rows = {} THEN Absent
                                 ELSE RollupDecision({Decision(p) : p \in rows}))

\* A rollup over two views of different age shares a learner's outcomes just
\* when every decision in either view does: neither a decline that only one
\* view has seen is lost, nor is an answer demanded twice.
RollupSharesWhenAllDo ==
    \A i \in Learners :
        LET answers == {Decision(p) :
                          p \in {q \in Rows : Learner[q] = i /\ table[q].status # Absent}}
                       \cup ({roster[i]} \ {Absent})
        IN answers # {} => (OutcomesShared(RollupOf(i), failOpen) <=>
                               \A d \in answers : OutcomesShared(d, failOpen))
=============================================================================
