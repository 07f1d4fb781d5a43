------------------------- MODULE LearnerRecordsSync -------------------------
(***************************************************************************)
(* The incremental sync of the learner-records tenant: the updated_since   *)
(* checks, the record queries over the views and their change logs, as_of  *)
(* (b2b_learner_records/routers/organizations.py, queries.py), and a       *)
(* partner's client that follows the published contract                    *)
(* (docs/openapi/b2b-learner-records-v1.yaml).                             *)
(*                                                                         *)
(* The client syncs one collection: "enrollments", "roster" (/learners),   *)
(* "contract" (/learners with contract_id) or "all" (/learners with        *)
(* include_inactive); enrollments are synced with include_inactive, as the *)
(* contract asks.  A row's columns are one value.  Time is counted in      *)
(* ticks, Second of them to a second: a refresh ends at any tick, a stamp  *)
(* has utc_timestamp()'s whole seconds.  The views and logs belong to      *)
(* ol-data-platform; their steps here are what queries.py says of them.    *)
(***************************************************************************)
EXTENDS Integers, Sequences, FiniteSets

CONSTANTS
    LearnerRows,    \* keys of mv_b2b_learner (user_pk of one organization)
    EnrollmentRows, \* keys of mv_b2b_learner_enrollment
    LearnerId,      \* learner_id of each row, in the order of the API
    EnrollmentId,   \* (learner_id, contract_id, courserun_id) of each enrollment
    InContract,     \* the enrollments under the requested contract_id
    Collections,    \* the collections to consider
    Values,         \* contents of a row
    Absent,         \* the content of a row that is not there
    None, Unsent, Cold, \* no value; not in this sync; not cached
    Second,         \* ticks in a second
    Retention,      \* REMOVED_RECORD_RETENTION
    StartTTL,       \* _LOG_START_CACHE_TTL_SECONDS
    MaxRequest,     \* the longest a request takes
    PurgeAge,       \* age from which the warehouse drops tombstones
    PageSize,       \* limit
    MaxNow,         \* bound: the clock, for each collection
    MaxRefreshes,   \* bound: refreshes
    MaxRebuilds,    \* bound: creations of a log
    MaxFailures     \* bound: failed requests, for each collection

Rows == LearnerRows \cup EnrollmentRows
Views == {"learner", "enrollment"}
Bodies == SUBSET (Views \X Values)

ASSUME SyncAssumption ==
    /\ LearnerRows \cap EnrollmentRows = {} /\ IsFiniteSet(Rows)
    /\ LearnerId \in [Rows -> Nat] /\ EnrollmentId \in [EnrollmentRows -> Nat]
    /\ InContract \subseteq EnrollmentRows
    /\ Collections \subseteq {"enrollments", "roster", "contract", "all"}
    /\ Absent \notin Values
    /\ None \notin Nat \cup [val : Values \cup {Absent}, on : Nat]
    /\ Unsent # None /\ \A b \in Bodies : Unsent # b
    /\ Second \in Nat \ {0} /\ PageSize \in Nat \ {0}
    /\ Retention \in Nat /\ StartTTL \in Nat \ {0} /\ MaxRequest \in Nat
    /\ MaxNow \in [Collections -> Nat] /\ MaxFailures \in [Collections -> Nat]
    /\ MaxRefreshes \in Nat /\ MaxRebuilds \in Nat
    \* No tombstone goes while a cursor that passed _within_retention needs it.
    /\ PurgeAge \in Nat /\ PurgeAge >= Retention + MaxRequest + Second

VARIABLES
    collection, \* what the client syncs
    now,
    \* the warehouse
    mv,         \* content of each row of the two views
    finished,   \* LAST_REFRESH_FINISHED_TIME of each view, None before the first
    log,        \* <mv>_changes: content last stamped and changed_on, or None
    created,    \* when each log was last created (its seed's changed_on)
    foreign,    \* the logs keep a seeded row of another organization
    refreshes, rebuilds, failures,
    \* the service
    asOfCache,  \* refresh_metadata._cache: a time, None, or Cold
    startCache, \* _log_start_cache: value and expiry, or Cold
    \* the request in progress
    pc, since, todo, began, answer, labels, offset,
    \* the client
    held, cursor, got, firstAsOf,
    \* history
    listing,    \* the records the first page of this sync was cut from
    flaws,      \* of this sync: "young" a log younger than its cursor was read,
                \* "torn" its pages are cut from different listings
    taint       \* the flaws of the syncs the client's copy is made of

world == <<mv, finished, log, created, foreign, refreshes, rebuilds>>
caches == <<asOfCache, startCache>>
request == <<pc, since, todo, began, answer, labels, offset>>
client == <<held, cursor, got, firstAsOf, listing, flaws, taint>>
vars == <<collection, now, world, failures, caches, request, client>>

-----------------------------------------------------------------------------
(* The queries                                                             *)

RowsOf(v) == IF v = "learner" THEN LearnerRows ELSE EnrollmentRows
ViewOf(p) == IF p \in LearnerRows THEN "learner" ELSE "enrollment"
Maximum(S) == CHOOSE x \in S : \A y \in S : y <= x
Minimum(S) == CHOOSE x \in S : \A y \in S : x <= y
Latest(S) == IF S = {} THEN None ELSE Maximum(S)
Earliest(S) == IF S = {} THEN None ELSE Minimum(S)

\* RecordQuery.sources; change_logs are the logs of the same views.
Sources == CASE collection = "enrollments" -> <<"enrollment">>
             [] collection = "roster" -> <<"learner">>
             [] OTHER -> <<"learner", "enrollment">>
SourceViews == {Sources[k] : k \in DOMAIN Sources}

\* The rows a record is built from, and those that put it in the collection.
Reads == CASE collection = "enrollments" -> EnrollmentRows
           [] collection = "roster" -> LearnerRows
           [] collection = "contract" -> LearnerRows \cup InContract
           [] OTHER -> Rows
Holds == IF collection = "contract" THEN InContract ELSE Reads

Id(p) == IF collection = "enrollments" THEN EnrollmentId[p] ELSE LearnerId[p]
Records == {LearnerId[p] : p \in Rows} \cup {EnrollmentId[p] : p \in EnrollmentRows}
Built(i) == {p \in Reads : Id(p) = i}
LiveRows(i) == {p \in Built(i) \cap Holds : mv[p] # Absent}

\* The record a full read returns now; None when there is none.
Body(i) == IF LiveRows(i) = {} THEN None
           ELSE {<<ViewOf(p), mv[p]>> : p \in {q \in Built(i) : mv[q] # Absent}}

Logged(S) == {p \in S : log[p] # None}
Stamps(S) == {log[p].on : p \in Logged(S)}

\* changed_on of a live record: its own log row's, found by key; for the
\* recomputed rollup the latest of all the rows it is built from, deleted
\* ones included.  None (NULL) before the first stamp.
LiveOn(i) ==
    Latest(Stamps(IF collection \in {"contract", "all"} THEN Built(i) ELSE LiveRows(i)))

\* A removed record: an identity no live row holds, with a deleted log row
\* (enrollments), or with all its log rows deleted (learners).
Gone(i) ==
    LET logged == Logged(Built(i) \cap Holds)
        deleted == {p \in logged : log[p].val = Absent}
    IN /\ deleted # {} /\ LiveRows(i) = {}
       /\ collection # "enrollments" => deleted = logged
RemovedOn(i) ==
    Latest({log[p].on : p \in {q \in Logged(Built(i) \cap Holds) : log[q].val = Absent}})

\* utc_timestamp() has whole seconds.
UtcTimestamp(t) == t - (t % Second)

\* Mutant: the bound is compared as the client sent it.
WholeSecondExact(t) == t

\* _whole_second: an inclusive lower bound rounds down, an exclusive upper
\* bound up, both toward sending a record again.
WholeSecond(t) == t - (t % Second)

RoundUp(t) == IF t % Second = 0 THEN t ELSE WholeSecond(t) + Second

\* _window_predicates: [from, before) on changed_on; NULL matches no bound.
InWindow(on, from, before) ==
    /\ from # None => on # None /\ on >= WholeSecond(from)
    /\ before # None => on # None /\ on < RoundUp(before)

\* Mutant: no removed records.
SelectedLive(from) == {i \in Records : LiveRows(i) # {} /\ InWindow(LiveOn(i), from, None)}

\* The records of a request, removed ones only under updated_since.
Selected(from) ==
    {i \in Records : \/ LiveRows(i) # {} /\ InWindow(LiveOn(i), from, None)
                     \/ from # None /\ Gone(i) /\ InWindow(RemovedOn(i), from, None)}

\* ORDER BY ... LIMIT ... OFFSET
OnPage(from) ==
    LET rank(i) == Cardinality({j \in Selected(from) : j < i})
    IN {i \in Selected(from) : rank(i) \in offset..(offset + PageSize - 1)}

\* change_log_start: MIN(changed_on) over every organization's rows.
LogStart(v) ==
    Earliest(Stamps(RowsOf(v)) \cup (IF foreign /\ created[v] # None THEN {created[v]} ELSE {}))

Flaws == {"young", "torn"}

TypeOK ==
    /\ collection \in Collections /\ now \in Nat /\ foreign \in BOOLEAN
    /\ refreshes \in Nat /\ rebuilds \in Nat /\ failures \in Nat
    /\ mv \in [Rows -> Values \cup {Absent}]
    /\ log \in [Rows -> [val : Values \cup {Absent}, on : Nat] \cup {None}]
    /\ finished \in [Views -> Nat \cup {None}] /\ created \in [Views -> Nat \cup {None}]
    /\ asOfCache \in [Views -> Nat \cup {None, Cold}]
    /\ startCache \in [Views -> [val : Nat \cup {None}, until : Nat] \cup {Cold}]
    /\ pc \in {"idle", "coverage", "start", "asof", "page", "count", "more"}
    /\ since \in Nat \cup {None} /\ answer \in Nat \cup {None} /\ began \in Nat
    /\ todo \in {Sources, Tail(Sources), <<>>}
    /\ labels \subseteq Nat \cup {None} /\ offset \in Nat
    /\ held \in [Records -> Bodies \cup {None}] /\ cursor \in Nat \cup {None}
    /\ got \in [Records -> Bodies \cup {None, Unsent}] /\ firstAsOf \in Nat \cup {None}
    /\ listing \subseteq Records /\ flaws \subseteq Flaws /\ taint \subseteq Flaws

-----------------------------------------------------------------------------
(* A request                                                               *)

Blank == [i \in Records |-> Unsent]

\* The client ends its sync (its next one starts afresh).
Drop == /\ pc' = "idle" /\ since' = None /\ offset' = 0 /\ todo' = <<>> /\ began' = 0
        /\ answer' = None /\ labels' = {} /\ got' = Blank /\ firstAsOf' = None
        /\ listing' = {} /\ flaws' = {}

\* Any 400 names updated_since: the client reloads in full.
Refuse == Drop /\ cursor' = None /\ UNCHANGED <<held, taint>>

\* _within_retention
WithinRetention(from) == from # None => from >= now - Retention

\* A request arrives with its parameters validated, or is refused.
Arrive(from, skip, sofar) ==
    \/ ~WithinRetention(from) /\ Refuse
    \/ /\ WithinRetention(from)
       /\ pc' = IF from = None THEN "asof" ELSE "coverage"
       /\ since' = from /\ offset' = skip /\ got' = sofar
       /\ todo' = Sources /\ began' = now /\ answer' = None /\ labels' = {}
       /\ UNCHANGED <<held, cursor, firstAsOf, listing, flaws, taint>>

StartSync ==
    /\ pc = "idle"
    /\ Arrive(cursor, 0, Blank)
    /\ UNCHANGED <<collection, now, world, failures, caches>>

MorePages ==
    /\ pc = "more"
    /\ Arrive(since, offset, got)
    /\ UNCHANGED <<collection, now, world, failures, caches>>

\* _require_change_log_coverage, one log: an empty log refuses every cursor.
Covered(start) == start # None /\ start <= since

Judge(start) ==
    \/ ~Covered(start) /\ Refuse
    \/ /\ Covered(start)
       /\ LET rest == Tail(todo) IN
          /\ pc' = IF rest = <<>> THEN "asof" ELSE "coverage"
          /\ todo' = IF rest = <<>> THEN Sources ELSE rest
       /\ answer' = None
       /\ UNCHANGED <<since, began, labels, offset, client>>

StartCached(v) == startCache[v] # Cold

CoverageHit ==
    /\ pc = "coverage" /\ StartCached(Head(todo))
    /\ Judge(startCache[Head(todo)].val)
    /\ UNCHANGED <<collection, now, world, failures, caches>>

\* The database evaluates the MIN ...
CoverageQuery ==
    /\ pc = "coverage" /\ ~StartCached(Head(todo))
    /\ pc' = "start" /\ answer' = LogStart(Head(todo))
    /\ UNCHANGED <<collection, now, world, failures, caches, since, todo, began, labels, offset, client>>

\* Mutant: the cached start never expires.
CoverageStoreForEver ==
    /\ pc = "start"
    /\ startCache' = [startCache EXCEPT ![Head(todo)] = [val |-> answer, until |-> MaxNow[collection] + 1]]
    /\ Judge(answer)
    /\ UNCHANGED <<collection, now, world, failures, asOfCache>>

\* ... and the answer is cached, without a lock.
CoverageStore ==
    /\ pc = "start"
    /\ startCache' = [startCache EXCEPT ![Head(todo)] = [val |-> answer, until |-> now + StartTTL]]
    /\ Judge(answer)
    /\ UNCHANGED <<collection, now, world, failures, asOfCache>>

\* _as_of, one source.  The cached time may have any age here; AsOfFreshness
\* has the cache itself.
ReadAsOf ==
    /\ pc = "asof"
    /\ LET v == Head(todo) IN
       \/ /\ asOfCache[v] # Cold /\ labels' = labels \cup {asOfCache[v]}
          /\ UNCHANGED asOfCache
       \/ /\ labels' = labels \cup {finished[v]}
          /\ asOfCache' = [asOfCache EXCEPT ![v] = finished[v]]
    /\ todo' = Tail(todo)
    /\ pc' = IF Tail(todo) = <<>> THEN "page" ELSE "asof"
    /\ UNCHANGED <<collection, now, world, failures, startCache, since, began, answer, offset, client>>

\* The page query: one statement over the views and their logs.
FetchPage ==
    /\ pc = "page" /\ pc' = "count"
    /\ got' = [i \in Records |-> IF i \in OnPage(since) THEN Body(i) ELSE got[i]]
    /\ listing' = IF offset = 0 THEN Selected(since) ELSE listing
    /\ flaws' = flaws
          \cup {f \in {"young"} : since # None /\ \E v \in SourceViews : created[v] > since}
          \cup {f \in {"torn"} : listing' # Selected(since)}
    /\ UNCHANGED <<collection, now, world, failures, caches, since, todo, began, answer, labels,
                   offset, held, cursor, firstAsOf, taint>>

\* Mutant: the response claims its fresher source.
AsOfFresher == IF None \in labels THEN None ELSE Maximum(labels)

\* "A response built from two views is only as fresh as the staler one."
AsOf == IF None \in labels THEN None ELSE Minimum(labels)

\* The client takes the sync over: a full one replaces its copy.
Apply(seen) ==
    /\ held' = [i \in Records |-> IF got[i] # Unsent THEN got[i]
                                  ELSE IF since = None THEN None ELSE held[i]]
    /\ cursor' = AsOf
    /\ taint' = seen \cup (IF since = None THEN {} ELSE taint)
    /\ Drop

\* The count query, and the client's reading of the response: restart from
\* offset 0 when as_of changed between pages, go on while there is more.
Respond ==
    /\ pc = "count"
    /\ LET seen == flaws \cup
              {f \in {"torn"} : PageSize < Cardinality(listing) /\ listing # Selected(since)}
           restart == offset > 0 /\ AsOf # firstAsOf
           more == offset + PageSize < Cardinality(Selected(since))
       IN \/ /\ restart
             /\ pc' = "more" /\ offset' = 0 /\ got' = Blank /\ firstAsOf' = None
             /\ listing' = {} /\ flaws' = {}
             /\ UNCHANGED <<since, todo, began, answer, labels, held, cursor, taint>>
          \/ /\ ~restart /\ more
             /\ pc' = "more" /\ offset' = offset + PageSize /\ firstAsOf' = AsOf
             /\ flaws' = seen
             /\ UNCHANGED <<since, todo, began, answer, labels, held, cursor, got, listing, taint>>
          \/ /\ ~restart /\ ~more
             /\ Apply(seen)
    /\ UNCHANGED <<collection, now, world, failures, caches>>

\* A query fails or times out, a cache entry expires under its reader, the
\* response is lost: the client gives this sync up and keeps its cursor.
Fail ==
    /\ pc # "idle" /\ failures < MaxFailures[collection]
    /\ failures' = failures + 1
    /\ Drop
    /\ UNCHANGED <<collection, now, world, caches, held, cursor, taint>>

-----------------------------------------------------------------------------
(* The warehouse and the clock                                             *)

\* Whether the log has yet to take note of a row.
Unstamped(p) == IF log[p] = None THEN mv[p] # Absent ELSE log[p].val # mv[p]

\* What a view can hold: an identity has at most one live row, so a re-keyed
\* row moves in one refresh.
Contents(v) ==
    {f \in [RowsOf(v) -> Values \cup {Absent}] :
        \A p, q \in RowsOf(v) : f[p] # Absent /\ f[q] # Absent /\ p # q =>
            IF v = "learner" THEN LearnerId[p] # LearnerId[q]
                             ELSE EnrollmentId[p] # EnrollmentId[q]}

\* A refresh publishes rows and its time together, once the one before it is
\* stamped.
Refresh(v) ==
    /\ refreshes < MaxRefreshes /\ v \in SourceViews
    /\ created[v] # None => \A p \in RowsOf(v) : ~Unstamped(p)
    /\ \E f \in Contents(v) : mv' = [p \in Rows |-> IF p \in RowsOf(v) THEN f[p] ELSE mv[p]]
    /\ finished' = [finished EXCEPT ![v] = now]
    /\ refreshes' = refreshes + 1
    /\ UNCHANGED <<collection, now, log, created, foreign, rebuilds, failures, caches, request, client>>

Entry(content, time) == [val |-> content, on |-> UtcTimestamp(time)]

\* stamp_change_log: changed_on moves when a row's content, or its being
\* there, does.  The statement's time lies between the end of the refresh and
\* the moment its rows appear.
Stamp(v) ==
    /\ created[v] # None
    /\ \E p \in RowsOf(v) : Unstamped(p)
    /\ \E time \in {finished[v], now} :
          log' = [p \in Rows |-> IF p \in RowsOf(v) /\ Unstamped(p) THEN Entry(mv[p], time) ELSE log[p]]
    /\ UNCHANGED <<collection, now, mv, finished, created, foreign, refreshes, rebuilds, failures,
                   caches, request, client>>

\* A log is created, or recreated by hand, in a later second than the view's
\* last refresh; the seed knows only the rows there are.
Rebuild(v) ==
    /\ rebuilds < MaxRebuilds /\ v \in SourceViews
    /\ finished[v] # None => finished[v] < UtcTimestamp(now)
    /\ log' = [p \in Rows |-> IF p \notin RowsOf(v) THEN log[p]
                              ELSE IF mv[p] = Absent THEN None ELSE Entry(mv[p], now)]
    /\ created' = [created EXCEPT ![v] = UtcTimestamp(now)]
    /\ rebuilds' = rebuilds + 1
    /\ UNCHANGED <<collection, now, mv, finished, foreign, refreshes, failures, caches, request, client>>

\* The purge of old tombstones.
Purge(v) ==
    LET old == {p \in Logged(RowsOf(v)) : log[p].val = Absent /\ log[p].on + PurgeAge < now} IN
    /\ old # {}
    /\ log' = [p \in Rows |-> IF p \in old THEN None ELSE log[p]]
    /\ UNCHANGED <<collection, now, mv, finished, created, foreign, refreshes, rebuilds, failures,
                   caches, request, client>>

\* A TTLCache drops an entry when its time is up.
Tick ==
    /\ now < MaxNow[collection]
    /\ pc \notin {"idle", "more"} => now < began + MaxRequest
    /\ now' = now + 1
    /\ startCache' = [v \in Views |->
          IF startCache[v] # Cold /\ startCache[v].until > now' THEN startCache[v] ELSE Cold]
    /\ UNCHANGED <<collection, world, failures, asOfCache, request, client>>

-----------------------------------------------------------------------------
Init ==
    /\ collection \in Collections /\ now = 0
    /\ \/ \* a deployment before the first refresh
          /\ mv = [p \in Rows |-> Absent] /\ log = [p \in Rows |-> None]
          /\ finished = [v \in Views |-> None] /\ created = [v \in Views |-> None]
       \/ \* or with views refreshed and logs seeded
          /\ mv \in {f \in [Rows -> Values \cup {Absent}] :
                       \A v \in Views : IF v \in SourceViews
                          THEN [p \in RowsOf(v) |-> f[p]] \in Contents(v)
                          ELSE \A p \in RowsOf(v) : f[p] = Absent}
          /\ log = [p \in Rows |-> IF mv[p] = Absent THEN None ELSE Entry(mv[p], now)]
          /\ finished = [v \in Views |-> 0] /\ created = [v \in Views |-> 0]
    /\ foreign \in BOOLEAN
    /\ refreshes = 0 /\ rebuilds = 0 /\ failures = 0
    /\ asOfCache = [v \in Views |-> Cold] /\ startCache = [v \in Views |-> Cold]
    /\ pc = "idle" /\ since = None /\ todo = <<>> /\ began = 0 /\ answer = None
    /\ labels = {} /\ offset = 0
    /\ held = [i \in Records |-> None] /\ cursor = None
    /\ got = Blank /\ firstAsOf = None
    /\ listing = {} /\ flaws = {} /\ taint = {}

RequestStep ==
    \/ MorePages \/ CoverageHit \/ CoverageQuery \/ CoverageStore \/ ReadAsOf
    \/ FetchPage \/ Respond

Next ==
    \/ StartSync \/ RequestStep \/ Fail
    \/ \E v \in Views : Refresh(v) \/ Stamp(v) \/ Rebuild(v) \/ Purge(v)
    \/ Tick

\* A request ends, a refresh is stamped, and a partner keeps syncing.
Fairness ==
    /\ WF_vars(StartSync) /\ WF_vars(RequestStep)
    /\ \A v \in Views : WF_vars(Stamp(v))

Spec == Init /\ [][Next]_vars /\ Fairness

-----------------------------------------------------------------------------
(* Properties                                                              *)

\* What a sync from the client's cursor would still bring it.
Owed ==
    IF \/ cursor = None \/ ~WithinRetention(cursor)
       \/ \E v \in SourceViews : LogStart(v) = None \/ cursor < LogStart(v)
    THEN Records
    ELSE {i \in Records : \E p \in Built(i) :
             Unstamped(p) \/ (log[p] # None /\ log[p].on >= WholeSecond(cursor))}

Settled == \A i \in Records : held[i] # Body(i) => i \in Owed

\* A partner's copy never silently keeps a wrong record: a record that differs
\* from the collection is one that a sync from the partner's cursor returns,
\* or will once stamped, or the cursor is one the service refuses.  It takes
\* as_of read before the page, the older as_of of two views, bounds rounded
\* toward sending again, tombstones, and both refusals.  Copies made of pages
\* of different listings, or read inside the window that StaleStartBounded
\* bounds, are left out.
NothingLost == taint = {} => Settled

\* The same for copies made of several pages by the published rule, restart
\* when as_of changes.
PagingStable == "young" \in taint \/ Settled

Replica == INSTANCE PartnerReplica WITH
    truth <- [i \in Records |-> Body(i)],
    owed <- IF taint = {} THEN Owed ELSE Records

\* The service and a client that follows its contract implement the replica
\* the contract promises: a sync changes only what was owed.
ImplementsReplica == Replica!Spec

\* An incremental page is read from a log younger than its cursor only
\* shortly after the log's recreation (_log_start_cache's comment): the
\* cached start's lifetime, two requests and the stamp's rounding.
StaleStartBounded ==
    [][pc = "page" /\ pc' = "count" /\ since # None =>
          \A v \in SourceViews :
             created[v] <= since \/ now - created[v] < StartTTL + 2 * MaxRequest + Second - 1]_vars

\* Once the warehouse is quiet a partner that keeps syncing catches up, unless
\* its copy has one of the flaws.
EventuallyConsistent == <>[](taint # {} \/ \A i \in Records : held[i] = Body(i))
=============================================================================
