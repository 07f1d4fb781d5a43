--------------------------- MODULE AsOfFreshness ---------------------------
(***************************************************************************)
(* How a response gets its as_of: latest_refresh_timestamp() with its TTL  *)
(* cache and per-view lock (core/db/refresh_metadata.py), and the two      *)
(* orders in which endpoints read it and their rows.  "panel" endpoints    *)
(* (b2b_dashboard organizations, contracts) read rows, then as_of; the     *)
(* "records" endpoints (b2b_learner_records, and learners and              *)
(* needs_attention of the dashboard) read as_of first, of each view the    *)
(* response is built from, and report the oldest.                          *)
(*                                                                         *)
(* The views refresh at any moment.  A refresh time is the number of the   *)
(* refresh, counted over all views; 0 is a view never refreshed (None).    *)
(* A step is the code between two awaits, except that time may pass        *)
(* between testing "key in _cache" and reading _cache[key].                *)
(***************************************************************************)
EXTENDS Naturals, FiniteSetsExt

CONSTANTS
    Requests,       \* concurrent requests
    Views,          \* materialized views
    MaxRefreshes,   \* bound: refreshes in a behaviour
    TTL,            \* _AS_OF_CACHE_TTL_SECONDS
    MaxQuery,       \* settings.starrocks_query_timeout_seconds
    None

ASSUME FreshnessAssumption ==
    /\ TTL \in Nat \ {0} /\ MaxQuery \in Nat /\ MaxRefreshes \in Nat
    /\ None \notin Requests \cup Views \cup (0..MaxRefreshes)

VARIABLES
    refreshed,  \* LAST_REFRESH_FINISHED_TIME of each view
    lag,        \* time since it, up to Overdue
    entry,      \* the cache: value and lifetime left, None when absent
    lock,       \* holder of _locks[view]
    pc,         \* where each request is
    sources,    \* the views a request reads
    panel,      \* rows first (panel) or as_of first (records)
    cur,        \* the view whose as_of is being read
    asked,      \* what the database answered, on its way
    patience,   \* time the query in flight may still take
    label,      \* the as_of read for each source so far
    snap        \* refresh times of the views when the rows were read

reqVars == <<pc, sources, panel, cur, asked, patience, label, snap>>
vars == <<refreshed, lag, entry, lock, reqVars>>

Stamps   == 0..MaxRefreshes
Overdue  == TTL + MaxQuery + 1
Latest   == Max({refreshed[v] : v \in Views})
Live(v)  == entry[v] # None /\ entry[v].left > 0
Querying == {"query", "answer"}
Ended    == {"done", "failed", "keyerror"}

TypeOK ==
    /\ refreshed \in [Views -> Stamps] /\ lag \in [Views -> 0..Overdue]
    /\ entry \in [Views -> [val : Stamps, left : 0..TTL] \cup {None}]
    /\ lock \in [Views -> Requests \cup {None}]
    /\ pc \in [Requests -> {"idle", "asof", "get", "wait", "rows"} \cup Querying \cup Ended]
    /\ sources \in [Requests -> SUBSET Views] /\ panel \in [Requests -> BOOLEAN]
    /\ cur \in [Requests -> Views \cup {None}]
    /\ asked \in [Requests -> Stamps] /\ patience \in [Requests -> 0..MaxQuery]
    /\ label \in [Requests -> [Views -> Stamps \cup {None}]]
    /\ snap \in [Requests -> [Views -> Stamps \cup {None}]]

Blank == [v \in Views |-> None]

Init ==
    /\ refreshed = [v \in Views |-> 0] /\ lag = [v \in Views |-> Overdue]
    /\ entry = Blank /\ lock = Blank
    /\ pc = [r \in Requests |-> "idle"]
    /\ sources = [r \in Requests |-> {}] /\ panel = [r \in Requests |-> FALSE]
    /\ cur = [r \in Requests |-> None]
    /\ asked = [r \in Requests |-> 0] /\ patience = [r \in Requests |-> 0]
    /\ label = [r \in Requests |-> Blank] /\ snap = [r \in Requests |-> Blank]

\* No request stands between its cache test and its cache read.
Quiet == \A r \in Requests : pc[r] # "get"
Goto(r, where) == pc' = [pc EXCEPT ![r] = where]

-----------------------------------------------------------------------------
(* Endpoints                                                               *)

\* A panel is built from one view, a record list from one or more.
Begin(r, S, isPanel) ==
    /\ Quiet /\ pc[r] \in {"idle"} \cup Ended
    /\ isPanel => Cardinality(S) = 1
    /\ sources' = [sources EXCEPT ![r] = S]
    /\ panel' = [panel EXCEPT ![r] = isPanel]
    /\ label' = [label EXCEPT ![r] = Blank] /\ snap' = [snap EXCEPT ![r] = Blank]
    /\ Goto(r, IF isPanel THEN "rows" ELSE "asof")
    /\ UNCHANGED <<refreshed, lag, entry, lock, cur, asked, patience>>

\* The row query: one statement over the request's views.
FetchRows(r) ==
    /\ Quiet /\ pc[r] = "rows"
    /\ snap' = [snap EXCEPT ![r] = [v \in Views |-> IF v \in sources[r] THEN refreshed[v] ELSE None]]
    /\ Goto(r, IF panel[r] THEN "asof" ELSE "done")
    /\ UNCHANGED <<refreshed, lag, entry, lock, sources, panel, cur, asked, patience, label>>

\* A query fails, times out or its client goes away: the exception passes
\* through the async with, and nothing is cached.
Fails(r) ==
    /\ Quiet /\ pc[r] \in {"rows", "wait"} \cup Querying
    /\ Goto(r, "failed")
    /\ lock' = [v \in Views |-> IF lock[v] = r THEN None ELSE lock[v]]
    /\ cur' = [cur EXCEPT ![r] = None]
    /\ asked' = [asked EXCEPT ![r] = 0] /\ patience' = [patience EXCEPT ![r] = 0]
    /\ UNCHANGED <<refreshed, lag, entry, sources, panel, label, snap>>

-----------------------------------------------------------------------------
(* latest_refresh_timestamp                                                *)

Unread(r) == {v \in sources[r] : label[r][v] = None}

\* The call returns value for its view: on to the next source, the rows, or
\* the response.
Labelled(r, v, value) ==
    /\ label' = [label EXCEPT ![r][v] = value]
    /\ cur' = [cur EXCEPT ![r] = None]
    /\ Goto(r, IF Unread(r) # {v} THEN "asof" ELSE IF panel[r] THEN "done" ELSE "rows")

\* if key in _cache
Check(r, v) ==
    /\ Quiet /\ pc[r] = "asof" /\ v \in Unread(r)
    /\ cur' = [cur EXCEPT ![r] = v]
    /\ Goto(r, IF Live(v) THEN "get" ELSE "wait")
    /\ UNCHANGED <<refreshed, lag, entry, lock, sources, panel, asked, patience, label, snap>>

\* Mutant: a hit renews the entry.
GetSliding(r) ==
    /\ pc[r] = "get" /\ Live(cur[r])
    /\ Labelled(r, cur[r], entry[cur[r]].val)
    /\ entry' = [entry EXCEPT ![cur[r]].left = TTL]
    /\ UNCHANGED <<refreshed, lag, lock, sources, panel, asked, patience, snap>>

\* return _cache[key]: TTLCache tests the entry's age again and raises
\* KeyError on an expired one.
Get(r) ==
    /\ pc[r] = "get"
    /\ \/ Live(cur[r]) /\ Labelled(r, cur[r], entry[cur[r]].val)
       \/ ~Live(cur[r]) /\ Goto(r, "keyerror")
          /\ cur' = [cur EXCEPT ![r] = None] /\ UNCHANGED label
    /\ UNCHANGED <<refreshed, lag, entry, lock, sources, panel, asked, patience, snap>>

\* Mutant: no second cache test inside the lock.
EnterUnchecked(r) ==
    /\ Quiet /\ pc[r] = "wait" /\ lock[cur[r]] = None
    /\ Goto(r, "query")
    /\ lock' = [lock EXCEPT ![cur[r]] = r]
    /\ patience' = [patience EXCEPT ![r] = MaxQuery]
    /\ UNCHANGED <<refreshed, lag, entry, sources, panel, cur, asked, label, snap>>

\* The lock is free: the second cache test, inside it.
Enter(r) ==
    /\ Quiet /\ pc[r] = "wait" /\ lock[cur[r]] = None
    /\ \/ Live(cur[r]) /\ Goto(r, "get") /\ UNCHANGED <<lock, patience>>
       \/ ~Live(cur[r]) /\ Goto(r, "query")
          /\ lock' = [lock EXCEPT ![cur[r]] = r]
          /\ patience' = [patience EXCEPT ![r] = MaxQuery]
    /\ UNCHANGED <<refreshed, lag, entry, sources, panel, cur, asked, label, snap>>

\* The database evaluates the query ...
Answer(r) ==
    /\ Quiet /\ pc[r] = "query"
    /\ asked' = [asked EXCEPT ![r] = refreshed[cur[r]]]
    /\ Goto(r, "answer")
    /\ UNCHANGED <<refreshed, lag, entry, lock, sources, panel, cur, patience, label, snap>>

\* ... and its answer, possibly out of date by now, is cached and returned.
Store(r) ==
    /\ Quiet /\ pc[r] = "answer"
    /\ entry' = [entry EXCEPT ![cur[r]] = [val |-> asked[r], left |-> TTL]]
    /\ lock' = [lock EXCEPT ![cur[r]] = None]
    /\ Labelled(r, cur[r], asked[r])
    /\ asked' = [asked EXCEPT ![r] = 0] /\ patience' = [patience EXCEPT ![r] = 0]
    /\ UNCHANGED <<refreshed, lag, sources, panel, snap>>

-----------------------------------------------------------------------------
(* Environment                                                             *)

\* A refresh of a view finishes: new rows and new refresh time at once.
Refresh(v) ==
    /\ Latest < MaxRefreshes
    /\ refreshed' = [refreshed EXCEPT ![v] = Latest + 1]
    /\ lag' = [lag EXCEPT ![v] = 0]
    /\ UNCHANGED <<entry, lock, reqVars>>

Less(n) == IF n = 0 THEN 0 ELSE n - 1

Tick ==
    /\ \A r \in Requests : pc[r] \in Querying => patience[r] > 0
    /\ lag' = [v \in Views |-> Min({lag[v] + 1, Overdue})]
    /\ entry' = [v \in Views |-> IF Live(v) /\ entry[v].left > 1
                                 THEN [entry[v] EXCEPT !.left = @ - 1] ELSE None]
    /\ patience' = [r \in Requests |-> Less(patience[r])]
    /\ UNCHANGED <<refreshed, lock, pc, sources, panel, cur, asked, label, snap>>

RequestStep(r) ==
    \/ \E v \in Views : Check(r, v)
    \/ FetchRows(r) \/ Get(r) \/ Enter(r) \/ Answer(r) \/ Store(r)

Next ==
    \/ \E r \in Requests :
          \/ \E S \in SUBSET Views \ {{}}, isPanel \in BOOLEAN : Begin(r, S, isPanel)
          \/ RequestStep(r) \/ Fails(r)
    \/ \E v \in Views : Refresh(v)
    \/ Tick

Spec == Init /\ [][Next]_vars

-----------------------------------------------------------------------------
(* Properties                                                              *)

\* Mutant: the response claims its freshest source.
AsOfFreshest(r) == Max({label[r][v] : v \in sources[r]})

\* The response's as_of: "only as fresh as the staler one", None (0 here)
\* when a source was never refreshed.
AsOf(r) == Min({label[r][v] : v \in sources[r]})

\* "Freshness first": a refresh landing mid-request labels newer rows with
\* the older as_of, "so the next sync re-sends them rather than skipping
\* them".  No record response is labelled fresher than any view it read.
RecordsNeverLookFresher ==
    \A r \in Requests : pc[r] = "done" /\ ~panel[r] =>
        \A v \in sources[r] : AsOf(r) <= snap[r][v]

\* The lock "serializes the cold-cache case onto a single query": while one
\* is in flight for a view, nothing usable is cached and nobody else asks.
OneQueryWhenCold ==
    \A r \in Requests : pc[r] \in Querying =>
        /\ ~Live(cur[r])
        /\ \A s \in Requests \ {r} : pc[s] \in Querying => cur[s] # cur[r]

\* The cache understates freshness for its TTL and no longer: a refresh older
\* than TTL plus one query is what every call reports.
StaleStep ==
    \A r \in Requests, v \in Views :
        label'[r][v] # label[r][v] /\ label'[r][v] \notin {None, refreshed[v]}
        => lag[v] <= TTL + MaxQuery
StalenessBounded == [][StaleStep]_vars

\* "The freshness a manager sees always matches the data in that panel": a
\* panel never looks fresher than the rows in it.
PanelNeverLooksFresher ==
    \A r \in Requests : pc[r] = "done" /\ panel[r] =>
        \A v \in sources[r] : AsOf(r) <= snap[r][v]
=============================================================================
