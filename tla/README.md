# A TLA+ verification of ol-analytics-api

ol-analytics-api is a FastAPI service on one asyncio event loop. It serves B2B
analytics out of StarRocks to two tenants, `b2b_dashboard` (aggregates for
organization managers, under a k-anonymity floor) and `b2b_learner_records`
(individual records for contracted partners). Paths below are relative to
`src/ol_analytics_api/` of the repository.

## 1. Inventory

| Part | State it keeps | Operations | What makes it correct |
|---|---|---|---|
| Connection pool, `core/db/client.py` | `_pool` | start, stop, rotate, cursor | a rotation refuses nobody, leaks no pool, closes none under its users |
| Root lifespan, `main.py` | the refresh task, the tenant stack | startup, shutdown | tenants live within the pool; shutdown ends |
| Credential refresh, `main.py`, `core/db/vault_credentials.py` | sleep interval, lease | sleep, fetch, rotate, retry | the published lease is always alive |
| JWKS cache, `b2b_learner_records/token.py` | key set, fetch time, two cooldowns, lock | signing_key | one fetch for those who wait; one timeout per call; refusals on evidence |
| Anonymization floor, `core/anonymization.py` | none (policies are fixed at import) | validate a policy, suppress a row | no published count, complement or derived value below the floor |
| Cross-grain guard, `core/anonymization.py`, dashboard `routers/organizations.py` | none | scan, hide, blank | nothing the finer grain withholds is recoverable |
| as_of, `core/db/refresh_metadata.py` and the routers | TTL cache, lock per view | latest_refresh_timestamp | no response looks fresher than its rows |
| Dashboard authorization, `b2b_dashboard/auth.py`, `mitxonline_client.py` | service token, token lock, answer cache | require_org_manager, require_org_loaded, require_contract_in_org | revocation takes effect; no answer is made up; a retry is made with a new token |
| Learner-records sync, `b2b_learner_records/routers`, `queries.py` | log-start cache | updated_since windows, removed records, rollups | an upsert-only client misses no change and no removal |
| Consent gate, `core/consent.py`, `b2b_learner_records/queries.py` | none | a row's decision, a rollup's decision | outcomes appear, in no way at all, without a decision that shares them |
| Token claims and grants, `b2b_learner_records/token.py`, `auth.py` | none | verified_claims, require_organization_grant | fail closed |
| Learner directory, needs attention, panels, admin, `b2b_dashboard` | none | page, count, filters, floor, pinned date | page, count and tile describe the same rows; a walk misses nothing |
| Health, `core/health.py` | registered checks | probes | a tenant's upstream cannot fail the pod |
| SQL text, OpenAPI, settings, observability | – | – | not a subject of model checking |

Every request reads through the pool. The lifespan owns the pool and the refresh
task and enters the tenants; the refresh task rotates the pool under the running
requests. The dashboard's requests pass authorization (MITx Online, then the
warehouse), then read rows, the refresh time and a count in separate statements,
and put the rows through the floor. The partners' requests pass the JWKS cache,
then the retention and change-log checks, and read as_of, a page and a count of
views that are refreshed, and stamped in their change logs, behind their back.

What is hard is what happens at an `await`: between reading shared state and
using it, other tasks run, views refresh, keys rotate, roles change, leases run
out. `PROJECT.json` lists these hazards line by line.

## 2. Modules

One module per component, an `MC...` module with the instance for TLC (and its symmetry), and
the proofs in a module of their own. Operators that a comment introduces with
"Mutant" are deliberately broken variants of the definition that follows; no
specification uses them.

**StarRocksPool** composes the lifespan (`phase`, `entered`), the refresh task
(`task`, `old`), the pools (`made`, `current`, `closing`, `closed`, `idle`,
`used`) and the requests in `cursor()` (`pc`, `local`, `result`). A step is the
code between two suspending awaits: `Rotate` is the swap and the close of the
old pool, because nothing suspends between them; `Checkout` reads `_pool` and
enters `pool.acquire()`. Cancellation strikes the task in whatever await it is.

**CredentialRefresh** has the same loop as a timed automaton. Time is what
remains (`timer` of the await, `ttl` of the lease), so it needs no bound.
`Horizon` is the longest time from the issue of a lease to the publication of its
successor; the named assumption says that it fits into the lease.

**JWKSCache** has any number of tasks in `signing_key()`, with the lock's FIFO
queue. `_fetched_at` is only compared with an earlier reading of itself, so
`advanced` keeps the set of waiters whose reading is out of date; ages and
cooldowns are durations. Two history sets remember what the code does not:
`outlasted`, the tasks that were in a load when another's fetch ended, and
`stalled`, the calls that have sat through a failed fetch.

**Disclosure** holds the tests on one count or one pair. **CohortSuppression**
takes a declaration through `__post_init__` (walking each cohort's containers as
`_ancestors` does) and then rows through `suppress_small_cohorts`. The pairs are
visited in any order, so the results do not depend on how a policy is spelled.
**CrossGrainGuard** is the `/engagement-trend` endpoint over both grains, with
one column of each sort: the gate, a cohort without derived columns, a cohort
inside it and the total derived from that.

**AsOfFreshness** has the cached refresh time and two kinds of endpoint: panels
(rows, then as_of) and records (as_of of each source, then rows).
**OrgManagerAuth** has the MITx Online client with its token, lock, retry and
cache, and the two warehouse gates; the history `struck` has the requests whose
second token was revoked on its way. In the client and in AsOfFreshness, time may pass between
`key in cache` and `cache[key]`, since cachetools reads the clock in each; no
other task runs there (`Quiet`).

**LearnerRecordsSync** is the incremental sync of `/learners` and `/enrollments`:
the refusals (`WithinRetention`, `Covered` with the cached log start), `as_of` of
one or two views, the page and the count statement, and a client that follows the
published contract (sync from the last `as_of`, restart when it changes between
pages, reload in full when refused). The client syncs one of four collections;
they differ in the rows a record is built from (`Reads`), those that put it there
(`Holds`) and where its `changed_on` comes from (`LiveOn`, `RemovedOn`). The
views and their change logs belong to another repository; `Refresh`, `Stamp`,
`Rebuild` and `Purge` are what `queries.py` relies on, and are marked external.
**PartnerReplica** is the abstract specification: a collection, a copy, and a
debt that contains every difference. `Replica` in LearnerRecordsSync instantiates
it, with `truth` the records a full read returns and `owed` what a sync from the
client's cursor would still bring (`Owed`).

**ConsentGate** has the decision of a row and of a rollup. **DashboardRequests**
has the dashboard's read endpoints as sets over the rows of one view: what
`_records`, `_where` and `_projection` select and show, the needs-attention
aggregate, the panels' `build_select` and `build_count`, each endpoint's page and
count in two round trips with the date resolved before the first (the admin list
reads its clock after the rows), and a client that walks the pages by
`total_count`. The rollup decision of the records tenant is checked here, where
two views refresh at different times.

## 3. Runs

| Run | Shows | Instance |
|---|---|---|
| StarRocksPool | the pool's and the lifespan's safety; drains and shutdown end | 3 requests, 4 pools of size 1–2, 2 tenants |
| CredentialRefresh | the lease never runs out, and is renewed for ever | units of 15 s, deployed intervals and timeouts (two Vault calls of 30 s a fetch), leases of 30 and 60 min, one failure per cycle |
| JWKSCache | one fetch for all who wait, one timeout per call, spacing, evidence, stale keys; every call returns | 3 tasks, 2 kids |
| CohortSuppression | the floor, its causes; validation ends, accepts partial orders with all their pairs and rejects cycles only | all declarations over 3 secondary cohorts, malformed and cyclic ones too, counts up to twice the floor |
| CrossGrainGuard | totals and cohorts not recoverable; no needless blanking | 2 contracts, 2 months, counts 0, 1, floor, above; limits below and above the row count |
| AsOfFreshness | records never look fresher; one cold query; bounded staleness | 2 requests, 2 views, 2 refreshes |
| OrgManagerAuth | cached answers are real, a retry has a live token, revocation | 2 requests, each of a member, an outsider or an account without a `sub` |
| LearnerRecordsSync | the sync implements PartnerReplica; the copy converges | an enrollment that is re-keyed and purged, and a roster of two on two pages; 2 refreshes, 1 recreated log |
| LearnerRecordsSync_rollup | no record is silently wrong over two views; the stale start's window is bounded | one learner, two keys of an enrollment, the rollups of a contract and of everything, 1 failed request |
| DashboardRequests | page, count, tile and directory agree; walks are complete; withheld outcomes are invisible; rollups share just when all decisions do | 6 rows, 3 contracts, 12 requests, answers compared at offsets 0, 1 and 3, both settings of `consent_fail_open`, midnight and a refresh at any step |

The bounds are chosen for the interesting cases: a rotation during the drain of
its predecessor needs three pools, and a fourth shows that nothing accumulates;
three requests fill a pool of two and leave a waiter; two waiters behind a fetch
need three tasks; a chain of containment with a branch needs three secondary
cohorts; recovering a hidden value by subtraction needs two contracts. TTLs and
cooldowns are a few ticks and differ from one another, so that the order in
which they run out is not fixed.

In LearnerRecordsSync two ticks make a second, so a refresh falls on or between
two stamps; retention, the cached start and a request last one tick (retention
four in the rollup run, so that cursors survive a second view's refresh), and
each collection has a horizon of its own (`SingleViewHorizon`, `RollupHorizon`):
five ticks reach a purge and a stale start for one view, two suffice for two
views to be refreshed, stamped and read in different seconds. In
DashboardRequests contracts below the floor precede one above it, a learner has
two enrollments, two accounts have no id, and a row becomes quiet tomorrow.

Two runs refute what the repository says of itself:

* **AsOfFreshness_panel**: "the freshness a manager sees always matches the data
  in that panel" – the panels read as_of after the rows, so a refresh in between
  labels old rows with the new time. The records endpoints read it first, and
  `RecordsNeverLookFresher` holds for them.
* **LearnerRecordsSync_paging**: "Paging is stable within one refresh [...] If
  `as_of` changes between pages, restart from offset 0" – as_of is cached for
  five minutes, so a refresh between two pages, or between a page and its count,
  need not change it. In the run's trace the refresh removes the record of the
  first page before the count is taken; the count says there is nothing more, and
  the client ends with a cursor from which the second, unchanged record is never
  sent. `NothingLost` and `ImplementsReplica` therefore say nothing about
  copies made of pages of different listings (`torn`), nor of copies read from a log younger than
  the cursor (`young`), a window the code's comment admits and
  `StaleStartBounded` bounds.

### Observations

Met while modelling, in the models as outcomes, and no property of a run:

* `b2b_learner_records/token.py:178-180` says that no await lies between reading
  the cooldown and setting it; `_load(force=True)` does. `RefetchesSpaced` shows
  that the test inside the lock still keeps the refetches apart, which is what
  the comment wants.
* `core/db/refresh_metadata.py:70-75`, `mitxonline_client.py:158-159` and the
  log-start cache test `key in cache` and then read it; an entry that expires in
  between raises KeyError.
* `mitxonline_client.py:107`: a token response without a token raises
  RuntimeError, and a body that is not JSON ValueError; the caller catches
  neither, although lines 112-114 say that the other paths degrade.
* `b2b_dashboard/models.py:80`: clients are to compare `total_count` with
  `len(data)` plus the offset. The panels drop sub-floor rows after the LIMIT, so
  with pages of one a client that meets two hidden rows before a visible one stops
  after the first, empty page: one row in total, offset one. `learner_queries.py:512-524` explains this and
  avoids it for the tile; `WalkComplete` checks it there, and for the panels only
  that the total is the number of visible rows.

### Fairness

Liveness is checked under weak fairness of the service's own steps:
the event loop runs ready tasks in turn, and `asyncio.Lock` is first come first
served. That an awaited call ends is justified by `connect_timeout`, the acquire
timeout, the HTTP clients' timeouts and StarRocks' `query_timeout`. The last is
enforced by the server: if the peer vanishes without closing the socket, the
reader has no timeout of its own and `DrainCompletes` does not hold. Nobody is
obliged to send requests, to shut down, to rotate keys or to answer.
LearnerRecordsSync assumes besides that a refresh is stamped in the end and that
a partner keeps syncing; refreshes and failures are bounded, so that the
warehouse becomes quiet and `EventuallyConsistent` has something to converge to.

## 4. Proofs

TLAPS proves, for every value of the constants that the named assumptions admit:

* **StarRocksPoolProofs** – all safety properties of the pool, and that a handover
  publishes the new pool and closes the old one in one step (`AtomicHandover`).
  The properties are not inductive: that a rotation
  closes the right pool depends on which pool is published in which phase
  (`LifespanTracksPool`), that a drain is complete on the draining pool being the
  newest's predecessor (`DrainsFollowHandover`), and that a request never
  releases into the void on `RequestsNamePools` and `CheckoutsBalance`. `IndInv`
  is their conjunction with the properties; there is one lemma for the lifespan's steps, one for the
  task's, one for the requests' and one for the driver's. `AtMostTwoPoolsConnected`
  rests besides on pools not yet made being empty (`UnmadePoolsStayEmpty`): the
  pools with connections are among the newest and its predecessor. Assumes
  `PoolAssumption` (sizes are naturals).
* **CredentialRefreshProofs** – `PublishedLeaseAlive` from
  `LeaseOutlivesRefresh`, which bounds in each await what may still come before
  the lease is replaced. Assumes `TimingAssumption`, whose last conjunct is the
  real condition on a deployment: the slowest refresh fits into the lease. A
  lease of five minutes with the deployed intervals, for instance, does not, and
  half an hour has half a minute to spare if every call takes as long as it may.
* **JWKSCacheProofs** – every safety property of the cache, for any number of
  tasks. What carries the proof is the lock's order of service: when a fetch
  succeeds it makes the readings of all waiters out of date, and these waiters
  are at the front of the queue, so they are served before anybody can fetch and
  before time passes (`Riders`, over `QueueIsWaiters`). Hence a forced load that
  really fetches was admitted after the cooldown of the last miss was over
  (`CooldownCoversMiss`), which is what `RefetchesSpaced` and
  `RefusalHasEvidence` need. `HistoryInv` adds that nobody holds the lock while
  a task is left that saw a fetch end, and why such a task cannot start another:
  after a success its reading is out of date, after a failure the cooldown runs.
  `OneFetchPerBurst` and `OneTimeoutPerCall` follow. Lemmas say what taking the first waiter, appending
  one and removing a cancelled one do to the queue.
* **DisclosureProofs** – core/anonymization.py. For CohortSuppression:
  transitivity and strictness of the pairs, that only cycles are rejected (`CycleInv`:
  a walk that stands on a container has come through nothing but contained cohorts), the floor, derived values, one-pass
  settlement and cause, for any set of cohorts, any declarations, rows, floor and
  visiting order. `SuppressionInv` has a part for the walk (what each pair reached
  so far means), one for the loop (every pair already visited in this pass is
  harmless, every suppressed cohort has a cause) and one for the published row.
  For CrossGrainGuard: its three properties for any contracts, months, counts and
  limit. `GuardInv` says that what is hidden so far covers the rows already scanned
  and that an unscanned row is still to do; that the guard costs nothing where
  nothing is withheld needs the converse, that whatever is hidden comes from a
  scanned row that withheld it (`HiddenIsSourced`). Assumes `SuppressionAssumption`
  and `GrainAssumption`.
* **AsOfFreshnessProofs** – the safety properties of the cached refresh time, for
  any number of requests, views and refreshes. A query in flight has the view's
  lock and finds no live entry (`QueryHasLock`); no entry, answer or label is
  ahead of its view (`NothingAhead`); and what has been overtaken was so no longer
  ago than its age and one query (`BehindBriefly`), from which `StalenessBounded`
  follows. `RowsAfterLabels` is the order of reads that the panels do not keep.
* **OrgManagerAuthProofs** – the cached answers, the revocation bound, the retry
  and the token lock (`MintsOneAtATime`). `RetryCarriesNewToken` rests on
  `SecondTokenNew`: a second attempt carries a token it minted itself, whatever the
  others have put in its place since. `CachedAnswerIsReal` is not
  inductive, since an answer may be overtaken on its way into the cache;
  `LateAnswerIsRecent` bounds how long ago.
* **DashboardRequestsProofs** – all five properties, for any rows, contracts,
  learners, decisions, filters, page sizes and days. Three follow from what the
  statements select. Two need `WalkInv`: as long as the data stays, the page and the
  counts of a request are those of the date it resolved, and the walk has read just
  the entries whose rank is below its offset. The lemmas on ranks do the rest
  without induction, by looking at the least row at or past a place: k rows come
  before it (`LowRanks`), so a first page that is not full holds everything
  (`FirstPageFull`), and a page from which the total leaves nothing is the last
  (`LastPage`). `PageIs` is where the tile's HAVING clause matters: the floor
  applied to the page removes nothing that is left. Assumes `RequestsAssumption`,
  which types the views and says that only learner-progress takes
  `include_inactive`; with it on `/learners`, a learner with inactive enrollments
  alone would be listed with none, and count as withheld.
* **LearnerRecordsSyncProofs** – the incremental sync, for any rows, page size,
  retention, clock resolution and any interleaving; see below.

### The sync

`NothingIsLost` and `ReplicaImplemented` are the project's main results: for every
collection, no record of a partner's copy is silently wrong, and service and client
together implement PartnerReplica. The invariant (`SyncInvariant`) has four layers.

1. `IndInv`: what each place of a request has established, that a log holds
   nothing older than its seed, and how old the log starts are that the service
   goes by. `StaleStartBounded` follows from it alone.
2. `TimesLegit`: no as_of, cached, collected or handed out, is ahead of the views
   it speaks for; so a later refresh is stamped at or after any cursor in force.
3. `LogsOrdered`: an identity has one live row and one logged key, and a
   refresh that is not yet stamped will be stamped no earlier than anything in
   the log.
4. `CopyRight`: a value is `Right` for a cursor t when it is the record, or some
   row that decides the record has `Moved` since t (so the next sync sends it),
   or t has `Lapsed` (so the next sync is refused). What the client received is
   right for the cursor the sync will leave, what it was not sent although the
   listing has ended is right as it stands, and so is what it holds.

Every step of the world keeps `Right` for all times that are not ahead
(`Kept`, lemma `StillRight`): a refresh makes the row moved, a stamp keeps it
so, a rebuild or a purge lapses the cursor. A page is taken in an instant, so
what it sends is the record (`FetchPageRight`), and the rounding of the window
(`WholeSecond`) never cuts off a moved row (`SelectedMoved`). The last page turns
the received records into the copy (`RespondRight`). The refinement then has two
obligations: a refresh owes what it changes (`RefreshPublishes`), and a sync
changes only what was owed (`OnlyOwedChanges`).

The proof needed one condition that the runs had not shown: with a `StartTTL` of
zero the bound of `StaleStartBounded` is too small by one tick. `SyncAssumption` now
says that the TTL is positive; the code's is 300 seconds.

`WindowsMeet` is about `updated_before`, which the client of the model does not
use: the windows [a, b) and [b, c) of a partitioned backfill between them send
every record of [a, c), whatever fraction of a second b has.

### What is only model-checked

The type invariants of the proved modules are part of their inductive invariants,
as is `TenantsWithinPool`; the runs do not repeat them. Left to TLC are

* liveness, which is outside the prover's reach: `DrainCompletes`, the shutdown's
  end, the renewal of the lease, the return of every `signing_key()`, the end of
  the ancestor walk, `EventuallyConsistent`;
* the two refuted claims of section 3, of which a counterexample is the point.

The proofs changed the models where these could not be reasoned about. The decision
of a rollup was a CASE with two guards true at once (a pending answer in one view
beside a decline in the other), which TLC takes in order and the logic does not;
it is an IF now, as SQL's CASE is. The records' `StartTTL` is assumed positive.
Assumptions gained the types of the views and the distinctness of the null values.

## 5. Assumptions about what is not in the repository

* aiomysql: `acquire()` on a closing pool raises at entry; a connection released
  into a closing pool is closed; `wait_closed()` drops the free connections at
  once and returns when none is in use and every acquirer queued before was
  served. Its internal wake-ups are not modelled.
* asyncio (Python 3.12 and later): `wait_for` awaits in the caller's task; a
  `Lock` serves waiters in order; cancellation arrives at the current await.
* cachetools: an expired entry is absent for `in` and raises on `[]`.
* StarRocks publishes a refresh's rows and its time together.
* Keycloak and MITx Online may do anything, but a call ends: for MITx Online
  within `MaxCheck`, although httpx applies its timeout to each operation of a
  call rather than to the whole.
* One user and one organization in OrgManagerAuth: the cache key keeps users
  apart, and its 10,000-entry limit is not reached.
* ol-data-platform, as `queries.py` describes it: a view is refreshed only after
  its last refresh is stamped; a stamp's time lies between the end of the refresh
  and the moment its rows appear, in whole seconds; a log is recreated in a later
  second than the view's last refresh; tombstones outlive `Retention` by a request
  and a second (`PurgeAge`); an identity has at most one live row, and a learner's
  rows keep their key across the two views.
* A learner has one decision per contract, the same in all rows of it, and the
  cached as_of may be of any age (AsOfFreshness bounds it).

## 6. Not modelled, and the plan

SQL text, response formatting, settings, logging, tracing and the OpenAPI export
are left out: they keep no state. So are the token's claim checks and the
organization grant (stateless, refusing on every doubt), the probes, and
`/courses`, a catalog read that shares only the window with the other records.
What aiomysql does with a half-filled pool when `create_pool()` is cancelled, and
whether it wakes its waiters, is inside the driver. The guard's scan and the
organization query are two statements in the code and one moment in the model.
A change of `consent_fail_open` between two deployments changes bodies that no
change log takes note of; the model has one setting for ever.

Every safety property that a run checks is now a theorem. Left for proofs:

1. the step from `PanelCount` to a client's walk of a panel, which does not hold
   (section 3) and would need a published rule that it does hold for;
2. `WindowsMeet` lifted to a whole backfill: a client that reads the windows of any
   partition, with removed records, ends with what one open window sends.
