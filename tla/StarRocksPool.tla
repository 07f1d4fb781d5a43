--------------------------- MODULE StarRocksPool ---------------------------
(***************************************************************************)
(* The StarRocks connection pool (core/db/client.py) and the code that     *)
(* starts, rotates and stops it (main.py): the root lifespan, the          *)
(* credential refresh task it spawns, the tenant lifespans it enters, and  *)
(* the request tasks that check connections out through cursor().          *)
(*                                                                         *)
(* Everything runs on one asyncio event loop, so a step of the model is    *)
(* the code between two awaits that can suspend.  Requires-python is       *)
(* >= 3.12, where asyncio.wait_for awaits in the caller's task: reading    *)
(* self._pool and entering pool.acquire() happen without a suspension.     *)
(*                                                                         *)
(* A pool is numbered in the order the process creates it.  Connections    *)
(* are counted, not named: used[p] holds the requests with a connection    *)
(* checked out of p, idle[p] the connections waiting in p's free list.     *)
(* The timing of the refresh loop is the subject of CredentialRefresh.     *)
(***************************************************************************)
EXTENDS Naturals, FiniteSets

CONSTANTS
    Requests,    \* tasks that query StarRocks: endpoints, dependencies, probes
    MaxPools,    \* bound: pools one process creates (1 at startup + rotations)
    MaxSize,     \* settings.starrocks_pool_max_size
    MinSize,     \* settings.starrocks_pool_min_size
    NumTenants   \* registered tenants that have a lifespan of their own

ASSUME PoolAssumption ==
    /\ MaxPools \in Nat \ {0}
    /\ MaxSize \in Nat \ {0}
    /\ MinSize \in 0..MaxSize
    /\ NumTenants \in Nat

VARIABLES
    phase,       \* where lifespan() is
    entered,     \* how many tenant lifespans the AsyncExitStack holds
    task,        \* where the refresh task is; "none" when never spawned
    old,         \* rotate()'s old_pool while it is awaited, else 0
    made,        \* number of pools created so far
    current,     \* StarRocksPool._pool; 0 stands for None
    closing,     \* pools on which close() was called
    closed,      \* pools whose wait_closed() returned
    idle,        \* idle[p]: free connections of pool p
    used,        \* used[p]: requests holding a connection of pool p
    pc,          \* where each request is in cursor()
    local,       \* cursor()'s local variable pool; 0 when it has none
    result       \* how the request's last cursor() ended

lifespanVars == <<phase, entered>>
taskVars     == <<task, old>>
poolVars     == <<made, current, closing, closed, idle, used>>
requestVars  == <<pc, local, result>>
vars == <<lifespanVars, taskVars, poolVars, requestVars>>

Pools == 1..MaxPools

Phases == {"resolving", "starting", "entering", "serving", "unwinding",
           "cancelling", "stop", "stopping", "stopped", "failed"}

TaskStates == {"none", "sleeping", "fetching", "creating", "draining", "done"}

Results == {"none", "ok", "error", "timeout", "plaintext", "refused",
            "unstarted"}

\* One type invariant for the module.
TypeOK ==
    /\ phase \in Phases
    /\ entered \in 0..NumTenants
    /\ task \in TaskStates
    /\ old \in 0..MaxPools
    /\ made \in 0..MaxPools
    /\ current \in 0..MaxPools
    /\ closing \in SUBSET Pools
    /\ closed \in SUBSET Pools
    /\ idle \in [Pools -> Nat]
    /\ used \in [Pools -> SUBSET Requests]
    /\ pc \in [Requests -> {"out", "waiting", "holding"}]
    /\ local \in [Requests -> 0..MaxPools]
    /\ result \in [Requests -> Results]

Init ==
    /\ phase = "resolving" /\ entered = 0
    /\ task = "none" /\ old = 0
    /\ made = 0 /\ current = 0
    /\ closing = {} /\ closed = {}
    /\ idle = [p \in Pools |-> 0]
    /\ used = [p \in Pools |-> {}]
    /\ pc = [r \in Requests |-> "out"]
    /\ local = [r \in Requests |-> 0]
    /\ result = [r \in Requests |-> "none"]

-----------------------------------------------------------------------------
(* aiomysql.Pool, as client.py uses it.                                    *)

Waiters(p) == {r \in Requests : pc[r] = "waiting" /\ local[r] = p}

\* close() followed by the synchronous head of wait_closed(): the pool
\* refuses new checkouts and its free connections are closed.
ClosePool(p) ==
    /\ closing' = closing \cup {p}
    /\ idle' = [idle EXCEPT ![p] = 0]

\* Mutant: wait_closed() is not awaited.
DrainedAtOnce(p) == p \in Pools

\* wait_closed() returns: every checked-out connection came back, and every
\* acquire() that was queued before close() has been served or gave up.
Drained(p) == used[p] = {} /\ Waiters(p) = {}

\* _create_pool() returns: a new pool filled to its minimum size.
CreatePool(p) ==
    /\ p \in Pools
    /\ made' = p
    /\ current' = p

-----------------------------------------------------------------------------
(* lifespan()                                                              *)

\* _resolve_starrocks_credentials() at startup returns or raises.
ResolveCredentials ==
    /\ phase = "resolving"
    /\ phase' \in {"starting", "failed"}
    /\ UNCHANGED <<entered, taskVars, poolVars, requestVars>>

\* starrocks_pool.start() and the spawn of the refresh task, which only
\* credentials with a lease get; a failed start is raised before the try.
Start ==
    /\ phase = "starting"
    /\ \/ /\ phase' = "entering"
          /\ CreatePool(made + 1)
          /\ idle' = [idle EXCEPT ![made + 1] = MinSize]
          /\ task' \in {"none", "sleeping"}
       \/ /\ phase' = "failed"
          /\ UNCHANGED <<task, made, current, idle>>
    /\ UNCHANGED <<entered, old, closing, closed, used, requestVars>>

\* tenant_stack.enter_async_context() for the next tenant; one that raises
\* unwinds the tenants already entered.
EnterTenant ==
    /\ phase = "entering"
    /\ \/ /\ entered < NumTenants
          /\ entered' = entered + 1
          /\ UNCHANGED phase
       \/ /\ entered < NumTenants
          /\ phase' = "unwinding"
          /\ UNCHANGED entered
       \/ /\ entered = NumTenants
          /\ phase' = "serving"
          /\ UNCHANGED entered
    /\ UNCHANGED <<taskVars, poolVars, requestVars>>

\* The server ends the yield: lifespan.shutdown.
Shutdown ==
    /\ phase = "serving"
    /\ phase' = "unwinding"
    /\ UNCHANGED <<entered, taskVars, poolVars, requestVars>>

\* Mutants: the stack pops one tenant too many; the refresh task is not
\* cancelled.
ExitOneTooMany ==
    /\ phase = "unwinding"
    /\ entered' = entered - 1
    /\ UNCHANGED <<phase, taskVars, poolVars, requestVars>>

ExitWithoutCancel ==
    /\ phase = "unwinding"
    /\ \/ entered > 0 /\ entered' = entered - 1 /\ UNCHANGED phase
       \/ entered = 0 /\ phase' = "stop" /\ UNCHANGED entered
    /\ UNCHANGED <<taskVars, poolVars, requestVars>>

\* The AsyncExitStack exits the tenants in reverse; when it is empty the
\* inner finally cancels the refresh task, or has none to cancel.
ExitTenant ==
    /\ phase = "unwinding"
    /\ \/ entered > 0 /\ entered' = entered - 1 /\ UNCHANGED phase
       \/ /\ entered = 0
          /\ phase' = IF task = "none" THEN "stop" ELSE "cancelling"
          /\ UNCHANGED entered
    /\ UNCHANGED <<taskVars, poolVars, requestVars>>

\* Mutant: the task is awaited but never cancelled.
AwaitWithoutCancel ==
    /\ phase = "cancelling"
    /\ task = "done"
    /\ phase' = "stop"
    /\ UNCHANGED <<entered, taskVars, poolVars, requestVars>>

\* refresh_task.cancel() and await refresh_task: CancelledError is raised at
\* the await the task is suspended in, whatever that is, and ends it.  A
\* rotate() interrupted while it creates never swaps; one interrupted while
\* it drains has already swapped and leaves its old pool closing.
CancelRefreshTask ==
    /\ phase = "cancelling"
    /\ task' = "done" /\ old' = 0
    /\ phase' = "stop"
    /\ UNCHANGED <<entered, poolVars, requestVars>>

\* starrocks_pool.stop(), up to its wait_closed().
Stop ==
    /\ phase = "stop"
    /\ IF current = 0
       THEN phase' = "stopped" /\ UNCHANGED <<closing, idle>>
       ELSE phase' = "stopping" /\ ClosePool(current)
    /\ UNCHANGED <<entered, taskVars, made, current, closed, used, requestVars>>

\* stop() resumes from wait_closed() and forgets the pool.
StopDrained ==
    /\ phase = "stopping"
    /\ Drained(current)
    /\ closed' = closed \cup {current}
    /\ current' = 0
    /\ phase' = "stopped"
    /\ UNCHANGED <<entered, taskVars, made, closing, idle, used, requestVars>>

-----------------------------------------------------------------------------
(* _refresh_starrocks_credentials_forever()                                *)

TaskRuns == phase \in {"entering", "serving", "unwinding"}

\* The sleep ends and the task fetches new credentials.
Wake ==
    /\ TaskRuns
    /\ task = "sleeping"
    /\ task' = "fetching"
    /\ UNCHANGED <<lifespanVars, old, poolVars, requestVars>>

\* Mutant: the old pool is closed before its successor exists.
FetchedClosingFirst ==
    /\ TaskRuns
    /\ task = "fetching"
    /\ task' \in {"creating", "sleeping"}
    /\ closing' = IF task' = "creating" THEN closing \cup {current} ELSE closing
    /\ UNCHANGED <<lifespanVars, old, made, current, closed, idle, used, requestVars>>

\* Vault answers with a lease and rotate() starts to create the new pool,
\* or the fetch failed (or returned no lease) and the task sleeps to retry.
Fetched ==
    /\ TaskRuns
    /\ task = "fetching"
    /\ task' \in {"creating", "sleeping"}
    /\ UNCHANGED <<lifespanVars, old, poolVars, requestVars>>

\* Mutant: the old pool is not closed.
RotateLeaky ==
    /\ TaskRuns
    /\ task = "creating"
    /\ CreatePool(made + 1)
    /\ task' = "draining" /\ old' = current
    /\ idle' = [idle EXCEPT ![made + 1] = MinSize]
    /\ UNCHANGED <<lifespanVars, closing, closed, used, requestVars>>

\* rotate() from the return of _create_pool() to wait_closed(): the swap and
\* the close of the old pool are one step.  A pool that cannot be created
\* sends the task back to sleep with the old pool untouched.
Rotate ==
    /\ TaskRuns
    /\ task = "creating"
    /\ \/ /\ CreatePool(made + 1)
          /\ task' = "draining" /\ old' = current
          /\ closing' = closing \cup {current}
          /\ idle' = [idle EXCEPT ![current] = 0, ![made + 1] = MinSize]
       \/ /\ task' = "sleeping"
          /\ UNCHANGED <<old, made, current, closing, idle>>
    /\ UNCHANGED <<lifespanVars, closed, used, requestVars>>

\* Mutant: rotate() does not wait for its old pool.
RotateUnawaited ==
    /\ TaskRuns
    /\ task = "draining"
    /\ task' = "sleeping" /\ old' = 0
    /\ UNCHANGED <<lifespanVars, poolVars, requestVars>>

\* rotate() resumes from wait_closed(); the task sleeps on the new lease.
RotateDrained ==
    /\ TaskRuns
    /\ task = "draining"
    /\ Drained(old)
    /\ closed' = closed \cup {old}
    /\ task' = "sleeping" /\ old' = 0
    /\ UNCHANGED <<lifespanVars, made, current, closing, idle, used, requestVars>>

-----------------------------------------------------------------------------
(* cursor()                                                                *)

\* Requests are admitted once startup completed; what is in flight may still
\* query while the lifespan unwinds.
Admitted == phase \in {"serving", "unwinding", "cancelling", "stop",
                       "stopping", "stopped"}

\* cursor() up to pool.acquire(): None raises, and so does a closing pool.
Checkout(r) ==
    /\ Admitted
    /\ pc[r] = "out"
    /\ IF current = 0
       THEN /\ result' = [result EXCEPT ![r] = "unstarted"]
            /\ UNCHANGED <<pc, local>>
       ELSE IF current \in closing
       THEN /\ result' = [result EXCEPT ![r] = "refused"]
            /\ UNCHANGED <<pc, local>>
       ELSE /\ pc' = [pc EXCEPT ![r] = "waiting"]
            /\ local' = [local EXCEPT ![r] = current]
            /\ result' = [result EXCEPT ![r] = "none"]
    /\ UNCHANGED <<lifespanVars, taskVars, poolVars>>

\* A connection leaves the free list, or is connected while the pool is
\* below its maximum size.
TakeConnection(p) ==
    \/ idle[p] > 0 /\ idle' = [idle EXCEPT ![p] = @ - 1]
    \/ idle[p] = 0 /\ Cardinality(used[p]) < MaxSize /\ UNCHANGED idle

\* acquire() returns a connection and the request queries over it.
Acquire(r) ==
    /\ pc[r] = "waiting"
    /\ TakeConnection(local[r])
    /\ used' = [used EXCEPT ![local[r]] = @ \cup {r}]
    /\ pc' = [pc EXCEPT ![r] = "holding"]
    /\ UNCHANGED <<lifespanVars, taskVars, made, current, closing, closed,
                   local, result>>

\* acquire() returns a connection that did not negotiate TLS: it is closed,
\* released and refused without a suspension in between.
RefusePlaintext(r) ==
    /\ pc[r] = "waiting"
    /\ TakeConnection(local[r])
    /\ pc' = [pc EXCEPT ![r] = "out"]
    /\ local' = [local EXCEPT ![r] = 0]
    /\ result' = [result EXCEPT ![r] = "plaintext"]
    /\ UNCHANGED <<lifespanVars, taskVars, made, current, closing, closed, used>>

\* wait_for() expires, the connection attempt fails, or the request itself
\* is cancelled while it waits.
AcquireFails(r) ==
    /\ pc[r] = "waiting"
    /\ pc' = [pc EXCEPT ![r] = "out"]
    /\ local' = [local EXCEPT ![r] = 0]
    /\ \E why \in {"timeout", "error"} : result' = [result EXCEPT ![r] = why]
    /\ UNCHANGED <<lifespanVars, taskVars, poolVars>>

\* Mutant: no finally, so a connection is never given back.
ReleaseForgotten(r) ==
    /\ pc[r] = "holding"
    /\ result' = [result EXCEPT ![r] = "error"]
    /\ pc' = [pc EXCEPT ![r] = "out"] /\ local' = [local EXCEPT ![r] = 0]
    /\ UNCHANGED <<lifespanVars, taskVars, poolVars>>

\* The query succeeds or raises and the finally clause runs: the connection
\* goes back to the pool it came from, which keeps it unless it is closing.
Release(r) ==
    LET p == local[r] IN
    /\ pc[r] = "holding"
    /\ \E why \in {"ok", "error"} : result' = [result EXCEPT ![r] = why]
    /\ idle' = IF p \in closing THEN idle ELSE [idle EXCEPT ![p] = @ + 1]
    /\ used' = [used EXCEPT ![p] = @ \ {r}]
    /\ pc' = [pc EXCEPT ![r] = "out"]
    /\ local' = [local EXCEPT ![r] = 0]
    /\ UNCHANGED <<lifespanVars, taskVars, made, current, closing, closed>>

\* aiomysql drops an idle connection past pool_recycle or at end of file.
Recycle(p) ==
    /\ idle[p] > 0
    /\ idle' = [idle EXCEPT ![p] = @ - 1]
    /\ UNCHANGED <<lifespanVars, taskVars, made, current, closing, closed,
                   used, requestVars>>

-----------------------------------------------------------------------------
\* The process exits once startup failed or shutdown completed.
Exited ==
    /\ phase \in {"failed", "stopped"}
    /\ UNCHANGED vars

LifespanStep == \/ ResolveCredentials \/ Start \/ EnterTenant \/ ExitTenant
                \/ CancelRefreshTask \/ Stop \/ StopDrained

TaskStep == Fetched \/ Rotate \/ RotateDrained

Next ==
    \/ LifespanStep \/ Shutdown
    \/ TaskStep \/ Wake
    \/ \E r \in Requests :
          \/ Checkout(r) \/ Acquire(r) \/ RefusePlaintext(r)
          \/ AcquireFails(r) \/ Release(r)
    \/ \E p \in Pools : Recycle(p)
    \/ Exited

(***************************************************************************)
(* Fairness.  The event loop runs what is ready; every operation the       *)
(* lifespan and the task await is bounded (connect_timeout, the Vault      *)
(* client's timeout); wait_for bounds a checkout and query_timeout a       *)
(* query, so a waiting request stops waiting and a holder releases.        *)
(* Nobody has to shut the process down or to send requests.                *)
(***************************************************************************)
Fairness ==
    /\ WF_vars(LifespanStep)
    /\ WF_vars(TaskStep)
    /\ \A r \in Requests : WF_vars(AcquireFails(r)) /\ WF_vars(Release(r))

Spec == Init /\ [][Next]_vars
FairSpec == Spec /\ Fairness

-----------------------------------------------------------------------------
(* Properties                                                              *)

\* rotate()'s promise that "new queries start using the new pool
\* immediately": however a rotation, a failed rotation or a cancelled one
\* interleaves with checkouts, cursor() raises "pool closing" or "start()
\* must be called" only once stop() has run.
NoRefusalBeforeStop ==
    \A r \in Requests :
        result[r] \in {"refused", "unstarted"} => phase \in {"stopping", "stopped"}

\* Every pool but the published one was closed and holds no free connection:
\* no path through rotate(), a failed rotate() or a cancelled one leaves an
\* open pool behind that nobody would ever close.
NoPoolLeaked ==
    \A p \in 1..made : p # current => p \in closing /\ idle[p] = 0

\* A connection is checked out of exactly the pool its request acquired it
\* from, even when the pool was rotated away between acquire and release.
CheckoutsBalance ==
    \A p \in Pools, r \in Requests :
        r \in used[p] <=> (pc[r] = "holding" /\ local[r] = p)

\* "connections already checked out of the old pool finish naturally before
\* it closes": a pool that reports closed has no user and no waiter left.
ClosedPoolsUnused ==
    \A p \in closed, r \in Requests : local[r] # p

\* rotate() awaits its old pool before the task can rotate again, so at most
\* two pools hold StarRocks connections, the one being created included,
\* however slowly queries drain.
AtMostTwoPoolsConnected ==
    Cardinality({p \in Pools : idle[p] > 0 \/ used[p] # {}})
        + (IF task = "creating" THEN 1 ELSE 0) <= 2

\* The comment in lifespan(): tenants unwind "all before the pool stops
\* below, so a tenant can still use the pool while shutting down".
TenantsWithinPool ==
    entered > 0 => current # 0 /\ current \notin closing

\* When shutdown completes the refresh task is over and every pool has been
\* drained, except at most the one whose drain the cancellation interrupted.
StopLeavesAtMostOneUndrained ==
    phase = "stopped" =>
        /\ task \in {"none", "done"}
        /\ (1..made) \ closed \subseteq {made - 1}

\* How the lifespan, the task and the pools depend on one another: which
\* pool is published in which phase, that only its predecessor can be
\* draining, and that no request refers to a pool that does not exist.  With
\* the properties above it is inductive.
LifespanTracksPool ==
    /\ phase \in {"resolving", "starting", "failed"} =>
          made = 0 /\ current = 0 /\ task = "none"
    /\ phase \in {"entering", "serving", "unwinding", "cancelling", "stop"} =>
          made > 0 /\ current = made /\ current \notin closing
    /\ phase = "stopping" =>
          made > 0 /\ current = made /\ current \in closing /\ idle[current] = 0
    /\ phase = "stopped" => made > 0 /\ current = 0
    /\ phase \in {"stop", "stopping", "stopped"} => task \in {"none", "done"}
    /\ phase = "cancelling" \/ TaskRuns => task # "done"
    /\ entered > 0 => phase \in {"entering", "serving", "unwinding"}

DrainsFollowHandover ==
    /\ closing \subseteq 1..made /\ closed \subseteq closing
    /\ task = "draining" => made > 1 /\ old = made - 1
    /\ \A p \in (1..made) \ closed :
          \/ p = made /\ phase # "stopped"
          \/ p = made - 1 /\ (task = "draining" \/ task = "done")

RequestsNamePools ==
    \A r \in Requests :
        /\ local[r] \in 0..made
        /\ pc[r] = "out" <=> local[r] = 0

\* A handover publishes a new open pool and closes the old one in the same
\* step; after a pool is gone from _pool it never comes back.
HandoverStep ==
    current' # current =>
        /\ current' # 0 => current' > made /\ current' \notin closing'
        /\ current # 0 => current \in closing'
AtomicHandover == [][HandoverStep]_vars

\* A drain ends: the refresh task is not stuck in wait_closed() and can
\* rotate again before the next lease expires.
DrainCompletes == (task = "draining") ~> (task # "draining")

\* Once shutdown began, or a tenant failed to start, lifespan() returns.
ShutdownCompletes == (phase = "unwinding") ~> (phase = "stopped")
=============================================================================
