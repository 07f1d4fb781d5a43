------------------------- MODULE CredentialRefresh -------------------------
(***************************************************************************)
(* The timing of _refresh_starrocks_credentials_forever() (main.py): does  *)
(* the process always hold a pool whose Vault lease is still alive?  What  *)
(* rotate() does to pools and requests is StarRocksPool's subject; here    *)
(* the loop is its awaits, each with the longest time it may take.         *)
(*                                                                         *)
(* Time is discrete, and kept as the time REMAINING, so that it needs no   *)
(* bound: timer counts down what is left of the await the loop is in, ttl  *)
(* the lease of the published pool, newTtl the lease just fetched.         *)
(***************************************************************************)
EXTENDS Integers

CONSTANTS
    Leases,       \* lease durations Vault may answer with
    MinInterval,  \* _CREDENTIAL_REFRESH_MIN_INTERVAL_SECONDS
    Retry,        \* _CREDENTIAL_REFRESH_RETRY_SECONDS
    MaxFetch,     \* longest fetch of credentials: login and read, two Vault calls
    MaxCreate,    \* longest _create_pool() (connect_timeout)
    MaxDrain,     \* longest wait_closed() (query_timeout + acquire timeout)
    MaxFailures   \* attempts in a row that may fail before one succeeds

\* _next_refresh_delay(): 80% of the lease, but never below the floor.  The
\* division is exact for the leases the assumption below admits.
NextRefreshDelay(lease) ==
    IF (4 * lease) \div 5 > MinInterval THEN (4 * lease) \div 5 ELSE MinInterval

\* What one failed attempt costs: fetch, create, then the sleep to retry.
FailureCost == MaxFetch + MaxCreate + Retry

\* What the failures still allowed after f of them may cost.
AttemptsLeft(f) == (MaxFailures - f) * FailureCost

\* Time from the issue of a lease to the latest moment its successor is
\* published: it is fetched, its pool created, the old pool drained, the
\* delay slept, and then every failure allowed and one success.
Horizon(lease) ==
    (MaxFetch + MaxCreate) + MaxDrain + NextRefreshDelay(lease)
        + AttemptsLeft(0) + (MaxFetch + MaxCreate)

\* The leases for which the 20% headroom covers the slowest refresh.
ASSUME TimingAssumption ==
    /\ Leases \subseteq Nat
    /\ \A lease \in Leases : (4 * lease) % 5 = 0
    /\ MinInterval \in Nat /\ Retry \in Nat
    /\ MaxFetch \in Nat /\ MaxCreate \in Nat /\ MaxDrain \in Nat
    /\ MaxFailures \in Nat
    /\ \A lease \in Leases : Horizon(lease) < lease

VARIABLES
    state,      \* the await the loop is in
    timer,      \* time left of that await
    ttl,        \* time left of the published pool's lease
    lease,      \* duration of the lease fetched last
    newTtl,     \* time left of the lease fetched last, until it is published
    failures    \* attempts that failed since the last success

vars == <<state, timer, ttl, lease, newTtl, failures>>

States == {"sleeping", "fetching", "creating", "draining"}

TypeOK ==
    /\ state \in States
    /\ timer \in Nat
    /\ ttl \in Int
    /\ lease \in Leases
    /\ newTtl \in Int
    /\ failures \in 0..MaxFailures

\* lifespan() fetched a lease, created the first pool and spawned the loop,
\* whose first sleep is computed from that lease.
Init ==
    /\ state = "sleeping"
    /\ lease \in Leases
    /\ timer = NextRefreshDelay(lease)
    /\ \E age \in 0..(MaxFetch + MaxCreate) : ttl = lease - age
    /\ newTtl = 0
    /\ failures = 0

\* Time passes, but not beyond the longest the current await may take.
Tick ==
    /\ timer > 0
    /\ timer' = timer - 1
    /\ ttl' = ttl - 1
    /\ newTtl' = IF state = "creating" THEN newTtl - 1 ELSE newTtl
    /\ UNCHANGED <<state, lease, failures>>

\* Mutant: the loop spins on its sleep without ever fetching.
WakeIdle ==
    /\ state = "sleeping" /\ timer = 0
    /\ UNCHANGED vars

\* asyncio.sleep() returns when its time is over.
Wake ==
    /\ state = "sleeping" /\ timer = 0
    /\ state' = "fetching" /\ timer' = MaxFetch
    /\ UNCHANGED <<ttl, lease, newTtl, failures>>

\* Vault issues a lease at some point of the round trip; rotate() starts.
FetchSucceeds ==
    /\ state = "fetching"
    /\ lease' \in Leases
    /\ \E age \in 0..(MaxFetch - timer) : newTtl' = lease' - age
    /\ state' = "creating" /\ timer' = MaxCreate
    /\ UNCHANGED <<ttl, failures>>

\* The except branch: the fetch raised or had no lease, or the new pool
\* could not be created.  Log, sleep for the retry interval, try again.
AttemptFails ==
    /\ state \in {"fetching", "creating"}
    /\ failures < MaxFailures
    /\ failures' = failures + 1
    /\ state' = "sleeping" /\ timer' = Retry
    /\ newTtl' = 0
    /\ UNCHANGED <<ttl, lease>>

\* rotate() publishes the new pool, then awaits the old one.
Publish ==
    /\ state = "creating"
    /\ ttl' = newTtl /\ newTtl' = 0
    /\ failures' = 0
    /\ state' = "draining" /\ timer' = MaxDrain
    /\ UNCHANGED lease

\* Mutant: the loop sleeps the whole lease.
DrainedWholeLease ==
    /\ state = "draining"
    /\ state' = "sleeping" /\ timer' = lease
    /\ UNCHANGED <<ttl, lease, newTtl, failures>>

\* rotate() returned: only now is the next delay computed and slept.
Drained ==
    /\ state = "draining"
    /\ state' = "sleeping" /\ timer' = NextRefreshDelay(lease)
    /\ UNCHANGED <<ttl, lease, newTtl, failures>>

Next == Tick \/ Wake \/ FetchSucceeds \/ AttemptFails \/ Publish \/ Drained

\* Awaits end within their bounds and time does not stop.
Spec == Init /\ [][Next]_vars
FairSpec == Spec /\ WF_vars(Next)

-----------------------------------------------------------------------------
\* main.py: the loop "re-fetches (a new lease, a new dynamic user) well
\* before that happens and rotates the pool over, rather than waiting for
\* expiry-driven auth failures".  At no moment, whatever the awaits take and
\* whichever attempts fail within MaxFailures, has the published pool's
\* lease run out.
PublishedLeaseAlive == ttl > 0

\* Why PublishedLeaseAlive holds: in every await, what is left of the
\* published lease exceeds what may still come before it is replaced, that
\* is the rest of the await and of every attempt allowed; and a lease just
\* fetched is young enough to take over.
LeaseOutlivesRefresh ==
    /\ state = "sleeping" => ttl > timer + MaxFetch + MaxCreate + AttemptsLeft(failures)
    /\ state = "fetching" => ttl > timer + MaxCreate + AttemptsLeft(failures)
    /\ state = "creating" => ttl > timer + AttemptsLeft(failures)
    /\ state = "draining" =>
          ttl > timer + NextRefreshDelay(lease) + MaxFetch + MaxCreate
                + AttemptsLeft(failures)
    /\ state = "fetching" => timer <= MaxFetch
    /\ state = "creating" =>
          newTtl > Horizon(lease) - MaxFetch - MaxCreate + timer

\* The loop never stops refreshing: a new lease is published again and again.
RefreshRecurs == []<>(state = "draining")
=============================================================================
