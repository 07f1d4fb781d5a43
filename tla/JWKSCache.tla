----------------------------- MODULE JWKSCache -----------------------------
(***************************************************************************)
(* JWKSCache (tenants/b2b_learner_records/token.py): the realm's signing   *)
(* keys, fetched on demand, held for a TTL, refetched once for an unknown  *)
(* key id.  Any number of request tasks run signing_key() on one event     *)
(* loop; a step is the code between two awaits that can suspend: taking    *)
(* the lock and waiting for the HTTP answer.  Keycloak is the environment: *)
(* it rotates keys whenever it likes and answers late or not at all.       *)
(*                                                                         *)
(* Time is kept as durations (age of the key set, what is left of each     *)
(* cooldown), so it needs no bound.  _fetched_at is only ever compared     *)
(* with an earlier reading of itself; advanced is the set of tasks whose   *)
(* reading is out of date.                                                 *)
(***************************************************************************)
EXTENDS Naturals, Sequences

CONSTANTS
    Tasks,          \* request tasks calling signing_key()
    Kids,           \* key ids a realm may publish or a token may carry
    TTL,            \* settings.jwks_cache_ttl_seconds
    KidCooldown,    \* _KID_REFETCH_COOLDOWN_SECONDS
    RetryCooldown,  \* _FETCH_RETRY_COOLDOWN_SECONDS
    NoTask          \* nobody holds the lock

ASSUME CacheAssumption ==
    /\ TTL \in Nat \ {0} /\ KidCooldown \in Nat \ {0} /\ RetryCooldown \in Nat \ {0}
    /\ NoTask \notin Tasks

VARIABLES
    realm,      \* kids Keycloak publishes now
    answer,     \* key set in the response on its way, <<>> when none
    cold,       \* _keys is None
    keys,       \* kids of _keys
    age,        \* time since _fetched_at, up to TTL
    retry,      \* what is left until _retry_after
    kidCool,    \* what is left until _kid_refetch_after
    lock,       \* holder of _lock
    queue,      \* waiters of _lock, served first come first served
    pc,         \* where each task is in signing_key()
    kid,        \* the kid each task asks for
    advanced,   \* waiters for which _fetched_at # the fetched_at they read
    out,        \* what signing_key() returned or raised last
    sinceMiss,  \* history: time since a refetch came back without its kid
    outlasted,  \* history: tasks whose present _load() saw another's fetch end
    stalled     \* history: tasks whose present call saw a fetch fail

timeVars  == <<age, retry, kidCool, sinceMiss>>
cacheVars == <<cold, keys>>
history   == <<outlasted, stalled>>
taskVars  == <<lock, queue, pc, kid, advanced, out, history>>
vars == <<realm, answer, cacheVars, timeVars, taskVars>>

NoAnswer == <<>>
Waiting  == {"load", "reload"}     \* suspended on _lock in _load()
Fetching == {"fetch", "refetch"}   \* suspended in _fetch(), holding _lock

TypeOK ==
    /\ realm \in SUBSET Kids
    /\ answer = NoAnswer \/ answer \in [kids : SUBSET Kids]
    /\ cold \in BOOLEAN /\ keys \in SUBSET Kids
    /\ age \in 0..TTL /\ retry \in 0..RetryCooldown
    /\ kidCool \in 0..KidCooldown /\ sinceMiss \in 0..KidCooldown
    /\ lock \in Tasks \cup {NoTask}
    /\ queue \in Seq(Tasks)
    /\ pc \in [Tasks -> {"idle"} \cup Waiting \cup Fetching]
    /\ kid \in [Tasks -> Kids]
    /\ advanced \in SUBSET Tasks
    /\ outlasted \in SUBSET Tasks /\ stalled \in SUBSET Tasks
    /\ out \in [Tasks -> {"none", "key", "unknown", "unavailable", "cancelled"}]

\* __init__: cold, and no cooldown running.
Init ==
    /\ realm \in SUBSET Kids
    /\ answer = NoAnswer
    /\ cold = TRUE /\ keys = {}
    /\ age = TTL /\ retry = 0 /\ kidCool = 0 /\ sinceMiss = KidCooldown
    /\ lock = NoTask /\ queue = <<>>
    /\ pc = [t \in Tasks |-> "idle"]
    /\ kid \in [Tasks -> Kids]
    /\ advanced = {} /\ outlasted = {} /\ stalled = {}
    /\ out = [t \in Tasks |-> "none"]

\* Mutant: the TTL is not looked at.
FreshForever == ~cold

IsFresh == ~cold /\ age < TTL

-----------------------------------------------------------------------------
(* What signing_key() does with what _load() returned.  K is the key set,  *)
(* rest the waiters of the lock once the task has left it.                 *)

Return(t, value) ==
    /\ pc' = [pc EXCEPT ![t] = "idle"]
    /\ out' = [out EXCEPT ![t] = value]

\* _load() finds no set it can use at once: it reads _fetched_at and joins
\* the waiters of the lock.
Join(t, where, rest) ==
    /\ pc' = [pc EXCEPT ![t] = where]
    /\ out' = [out EXCEPT ![t] = "none"]
    /\ queue' = Append(rest, t)

\* After the first load: found, refused by the cooldown, or a forced load
\* begins; checking the cooldown and reading _fetched_at is one step.
AfterLoad(t, k, K, rest) ==
    \/ k \in K /\ Return(t, "key") /\ queue' = rest
    \/ k \notin K /\ kidCool > 0 /\ Return(t, "unknown") /\ queue' = rest
    \/ k \notin K /\ kidCool = 0 /\ Join(t, "reload", rest)

\* Mutants: the cooldown is never started; it is started without evidence.
ReloadUncooled(t, K, moved, rest) ==
    /\ Return(t, IF kid[t] \in K THEN "key" ELSE "unknown")
    /\ queue' = rest /\ UNCHANGED kidCool
ReloadAlwaysCools(t, K, moved, rest) ==
    /\ Return(t, IF kid[t] \in K THEN "key" ELSE "unknown")
    /\ kidCool' = IF kid[t] \in K THEN kidCool ELSE KidCooldown
    /\ queue' = rest

\* After the forced load: the cooldown starts when the kid is missing from
\* a set fetched since the check, not when nothing was fetched.
AfterReload(t, K, moved, rest) ==
    /\ Return(t, IF kid[t] \in K THEN "key" ELSE "unknown")
    /\ kidCool' = IF kid[t] \notin K /\ moved THEN KidCooldown ELSE kidCool
    /\ queue' = rest

Continue(t, K, moved, rest) ==
    \/ /\ pc[t] \in {"load", "fetch"}
       /\ AfterLoad(t, kid[t], K, rest)
       /\ UNCHANGED kidCool
    \/ /\ pc[t] \in {"reload", "refetch"}
       /\ AfterReload(t, K, moved, rest)

\* _stale_or_raise(): the last key set, if there is one.
StaleOrRaise(t, rest) ==
    \/ cold /\ Return(t, "unavailable") /\ queue' = rest /\ UNCHANGED kidCool
    \/ ~cold /\ Continue(t, keys, t \in advanced, rest)

-----------------------------------------------------------------------------
\* signing_key(k) up to its first suspension: a fresh set is used without
\* taking the lock.
SigningKey(t, k) ==
    /\ pc[t] = "idle"
    /\ kid' = [kid EXCEPT ![t] = k]
    /\ \/ IsFresh /\ AfterLoad(t, k, keys, queue)
       \/ ~IsFresh /\ Join(t, "load", queue)
    /\ UNCHANGED <<realm, answer, cacheVars, timeVars, lock, advanced, history>>

\* Mutant: whoever gets the lock fetches.
RidesOnNobody(t) == FALSE

\* "Whoever held the lock may have just fetched."
RidesOnOther(t) ==
    IF pc[t] = "load" THEN IsFresh ELSE t \in advanced

\* A task keeps its history as long as its call, or its load, lasts.
Outlives(t, was) == IF pc'[t] = "idle" THEN was \ {t} ELSE was
Others(t) == {u \in Tasks : u # t /\ pc[u] # "idle"}

\* The lock is free and its first waiter gets it: it rides on a fetch that
\* happened while it waited, falls back during the failure cooldown, or
\* sends a request of its own.
TakeLock(t) ==
    /\ queue # <<>> /\ Head(queue) = t
    /\ lock = NoTask
    /\ \/ /\ RidesOnOther(t)
          /\ Continue(t, keys, TRUE, Tail(queue))
          /\ UNCHANGED <<lock, answer>>
       \/ /\ ~RidesOnOther(t) /\ retry > 0
          /\ StaleOrRaise(t, Tail(queue))
          /\ UNCHANGED <<lock, answer>>
       \/ /\ ~RidesOnOther(t) /\ retry = 0
          /\ lock' = t /\ queue' = Tail(queue)
          /\ pc' = [pc EXCEPT ![t] = IF @ = "load" THEN "fetch" ELSE "refetch"]
          /\ answer' = NoAnswer
          /\ UNCHANGED <<out, kidCool>>
    /\ advanced' = advanced \ {t}
    /\ outlasted' = IF lock' = t THEN outlasted ELSE outlasted \ {t}
    /\ stalled' = Outlives(t, stalled)
    /\ UNCHANGED <<realm, cacheVars, age, retry, sinceMiss, kid>>

\* _fetch() succeeds with the key set Keycloak had when it answered; every
\* waiter's reading of _fetched_at is now out of date.
FetchSucceeds(t) ==
    /\ pc[t] \in Fetching
    /\ answer # NoAnswer /\ answer.kids # {}
    /\ keys' = answer.kids /\ cold' = FALSE /\ age' = 0
    /\ answer' = NoAnswer
    /\ lock' = NoTask
    /\ Continue(t, answer.kids, TRUE, queue)
    /\ advanced' = {u \in Tasks : pc[u] \in Waiting}
    /\ outlasted' = Others(t) /\ stalled' = Outlives(t, stalled)
    /\ sinceMiss' = IF pc[t] = "refetch" /\ kid[t] \notin answer.kids
                    THEN 0 ELSE sinceMiss
    /\ UNCHANGED <<realm, retry, kid>>

\* Mutant: the lock is not released.
FailsHoldingLock(t) ==
    /\ pc[t] \in Fetching
    /\ retry' = RetryCooldown /\ answer' = NoAnswer
    /\ StaleOrRaise(t, queue)
    /\ outlasted' = Others(t) /\ stalled' = Outlives(t, Others(t) \cup {t})
    /\ UNCHANGED <<realm, cacheVars, age, sinceMiss, kid, advanced, lock>>

\* Mutant: the failure starts no cooldown.
FailsUncooled(t) ==
    /\ pc[t] \in Fetching
    /\ lock' = NoTask /\ answer' = NoAnswer
    /\ StaleOrRaise(t, queue)
    /\ outlasted' = Others(t) /\ stalled' = Outlives(t, Others(t) \cup {t})
    /\ UNCHANGED <<realm, cacheVars, age, retry, sinceMiss, kid, advanced>>

\* A transport error, a non-2xx, a body without a usable key.
FetchFails(t) ==
    /\ pc[t] \in Fetching
    /\ lock' = NoTask /\ answer' = NoAnswer
    /\ retry' = RetryCooldown
    /\ StaleOrRaise(t, queue)
    /\ outlasted' = Others(t) /\ stalled' = Outlives(t, Others(t) \cup {t})
    /\ UNCHANGED <<realm, cacheVars, age, sinceMiss, kid, advanced>>

\* A task that is suspended on the lock stops waiting for it.
Leave(t) ==
    \/ pc[t] \notin Waiting /\ UNCHANGED queue
    \/ \E i \in 1..Len(queue) :
          /\ queue[i] = t
          /\ queue' = SubSeq(queue, 1, i - 1) \o SubSeq(queue, i + 1, Len(queue))

\* The client goes away: CancelledError leaves signing_key() where it is
\* suspended and the async with releases the lock.
Cancel(t) ==
    /\ pc[t] # "idle"
    /\ Return(t, "cancelled")
    /\ lock' = IF lock = t THEN NoTask ELSE lock
    /\ answer' = IF lock = t THEN NoAnswer ELSE answer
    /\ Leave(t)
    /\ advanced' = advanced \ {t}
    /\ outlasted' = outlasted \ {t} /\ stalled' = stalled \ {t}
    /\ UNCHANGED <<realm, cacheVars, timeVars, kid>>

-----------------------------------------------------------------------------
(* Environment                                                             *)

\* Keycloak answers the request in flight with the keys it has now.
Respond ==
    /\ lock # NoTask /\ answer = NoAnswer
    /\ answer' = [kids |-> realm]
    /\ UNCHANGED <<realm, cacheVars, timeVars, taskVars>>

\* Keycloak rotates its realm keys.
RotateRealm ==
    /\ realm' \in SUBSET Kids
    /\ realm' # realm
    /\ UNCHANGED <<answer, cacheVars, timeVars, taskVars>>

Less(n) == IF n > 0 THEN n - 1 ELSE 0
Cap(n, m) == IF n < m THEN n + 1 ELSE m

\* Time passes while every task is suspended on Keycloak or on a lock that
\* somebody holds; a woken task runs at once.
Tick ==
    /\ lock = NoTask => queue = <<>>
    /\ age' = Cap(age, TTL)
    /\ retry' = Less(retry) /\ kidCool' = Less(kidCool)
    /\ sinceMiss' = Cap(sinceMiss, KidCooldown)
    /\ UNCHANGED <<realm, answer, cacheVars, taskVars>>

Next ==
    \/ \E t \in Tasks :
          \/ \E k \in Kids : SigningKey(t, k)
          \/ TakeLock(t) \/ FetchSucceeds(t) \/ FetchFails(t) \/ Cancel(t)
    \/ Respond \/ RotateRealm \/ Tick

(***************************************************************************)
(* Fairness: the HTTP client's timeout ends every fetch, and asyncio.Lock  *)
(* serves its waiters in turn.  Keycloak and the callers owe nothing.      *)
(***************************************************************************)
Spec == Init /\ [][Next]_vars
FairSpec ==
    /\ Spec
    /\ \A t \in Tasks : WF_vars(FetchFails(t)) /\ WF_vars(TakeLock(t))

-----------------------------------------------------------------------------
(* Properties                                                              *)

\* The lock's purpose: "N concurrent requests on a cold or expired cache
\* open one connection to Keycloak, not N".  Whoever was in _load() when
\* somebody else's fetch ended, well or badly, sends no request of its own in
\* that load, neither then nor later: it uses what that fetch left.
OneFetchPerBurst ==
    \A t \in outlasted : pc[t] \notin Fetching

\* _FETCH_RETRY_COOLDOWN_SECONDS: without it "callers queue up behind each
\* other for as long as the outage lasts".  A call that has sat through one
\* failed fetch, its own or another's, sits through no other: until it has
\* ended, its forced load included, nobody asks Keycloak again.
OneTimeoutPerCall ==
    stalled # {} => lock = NoTask

\* _KID_REFETCH_COOLDOWN_SECONDS is a "floor on how often an unknown key id
\* may trigger a refetch": while a refetch is in flight, no earlier one has
\* come back without its kid within the cooldown, however many tasks passed
\* the check before it was set.
RefetchesSpaced ==
    \A t \in Tasks : pc[t] = "refetch" => sinceMiss = KidCooldown

\* A kid the realm publishes is refused only on recent evidence: the key set
\* was fetched within the cooldown, or the last attempt failed and is held
\* off.  A fetch that failed must not count as evidence.
RefusalStep ==
    \A t \in Tasks :
        (out'[t] = "unknown" /\ (out[t] # "unknown" \/ pc[t] # "idle")
            /\ kid'[t] \in realm)
        => age' <= KidCooldown \/ retry' > 0
RefusalHasEvidence == [][RefusalStep]_vars

\* A token is accepted on a key set past its TTL only while Keycloak failed
\* to provide a newer one ("serving the last known realm key set").
StaleStep ==
    \A t \in Tasks :
        (out'[t] = "key" /\ (out[t] # "key" \/ pc[t] # "idle"))
        => ~cold' /\ (age' < TTL \/ retry' > 0)
StaleOnlyAfterFailure == [][StaleStep]_vars

\* Every call ends, whoever is cancelled or fails while holding the lock.
EveryCallReturns == \A t \in Tasks : (pc[t] # "idle") ~> (pc[t] = "idle")
=============================================================================
