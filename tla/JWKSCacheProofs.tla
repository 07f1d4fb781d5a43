-------------------------- MODULE JWKSCacheProofs --------------------------
(***************************************************************************)
(* Proofs about JWKSCache, for any number of tasks and kids, any TTL and   *)
(* any cooldowns.  IndInv is inductive.  What carries the argument is that *)
(* the lock serves its waiters in turn: once a fetch has made the readings *)
(* of all waiters out of date (advanced), they are served before anybody   *)
(* else can fetch and before time passes, so each of them still sees the   *)
(* key set that fetch brought (Riders).                                    *)
(***************************************************************************)
EXTENDS JWKSCache, SequenceTheorems, TLAPS

Suspended == {u \in Tasks : pc[u] \in Waiting}

\* q holds the members of W, each once.
Lists(q, W) ==
    /\ q \in Seq(Tasks)
    /\ \A i \in 1..Len(q) : q[i] \in W
    /\ \A i, j \in 1..Len(q) : q[i] = q[j] => i = j
    /\ \A u \in W : \E i \in 1..Len(q) : q[i] = u

\* The members of A come before all others in q.
FrontFirst(q, A) ==
    \A i, j \in 1..Len(q) : i < j /\ q[j] \in A => q[i] \in A

\* The waiters of the lock are the suspended tasks, each once.
QueueIsWaiters == Lists(queue, Suspended)

\* Tasks with an outdated reading wait at the front, on a free lock, for a
\* key set that was fetched this instant.
Riders ==
    /\ advanced \subseteq Suspended
    /\ FrontFirst(queue, advanced)
    /\ advanced # {} => lock = NoTask /\ age = 0 /\ ~cold

\* Just the holder of the lock fetches.
HolderFetches == \A t \in Tasks : pc[t] \in Fetching <=> lock = t

\* The cooldown covers the time since the last miss, and a forced load that
\* may still fetch began after the cooldown of the last miss was over.
CooldownCoversMiss ==
    /\ kidCool + sinceMiss >= KidCooldown
    /\ kidCool > 0 => age + kidCool <= KidCooldown
    /\ \A u \in Tasks : pc[u] = "reload" /\ u \notin advanced => sinceMiss = KidCooldown

\* A call in progress has no outcome.
PendingHasNoResult == \A u \in Tasks : pc[u] # "idle" => out[u] = "none"

IndInv ==
    /\ TypeOK
    /\ HolderFetches
    /\ QueueIsWaiters
    /\ Riders
    /\ CooldownCoversMiss
    /\ RefetchesSpaced
    /\ PendingHasNoResult

-----------------------------------------------------------------------------
(* The queue                                                               *)

\* Taking the first waiter off the queue leaves the others, in order.
LEMMA HeadLeaves ==
    ASSUME NEW q, NEW W, NEW A, Lists(q, W), FrontFirst(q, A), q # <<>>
    PROVE  Lists(Tail(q), W \ {Head(q)}) /\ FrontFirst(Tail(q), A \ {Head(q)})
  <1>1. /\ q \in Seq(Tasks) /\ Len(q) \in Nat /\ Len(q) >= 1 /\ Head(q) = q[1]
        /\ Tail(q) \in Seq(Tasks) /\ Len(Tail(q)) = Len(q) - 1
        /\ \A i \in 1..Len(Tail(q)) : Tail(q)[i] = q[i + 1]
    BY HeadTailProperties, EmptySeq, LenProperties DEF Lists
  <1>2. \A i \in 1..Len(Tail(q)) : i + 1 \in 1..Len(q) /\ q[i + 1] # q[1]
    BY <1>1 DEF Lists
  <1>3. \A u \in W \ {q[1]} : \E i \in 1..Len(Tail(q)) : Tail(q)[i] = u
    <2> SUFFICES ASSUME NEW u \in W, u # q[1]
                 PROVE  \E i \in 1..Len(Tail(q)) : Tail(q)[i] = u
      OBVIOUS
    <2>1. PICK i \in 1..Len(q) : q[i] = u
      BY DEF Lists
    <2>2. i - 1 \in 1..Len(Tail(q)) /\ Tail(q)[i - 1] = q[(i - 1) + 1]
      BY <1>1, <2>1
    <2>. QED
      BY <1>1, <2>1, <2>2
  <1>4. Lists(Tail(q), W \ {Head(q)})
    BY <1>1, <1>2, <1>3 DEF Lists
  <1>5. FrontFirst(Tail(q), A \ {Head(q)})
    BY <1>1, <1>2 DEF FrontFirst
  <1>. QED
    BY <1>4, <1>5

\* What r is when it is q without its element k.
Without(r, q, k) ==
    /\ r \in Seq(Tasks) /\ Len(r) = Len(q) - 1
    /\ \A i \in 1..(Len(q) - 1) : i < k => r[i] = q[i]
    /\ \A i \in 1..(Len(q) - 1) : i >= k => r[i] = q[i + 1]

\* Cutting an element out of a sequence by its position.
LEMMA CutOut ==
    ASSUME NEW q \in Seq(Tasks), NEW k \in 1..Len(q)
    PROVE  Without(SubSeq(q, 1, k - 1) \o SubSeq(q, k + 1, Len(q)), q, k)
  <1> DEFINE a == SubSeq(q, 1, k - 1)
             b == SubSeq(q, k + 1, Len(q))
             r == a \o b
             n == Len(q)
  <1>1. n \in Nat /\ k \in Nat /\ k >= 1 /\ k <= n
    BY LenProperties
  <1>2. /\ a \in Seq(Tasks) /\ Len(a) = k - 1
        /\ \A i \in 1..(k - 1) : a[i] = q[i]
    BY <1>1, SubSeqProperties
  <1>3. /\ b \in Seq(Tasks) /\ Len(b) = n - k
        /\ \A i \in 1..(n - k) : b[i] = q[k + i]
    <2>1. CASE k = Len(q)
      BY <1>1, <2>1, SubSeqProperties
    <2>2. CASE k < Len(q)
      BY <1>1, <2>2, SubSeqProperties
    <2>. QED
      BY <1>1, <2>1, <2>2
  <1> HIDE DEF a, b, n
  <1>4. /\ r \in Seq(Tasks) /\ Len(r) = Len(a) + Len(b)
        /\ \A i \in 1..(Len(a) + Len(b)) :
              r[i] = IF i <= Len(a) THEN a[i] ELSE b[i - Len(a)]
    BY <1>2, <1>3, ConcatProperties
  <1> HIDE DEF r
  <1>5. Len(r) = n - 1
    BY <1>1, <1>2, <1>3, <1>4
  <1>6. ASSUME NEW i \in 1..(n - 1), i < k PROVE r[i] = q[i]
    <2>1. i \in 1..(k - 1) /\ i <= Len(a) /\ i \in 1..(Len(a) + Len(b))
      BY <1>1, <1>2, <1>3, <1>6
    <2>. QED
      BY <1>2, <1>4, <2>1
  <1>7. ASSUME NEW i \in 1..(n - 1), i >= k PROVE r[i] = q[i + 1]
    <2>1. /\ i - (k - 1) \in 1..(n - k) /\ ~(i <= Len(a))
          /\ i \in 1..(Len(a) + Len(b)) /\ k + (i - (k - 1)) = i + 1
      BY <1>1, <1>2, <1>3, <1>7
    <2>2. r[i] = b[i - (k - 1)]
      BY <1>2, <1>4, <2>1
    <2>. QED
      BY <1>3, <2>1, <2>2
  <1>8. Without(r, q, k)
    BY <1>4, <1>5, <1>6, <1>7 DEF Without, n
  <1>. QED
    BY <1>8 DEF r, a, b

\* A waiter that gives up leaves the others, in order.
LEMMA WaiterLeaves ==
    ASSUME NEW q, NEW W, NEW A, Lists(q, W), FrontFirst(q, A),
           NEW k \in 1..Len(q), NEW r, Without(r, q, k)
    PROVE  Lists(r, W \ {q[k]}) /\ FrontFirst(r, A \ {q[k]})
  <1> DEFINE n == Len(q)
  <1>1. q \in Seq(Tasks) /\ n \in Nat /\ k \in Nat /\ k >= 1 /\ k <= n
    BY LenProperties DEF Lists
  <1>5. /\ r \in Seq(Tasks) /\ Len(r) = n - 1
        /\ \A i \in 1..(n - 1) : i < k => r[i] = q[i]
        /\ \A i \in 1..(n - 1) : i >= k => r[i] = q[i + 1]
    BY DEF Without
  <1>6. \A i \in 1..Len(r) : \E m \in 1..n : m # k /\ r[i] = q[m] /\ m \in {i, i + 1}
    <2> SUFFICES ASSUME NEW i \in 1..Len(r)
                 PROVE  \E m \in 1..n : m # k /\ r[i] = q[m] /\ m \in {i, i + 1}
      OBVIOUS
    <2>1. CASE i < k
      <3>. i \in 1..n /\ i # k /\ r[i] = q[i]
        BY <1>1, <1>5, <2>1
      <3>. QED
        OBVIOUS
    <2>2. CASE i >= k
      <3>. i + 1 \in 1..n /\ i + 1 # k /\ r[i] = q[i + 1]
        BY <1>1, <1>5, <2>2
      <3>. QED
        OBVIOUS
    <2>. QED
      BY <1>1, <1>5, <2>1, <2>2
  <1>7. \A i, j \in 1..Len(r) : i < j =>
          \E x, y \in 1..n : x < y /\ y # k /\ x # k /\ r[i] = q[x] /\ r[j] = q[y]
    <2> SUFFICES ASSUME NEW i \in 1..Len(r), NEW j \in 1..Len(r), i < j
                 PROVE  \E x, y \in 1..n :
                           x < y /\ y # k /\ x # k /\ r[i] = q[x] /\ r[j] = q[y]
      OBVIOUS
    <2>1. CASE j < k
      <3>. i \in 1..n /\ j \in 1..n /\ i # k /\ j # k /\ r[i] = q[i] /\ r[j] = q[j]
        BY <1>1, <1>5, <2>1
      <3>. QED
        OBVIOUS
    <2>2. CASE i < k /\ j >= k
      <3>. /\ i \in 1..n /\ j + 1 \in 1..n /\ i < j + 1 /\ i # k /\ j + 1 # k
           /\ r[i] = q[i] /\ r[j] = q[j + 1]
        BY <1>1, <1>5, <2>2
      <3>. QED
        OBVIOUS
    <2>3. CASE i >= k
      <3>. /\ i + 1 \in 1..n /\ j + 1 \in 1..n /\ i + 1 < j + 1 /\ i + 1 # k
           /\ j + 1 # k /\ r[i] = q[i + 1] /\ r[j] = q[j + 1]
        BY <1>1, <1>5, <2>3
      <3>. QED
        OBVIOUS
    <2>. QED
      BY <1>1, <1>5, <2>1, <2>2, <2>3
  <1>8. \A m \in 1..n : m # k => \E i \in 1..Len(r) : r[i] = q[m]
    <2> SUFFICES ASSUME NEW m \in 1..n, m # k PROVE \E i \in 1..Len(r) : r[i] = q[m]
      OBVIOUS
    <2>1. CASE m < k
      <3>. m \in 1..Len(r) /\ r[m] = q[m]
        BY <1>1, <1>5, <2>1
      <3>. QED
        OBVIOUS
    <2>2. CASE m > k
      <3>. m - 1 \in 1..Len(r) /\ r[m - 1] = q[(m - 1) + 1] /\ (m - 1) + 1 = m
        BY <1>1, <1>5, <2>2
      <3>. QED
        OBVIOUS
    <2>. QED
      BY <1>1, <2>1, <2>2
  <1>9. Lists(r, W \ {q[k]})
    <2>1. \A i \in 1..Len(r) : r[i] \in W \ {q[k]}
      BY <1>6 DEF Lists
    <2>2. ASSUME NEW i \in 1..Len(r), NEW j \in 1..Len(r), i < j PROVE r[i] # r[j]
      <3>1. PICK x \in 1..n, y \in 1..n : x < y /\ r[i] = q[x] /\ r[j] = q[y]
        BY <1>7, <2>2
      <3>. QED
        BY <1>1, <3>1 DEF Lists
    <2>3. \A i, j \in 1..Len(r) : r[i] = r[j] => i = j
      <3>. Len(r) \in Int
        BY <1>1, <1>5
      <3>. QED
        BY <2>2
    <2>4. \A u \in W \ {q[k]} : \E i \in 1..Len(r) : r[i] = u
      BY <1>8 DEF Lists
    <2>. QED
      BY <1>5, <2>1, <2>3, <2>4 DEF Lists
  <1>10. FrontFirst(r, A \ {q[k]})
    <2> SUFFICES ASSUME NEW i \in 1..Len(r), NEW j \in 1..Len(r), i < j,
                        r[j] \in A \ {q[k]}
                 PROVE  r[i] \in A \ {q[k]}
      BY DEF FrontFirst
    <2>1. PICK x \in 1..n, y \in 1..n : x < y /\ x # k /\ r[i] = q[x] /\ r[j] = q[y]
      BY <1>7
    <2>. QED
      BY <1>1, <2>1 DEF Lists, FrontFirst
  <1>. QED
    BY <1>9, <1>10

\* A task that starts to wait goes behind all others.
LEMMA WaiterJoins ==
    ASSUME NEW q, NEW W, NEW A, Lists(q, W), FrontFirst(q, A), A \subseteq W,
           NEW t \in Tasks, t \notin W
    PROVE  Lists(Append(q, t), W \cup {t}) /\ FrontFirst(Append(q, t), A)
  <1>1. /\ q \in Seq(Tasks) /\ Len(q) \in Nat
        /\ Append(q, t) \in Seq(Tasks) /\ Len(Append(q, t)) = Len(q) + 1
        /\ \A i \in 1..Len(q) : Append(q, t)[i] = q[i]
        /\ Append(q, t)[Len(q) + 1] = t
    BY AppendProperties, LenProperties DEF Lists
  <1>2. \A i \in 1..(Len(q) + 1) : i \in 1..Len(q) \/ i = Len(q) + 1
    BY <1>1
  <1>3. Lists(Append(q, t), W \cup {t})
    BY <1>1, <1>2 DEF Lists
  <1>4. FrontFirst(Append(q, t), A)
    BY <1>1, <1>2 DEF FrontFirst
  <1>. QED
    BY <1>3, <1>4
-----------------------------------------------------------------------------
(* The steps                                                               *)

\* A task whose call ends (w = "idle") or that begins a forced load.
Served(t, w, v, rest) ==
    /\ w \in {"idle", "reload"} /\ v \in {"none", "key", "unknown", "unavailable"}
    /\ w = "idle" <=> v # "none"
    /\ pc' = [pc EXCEPT ![t] = w] /\ out' = [out EXCEPT ![t] = v]
    /\ queue' = IF w = "reload" THEN Append(rest, t) ELSE rest

\* What signing_key() does with a key set, and when it touches the cooldown.
LEMMA ContinueServes ==
    ASSUME NEW t \in Tasks, NEW K, NEW moved, NEW rest, Continue(t, K, moved, rest)
    PROVE  \E w, v :
              /\ Served(t, w, v, rest) /\ v # "unavailable"
              /\ w = "reload" => kidCool = 0 /\ pc[t] \in {"load", "fetch"}
              /\ kidCool' # kidCool => moved /\ kidCool' = KidCooldown /\ w = "idle"
              /\ v = "unknown" => kidCool > 0 \/ pc[t] \in {"reload", "refetch"}
              /\ pc[t] = "refetch" /\ moved /\ kid[t] \notin K => kidCool' = KidCooldown
  <1> DEFINE Goal(w, v) ==
              /\ Served(t, w, v, rest) /\ v # "unavailable"
              /\ w = "reload" => kidCool = 0 /\ pc[t] \in {"load", "fetch"}
              /\ kidCool' # kidCool => moved /\ kidCool' = KidCooldown /\ w = "idle"
              /\ v = "unknown" => kidCool > 0 \/ pc[t] \in {"reload", "refetch"}
              /\ pc[t] = "refetch" /\ moved /\ kid[t] \notin K => kidCool' = KidCooldown
  <1>1. CASE pc[t] \in {"load", "fetch"} /\ AfterLoad(t, kid[t], K, rest) /\ UNCHANGED kidCool
    <2>1. CASE kid[t] \in K /\ Return(t, "key") /\ queue' = rest
      <3>. Goal("idle", "key")
        BY <1>1, <2>1 DEF Return, Served
      <3>. QED
        OBVIOUS
    <2>2. CASE kid[t] \notin K /\ kidCool > 0 /\ Return(t, "unknown") /\ queue' = rest
      <3>. Goal("idle", "unknown")
        BY <1>1, <2>2 DEF Return, Served
      <3>. QED
        OBVIOUS
    <2>3. CASE kid[t] \notin K /\ kidCool = 0 /\ Join(t, "reload", rest)
      <3>. Goal("reload", "none")
        BY <1>1, <2>3 DEF Join, Served
      <3>. QED
        OBVIOUS
    <2>. QED
      BY <1>1, <2>1, <2>2, <2>3 DEF AfterLoad
  <1>2. CASE pc[t] \in {"reload", "refetch"} /\ AfterReload(t, K, moved, rest)
    <2>1. CASE kid[t] \in K
      <3>. Goal("idle", "key")
        BY <1>2, <2>1 DEF AfterReload, Return, Served
      <3>. QED
        OBVIOUS
    <2>2. CASE kid[t] \notin K
      <3>. Goal("idle", "unknown")
        BY <1>2, <2>2 DEF AfterReload, Return, Served
      <3>. QED
        OBVIOUS
    <2>. QED
      BY <2>1, <2>2
  <1>. QED
    BY <1>1, <1>2 DEF Continue

\* The queue after a step of t: t is out of it, or waits at its end.
LEMMA Requeued ==
    ASSUME TypeOK, NEW t \in Tasks, NEW rest, NEW A, NEW w,
           Lists(rest, Suspended \ {t}), FrontFirst(rest, A), A \subseteq Suspended \ {t},
           pc' = [pc EXCEPT ![t] = w],
           \/ w \in Waiting /\ queue' = Append(rest, t)
           \/ w \notin Waiting /\ queue' = rest
    PROVE  QueueIsWaiters' /\ FrontFirst(queue', A) /\ A \subseteq Suspended'
  <1>1. CASE w \in Waiting /\ queue' = Append(rest, t)
    <2>1. Suspended' = (Suspended \ {t}) \cup {t}
      BY <1>1 DEF Suspended, TypeOK
    <2>2. Lists(Append(rest, t), (Suspended \ {t}) \cup {t}) /\ FrontFirst(Append(rest, t), A)
      BY WaiterJoins
    <2>. QED
      BY <1>1, <2>1, <2>2 DEF QueueIsWaiters, Lists
  <1>2. CASE w \notin Waiting /\ queue' = rest
    <2>1. Suspended' = Suspended \ {t}
      BY <1>2 DEF Suspended, TypeOK
    <2>. QED
      BY <1>2, <2>1 DEF QueueIsWaiters, Lists
  <1>. QED
    BY <1>1, <1>2

\* The history stays one of tasks.
LEMMA HistoryTyped ==
    ASSUME TypeOK,
           \/ \E t \in Tasks :
                 \/ \E k \in Kids : SigningKey(t, k)
                 \/ TakeLock(t) \/ FetchSucceeds(t) \/ FetchFails(t) \/ Cancel(t)
           \/ Respond \/ RotateRealm \/ Tick \/ UNCHANGED vars
    PROVE  outlasted' \in SUBSET Tasks /\ stalled' \in SUBSET Tasks
  <1>1. ASSUME NEW t \in Tasks, TakeLock(t) \/ FetchSucceeds(t) \/ FetchFails(t) \/ Cancel(t)
        PROVE  outlasted' \in SUBSET Tasks /\ stalled' \in SUBSET Tasks
    <2>1. outlasted' \in {outlasted, outlasted \ {t}, Others(t)}
      BY <1>1, Zenon DEF TakeLock, FetchSucceeds, FetchFails, Cancel
    <2>2. stalled' \in {stalled \ {t}, Outlives(t, stalled), Outlives(t, Others(t) \cup {t})}
      BY <1>1, Zenon DEF TakeLock, FetchSucceeds, FetchFails, Cancel
    <2>. QED
      BY <2>1, <2>2 DEF TypeOK, Others, Outlives
  <1>2. CASE \/ \E t \in Tasks : \E k \in Kids : SigningKey(t, k)
             \/ Respond \/ RotateRealm \/ Tick \/ UNCHANGED vars
    BY <1>2 DEF TypeOK, SigningKey, Respond, RotateRealm, Tick, vars, taskVars, history
  <1>. QED
    BY <1>1, <1>2

\* signing_key() up to its first suspension.
LEMMA SigningKeyInv ==
    ASSUME IndInv, NEW t \in Tasks, NEW k \in Kids, SigningKey(t, k)
    PROVE  IndInv'
  <1>0. /\ TypeOK /\ HolderFetches /\ QueueIsWaiters /\ Riders
        /\ CooldownCoversMiss /\ RefetchesSpaced /\ PendingHasNoResult
    BY DEF IndInv
  <1>1. /\ pc[t] = "idle" /\ kid' = [kid EXCEPT ![t] = k]
        /\ UNCHANGED <<realm, answer, cold, keys, age, retry, kidCool, sinceMiss, lock, advanced>>
    BY DEF SigningKey, cacheVars, timeVars
  <1>2. PICK w \in {"idle", "load", "reload"}, v \in {"none", "key", "unknown"} :
           /\ pc' = [pc EXCEPT ![t] = w] /\ out' = [out EXCEPT ![t] = v]
           /\ w # "idle" <=> v = "none"
           /\ w = "reload" => kidCool = 0
           /\ queue' = IF w = "idle" THEN queue ELSE Append(queue, t)
    BY DEF SigningKey, AfterLoad, Return, Join
  <1>3. /\ QueueIsWaiters' /\ FrontFirst(queue', advanced) /\ advanced \subseteq Suspended'
    <2>1. Suspended \ {t} = Suspended
      BY <1>1 DEF Suspended, Waiting
    <2>2. /\ Lists(queue, Suspended \ {t}) /\ FrontFirst(queue, advanced)
          /\ advanced \subseteq Suspended \ {t}
      BY <1>0, <2>1 DEF QueueIsWaiters, Riders
    <2>3. \/ w \in Waiting /\ queue' = Append(queue, t)
          \/ w \notin Waiting /\ queue' = queue
      BY <1>2 DEF Waiting
    <2>. QED
      BY <1>0, <1>2, <2>2, <2>3, Requeued
  <1>4. TypeOK'
    <2>1. queue' \in Seq(Tasks)
      BY <1>3 DEF QueueIsWaiters, Lists
    <2>2. pc' \in [Tasks -> {"idle"} \cup Waiting \cup Fetching]
      BY <1>0, <1>2 DEF TypeOK, Waiting
    <2>3. /\ kid' \in [Tasks -> Kids]
          /\ out' \in [Tasks -> {"none", "key", "unknown", "unavailable", "cancelled"}]
      BY <1>0, <1>1, <1>2 DEF TypeOK
    <2>. QED
      BY <1>0, <1>1, <2>1, <2>2, <2>3, HistoryTyped DEF TypeOK
  <1>5. HolderFetches'
    BY <1>0, <1>1, <1>2 DEF HolderFetches, TypeOK, Fetching
  <1>6. Riders'
    BY <1>0, <1>1, <1>3 DEF Riders
  <1>7. CooldownCoversMiss'
    BY <1>0, <1>1, <1>2, CacheAssumption DEF CooldownCoversMiss, TypeOK
  <1>8. RefetchesSpaced' /\ PendingHasNoResult'
    BY <1>0, <1>1, <1>2 DEF RefetchesSpaced, PendingHasNoResult, TypeOK
  <1>. QED
    BY <1>3, <1>4, <1>5, <1>6, <1>7, <1>8 DEF IndInv

\* Nobody fetches while the waiters of the last fetch are being served: the
\* waiter at the front is one of them.
LEMMA FrontRides ==
    ASSUME IndInv, NEW t \in Tasks, queue # <<>>, Head(queue) = t
    PROVE  /\ pc[t] \in Waiting
           /\ advanced # {} => t \in advanced
           /\ t \in advanced => RidesOnOther(t) /\ IsFresh
           /\ Lists(Tail(queue), Suspended \ {t})
           /\ FrontFirst(Tail(queue), advanced \ {t})
  <1>1. /\ Lists(queue, Suspended) /\ FrontFirst(queue, advanced)
        /\ advanced \subseteq Suspended
        /\ advanced # {} => age = 0 /\ ~cold
    BY DEF IndInv, QueueIsWaiters, Riders
  <1>2. Len(queue) \in Nat /\ Len(queue) >= 1 /\ queue[1] = t
    BY <1>1, HeadTailProperties, EmptySeq, LenProperties DEF Lists
  <1>3. pc[t] \in Waiting
    BY <1>1, <1>2 DEF Lists, Suspended
  <1>4. advanced # {} => t \in advanced
    <2> SUFFICES ASSUME NEW u \in advanced PROVE t \in advanced
      OBVIOUS
    <2>1. PICK j \in 1..Len(queue) : queue[j] = u
      BY <1>1 DEF Lists
    <2>. QED
      BY <1>1, <1>2, <2>1 DEF FrontFirst
  <1>5. t \in advanced => RidesOnOther(t) /\ IsFresh
    BY <1>1, CacheAssumption DEF RidesOnOther, IsFresh
  <1>. QED
    BY <1>1, <1>3, <1>4, <1>5, HeadLeaves

\* The first waiter gets the lock.
LEMMA TakeLockInv ==
    ASSUME IndInv, NEW t \in Tasks, TakeLock(t)
    PROVE  IndInv'
  <1>0. /\ TypeOK /\ HolderFetches /\ QueueIsWaiters /\ Riders
        /\ CooldownCoversMiss /\ RefetchesSpaced /\ PendingHasNoResult
    BY DEF IndInv
  <1>1. /\ queue # <<>> /\ Head(queue) = t /\ lock = NoTask
        /\ advanced' = advanced \ {t}
        /\ UNCHANGED <<realm, cold, keys, age, retry, sinceMiss, kid>>
    BY DEF TakeLock, cacheVars
  <1>2. /\ pc[t] \in Waiting
        /\ advanced # {} => t \in advanced
        /\ t \in advanced => RidesOnOther(t) /\ IsFresh
        /\ Lists(Tail(queue), Suspended \ {t})
        /\ FrontFirst(Tail(queue), advanced')
    BY <1>1, FrontRides
  <1>3. advanced' \subseteq Suspended \ {t}
    BY <1>0, <1>1 DEF Riders
  <1>a. \/ RidesOnOther(t) /\ Continue(t, keys, TRUE, Tail(queue)) /\ UNCHANGED <<lock, answer>>
        \/ ~RidesOnOther(t) /\ StaleOrRaise(t, Tail(queue)) /\ UNCHANGED <<lock, answer>>
        \/ ~RidesOnOther(t) /\ retry = 0
    BY Zenon DEF TakeLock
  <1>b. retry = 0 => ~(retry > 0)
    OBVIOUS
  <1>4. CASE RidesOnOther(t) \/ retry > 0
    <2>1. PICK w, v :
             /\ Served(t, w, v, Tail(queue))
             /\ w = "reload" => kidCool = 0
             /\ kidCool' # kidCool => kidCool' = KidCooldown /\ t \in advanced
                                       /\ w = "idle"
      <3>1. CASE RidesOnOther(t) /\ Continue(t, keys, TRUE, Tail(queue))
        <4>1. PICK w, v :
                 /\ Served(t, w, v, Tail(queue))
                 /\ w = "reload" => kidCool = 0
                 /\ kidCool' # kidCool => kidCool' = KidCooldown /\ w = "idle"
          BY <3>1, ContinueServes
        <4>2. kidCool' # kidCool => t \in advanced
          BY <3>1, <1>2 DEF Continue, RidesOnOther, Waiting
        <4>. QED
          BY <4>1, <4>2
      <3>2. CASE ~RidesOnOther(t) /\ StaleOrRaise(t, Tail(queue))
        <4>1. CASE cold /\ Return(t, "unavailable") /\ queue' = Tail(queue) /\ UNCHANGED kidCool
          <5>. Served(t, "idle", "unavailable", Tail(queue))
            BY <4>1 DEF Return, Served
          <5>. QED
            BY <4>1
        <4>2. CASE Continue(t, keys, t \in advanced, Tail(queue))
          <5>1. CASE t \in advanced
            BY <1>2, <3>2, <5>1
          <5>2. CASE t \notin advanced
            <6>1. Continue(t, keys, FALSE, Tail(queue))
              BY <4>2, <5>2 DEF Continue, AfterReload
            <6>. QED
              BY <6>1, ContinueServes
          <5>. QED
            BY <5>1, <5>2
        <4>. QED
          BY <3>2, <4>1, <4>2 DEF StaleOrRaise
      <3>. QED
        BY <1>4, <1>a, <1>b, <3>1, <3>2
    <2>2. UNCHANGED <<lock, answer>>
      BY <1>4, <1>a, <1>b
    <2>3. /\ w \in {"idle", "reload"} /\ v \in {"none", "key", "unknown", "unavailable"}
          /\ w = "idle" <=> v # "none"
          /\ pc' = [pc EXCEPT ![t] = w] /\ out' = [out EXCEPT ![t] = v]
          /\ queue' = IF w = "reload" THEN Append(Tail(queue), t) ELSE Tail(queue)
      BY <2>1 DEF Served
    <2>4. /\ QueueIsWaiters' /\ FrontFirst(queue', advanced')
          /\ advanced' \subseteq Suspended'
      <3>1. \/ w \in Waiting /\ queue' = Append(Tail(queue), t)
            \/ w \notin Waiting /\ queue' = Tail(queue)
        BY <2>3 DEF Waiting
      <3>. QED
        BY <1>0, <1>2, <1>3, <2>3, <3>1, Requeued
    <2>5. TypeOK'
      <3>1. queue' \in Seq(Tasks)
        BY <2>4 DEF QueueIsWaiters, Lists
      <3>2. pc' \in [Tasks -> {"idle"} \cup Waiting \cup Fetching]
        BY <1>0, <2>3 DEF TypeOK, Waiting
      <3>3. /\ out' \in [Tasks -> {"none", "key", "unknown", "unavailable", "cancelled"}]
            /\ kidCool' \in 0..KidCooldown
        BY <1>0, <2>1, <2>3, CacheAssumption DEF TypeOK
      <3>. QED
        BY <1>0, <1>1, <2>2, <3>1, <3>2, <3>3, HistoryTyped DEF TypeOK
    <2>6. HolderFetches'
      BY <1>0, <1>1, <1>2, <2>2, <2>3, CacheAssumption
         DEF HolderFetches, TypeOK, Fetching, Waiting
    <2>7. Riders'
      BY <1>0, <1>1, <2>2, <2>4 DEF Riders
    <2>8. CooldownCoversMiss'
      <3>1. kidCool' + sinceMiss >= KidCooldown
        BY <1>0, <2>1, CacheAssumption DEF CooldownCoversMiss, TypeOK
      <3>2. kidCool' > 0 => age + kidCool' <= KidCooldown
        BY <1>0, <2>1, CacheAssumption DEF CooldownCoversMiss, Riders, TypeOK
      <3>3. \A u \in Tasks : pc'[u] = "reload" /\ u \notin advanced' => sinceMiss = KidCooldown
        BY <1>0, <1>1, <2>1, <2>3, CacheAssumption DEF CooldownCoversMiss, TypeOK
      <3>. QED
        BY <1>1, <3>1, <3>2, <3>3 DEF CooldownCoversMiss
    <2>9. RefetchesSpaced' /\ PendingHasNoResult'
      BY <1>0, <1>1, <2>3 DEF RefetchesSpaced, PendingHasNoResult, TypeOK
    <2>. QED
      BY <2>4, <2>5, <2>6, <2>7, <2>8, <2>9 DEF IndInv
  <1>5. CASE ~RidesOnOther(t) /\ ~(retry > 0)
    <2>1. /\ lock' = t /\ queue' = Tail(queue) /\ answer' = NoAnswer
          /\ UNCHANGED <<out, kidCool>>
          /\ pc' = [pc EXCEPT ![t] = IF @ = "load" THEN "fetch" ELSE "refetch"]
      BY <1>5 DEF TakeLock
    <2>2. advanced = {} /\ advanced' = {}
      BY <1>1, <1>2, <1>5
    <2>3. PICK w \in Fetching :
             /\ pc' = [pc EXCEPT ![t] = w]
             /\ w = "refetch" => pc[t] = "reload"
      BY <1>0, <1>2, <2>1 DEF Fetching, Waiting, TypeOK
    <2>4. /\ QueueIsWaiters' /\ FrontFirst(queue', advanced')
          /\ advanced' \subseteq Suspended'
      <3>1. w \notin Waiting
        BY <2>3 DEF Waiting, Fetching
      <3>. QED
        BY <1>0, <1>2, <1>3, <2>1, <2>3, <3>1, Requeued
    <2>5. TypeOK'
      <3>1. queue' \in Seq(Tasks)
        BY <2>4 DEF QueueIsWaiters, Lists
      <3>2. pc' \in [Tasks -> {"idle"} \cup Waiting \cup Fetching]
        BY <1>0, <2>3 DEF TypeOK
      <3>. QED
        BY <1>0, <1>1, <2>1, <3>1, <3>2, HistoryTyped DEF TypeOK
    <2>6. HolderFetches'
      BY <1>0, <1>1, <1>2, <2>1, <2>3, CacheAssumption
         DEF HolderFetches, TypeOK
    <2>7. Riders'
      BY <2>2, <2>4 DEF Riders
    <2>8. CooldownCoversMiss'
      BY <1>0, <1>1, <2>1, <2>2, <2>3 DEF CooldownCoversMiss, TypeOK, Fetching
    <2>9. RefetchesSpaced'
      BY <1>0, <1>1, <2>2, <2>3 DEF RefetchesSpaced, CooldownCoversMiss, TypeOK
    <2>10. PendingHasNoResult'
      BY <1>0, <1>2, <2>1, <2>3 DEF PendingHasNoResult, TypeOK, Waiting
    <2>. QED
      BY <2>4, <2>5, <2>6, <2>7, <2>8, <2>9, <2>10 DEF IndInv
  <1>. QED
    BY <1>4, <1>5

\* The task that fetches is in no queue, and no reading is out of date.
LEMMA FetcherAlone ==
    ASSUME IndInv, NEW t \in Tasks, pc[t] \in Fetching
    PROVE  /\ lock = t /\ t # NoTask /\ advanced = {}
           /\ Suspended \ {t} = Suspended
           /\ \A u \in Tasks : u # t => pc[u] \notin Fetching
  <1>1. lock = t /\ t # NoTask
    BY CacheAssumption DEF IndInv, HolderFetches
  <1>2. advanced = {}
    BY <1>1 DEF IndInv, Riders
  <1>3. Suspended \ {t} = Suspended
    BY DEF Suspended, Fetching, Waiting
  <1>4. \A u \in Tasks : u # t => pc[u] \notin Fetching
    BY <1>1 DEF IndInv, HolderFetches
  <1>. QED
    BY <1>1, <1>2, <1>3, <1>4

\* A fetch comes back with keys.
LEMMA FetchSucceedsInv ==
    ASSUME IndInv, NEW t \in Tasks, FetchSucceeds(t)
    PROVE  IndInv'
  <1>0. /\ TypeOK /\ HolderFetches /\ QueueIsWaiters /\ Riders
        /\ CooldownCoversMiss /\ RefetchesSpaced /\ PendingHasNoResult
    BY DEF IndInv
  <1>1. /\ pc[t] \in Fetching
        /\ answer # NoAnswer
        /\ keys' = answer.kids /\ cold' = FALSE /\ age' = 0
        /\ answer' = NoAnswer /\ lock' = NoTask
        /\ advanced' = Suspended
        /\ sinceMiss' = IF pc[t] = "refetch" /\ kid[t] \notin answer.kids THEN 0 ELSE sinceMiss
        /\ UNCHANGED <<realm, retry, kid>>
    BY DEF FetchSucceeds, Suspended
  <1>2. /\ lock = t /\ t # NoTask /\ Suspended \ {t} = Suspended
        /\ \A u \in Tasks : u # t => pc[u] \notin Fetching
    BY <1>1, FetcherAlone
  <1>3. PICK w, v :
           /\ Served(t, w, v, queue)
           /\ w = "reload" => kidCool = 0 /\ pc[t] \in {"load", "fetch"}
           /\ kidCool' # kidCool => kidCool' = KidCooldown /\ w = "idle"
           /\ pc[t] = "refetch" /\ kid[t] \notin answer.kids => kidCool' = KidCooldown
    <2>1. Continue(t, answer.kids, TRUE, queue)
      BY DEF FetchSucceeds
    <2>. QED
      BY <2>1, ContinueServes
  <1>4. /\ w \in {"idle", "reload"} /\ v \in {"none", "key", "unknown", "unavailable"}
        /\ w = "idle" <=> v # "none"
        /\ pc' = [pc EXCEPT ![t] = w] /\ out' = [out EXCEPT ![t] = v]
        /\ queue' = IF w = "reload" THEN Append(queue, t) ELSE queue
    BY <1>3 DEF Served
  <1>5. /\ QueueIsWaiters' /\ FrontFirst(queue', advanced')
        /\ advanced' \subseteq Suspended'
    <2>1. \/ w \in Waiting /\ queue' = Append(queue, t)
          \/ w \notin Waiting /\ queue' = queue
      BY <1>4 DEF Waiting
    <2>2. FrontFirst(queue, Suspended) /\ Lists(queue, Suspended)
      BY <1>0 DEF QueueIsWaiters, Lists, FrontFirst
    <2>. QED
      BY <1>0, <1>1, <1>2, <1>4, <2>1, <2>2, Requeued
  <1>6. TypeOK'
    <2>1. queue' \in Seq(Tasks)
      BY <1>5 DEF QueueIsWaiters, Lists
    <2>2. pc' \in [Tasks -> {"idle"} \cup Waiting \cup Fetching]
      BY <1>0, <1>4 DEF TypeOK, Waiting
    <2>3. /\ out' \in [Tasks -> {"none", "key", "unknown", "unavailable", "cancelled"}]
          /\ kidCool' \in 0..KidCooldown /\ sinceMiss' \in 0..KidCooldown /\ age' \in 0..TTL
      BY <1>0, <1>1, <1>3, <1>4, CacheAssumption DEF TypeOK
    <2>4. keys' \in SUBSET Kids /\ advanced' \in SUBSET Tasks /\ cold' \in BOOLEAN
      BY <1>0, <1>1 DEF TypeOK, Suspended
    <2>. QED
      BY <1>0, <1>1, <2>1, <2>2, <2>3, <2>4, HistoryTyped DEF TypeOK
  <1>7. HolderFetches'
    BY <1>0, <1>1, <1>2, <1>4, CacheAssumption DEF HolderFetches, TypeOK, Fetching
  <1>8. Riders'
    BY <1>1, <1>5 DEF Riders
  <1>9. CooldownCoversMiss'
    <2>1. kidCool' + sinceMiss' >= KidCooldown
      BY <1>0, <1>1, <1>3, CacheAssumption DEF CooldownCoversMiss, TypeOK
    <2>2. kidCool' > 0 => age' + kidCool' <= KidCooldown
      BY <1>0, <1>1, <1>3, CacheAssumption DEF TypeOK
    <2>3. \A u \in Tasks : pc'[u] = "reload" /\ u \notin advanced' => sinceMiss' = KidCooldown
      <3>1. \A u \in Tasks : u # t /\ pc'[u] = "reload" => u \in advanced'
        BY <1>0, <1>1, <1>4 DEF Suspended, Waiting, TypeOK
      <3>2. pc'[t] = "reload" => sinceMiss' = KidCooldown
        BY <1>0, <1>1, <1>3, <1>4, CacheAssumption DEF CooldownCoversMiss, TypeOK
      <3>. QED
        BY <3>1, <3>2
    <2>. QED
      BY <2>1, <2>2, <2>3 DEF CooldownCoversMiss
  <1>10. RefetchesSpaced'
    BY <1>0, <1>2, <1>4 DEF RefetchesSpaced, TypeOK, Fetching
  <1>11. PendingHasNoResult'
    BY <1>0, <1>4 DEF PendingHasNoResult, TypeOK
  <1>. QED
    BY <1>5, <1>6, <1>7, <1>8, <1>9, <1>10, <1>11 DEF IndInv

\* A fetch fails: the cooldown of unknown kids stays as it is.
LEMMA FetchFailsInv ==
    ASSUME IndInv, NEW t \in Tasks, FetchFails(t)
    PROVE  IndInv'
  <1>0. /\ TypeOK /\ HolderFetches /\ QueueIsWaiters /\ Riders
        /\ CooldownCoversMiss /\ RefetchesSpaced /\ PendingHasNoResult
    BY DEF IndInv
  <1>1. /\ pc[t] \in Fetching /\ answer' = NoAnswer /\ lock' = NoTask
        /\ retry' = RetryCooldown
        /\ UNCHANGED <<realm, cold, keys, age, sinceMiss, kid, advanced>>
    BY DEF FetchFails, cacheVars
  <1>2. /\ lock = t /\ t # NoTask /\ Suspended \ {t} = Suspended /\ advanced = {}
        /\ \A u \in Tasks : u # t => pc[u] \notin Fetching
    BY <1>1, FetcherAlone
  <1>3. PICK w, v :
           /\ Served(t, w, v, queue)
           /\ w = "reload" => kidCool = 0
           /\ kidCool' = kidCool
    <2>1. CASE cold /\ Return(t, "unavailable") /\ queue' = queue /\ UNCHANGED kidCool
      <3>. Served(t, "idle", "unavailable", queue)
        BY <2>1 DEF Return, Served
      <3>. QED
        BY <2>1
    <2>2. CASE Continue(t, keys, t \in advanced, queue)
      <3>1. Continue(t, keys, FALSE, queue)
        BY <1>2, <2>2 DEF Continue, AfterReload
      <3>. QED
        BY <3>1, ContinueServes
    <2>. QED
      BY <2>1, <2>2 DEF FetchFails, StaleOrRaise
  <1>4. /\ w \in {"idle", "reload"} /\ v \in {"none", "key", "unknown", "unavailable"}
        /\ w = "idle" <=> v # "none"
        /\ pc' = [pc EXCEPT ![t] = w] /\ out' = [out EXCEPT ![t] = v]
        /\ queue' = IF w = "reload" THEN Append(queue, t) ELSE queue
    BY <1>3 DEF Served
  <1>5. /\ QueueIsWaiters' /\ FrontFirst(queue', advanced')
        /\ advanced' \subseteq Suspended'
    <2>1. \/ w \in Waiting /\ queue' = Append(queue, t)
          \/ w \notin Waiting /\ queue' = queue
      BY <1>4 DEF Waiting
    <2>2. FrontFirst(queue, advanced) /\ Lists(queue, Suspended)
      BY <1>0 DEF QueueIsWaiters, Riders
    <2>. QED
      BY <1>0, <1>1, <1>2, <1>4, <2>1, <2>2, Requeued
  <1>6. TypeOK'
    <2>1. queue' \in Seq(Tasks)
      BY <1>5 DEF QueueIsWaiters, Lists
    <2>2. pc' \in [Tasks -> {"idle"} \cup Waiting \cup Fetching]
      BY <1>0, <1>4 DEF TypeOK, Waiting
    <2>3. /\ out' \in [Tasks -> {"none", "key", "unknown", "unavailable", "cancelled"}]
          /\ kidCool' \in 0..KidCooldown /\ retry' \in 0..RetryCooldown
      BY <1>0, <1>1, <1>3, <1>4, CacheAssumption DEF TypeOK
    <2>. QED
      BY <1>0, <1>1, <2>1, <2>2, <2>3, HistoryTyped DEF TypeOK
  <1>7. HolderFetches'
    BY <1>0, <1>1, <1>2, <1>4, CacheAssumption DEF HolderFetches, TypeOK, Fetching
  <1>8. Riders'
    BY <1>1, <1>2, <1>5 DEF Riders
  <1>9. CooldownCoversMiss'
    BY <1>0, <1>1, <1>3, <1>4, CacheAssumption DEF CooldownCoversMiss, TypeOK
  <1>10. RefetchesSpaced'
    BY <1>0, <1>2, <1>4 DEF RefetchesSpaced, TypeOK, Fetching
  <1>11. PendingHasNoResult'
    BY <1>0, <1>4 DEF PendingHasNoResult, TypeOK
  <1>. QED
    BY <1>5, <1>6, <1>7, <1>8, <1>9, <1>10, <1>11 DEF IndInv

\* A caller goes away, waiting or fetching.
LEMMA CancelInv ==
    ASSUME IndInv, NEW t \in Tasks, Cancel(t)
    PROVE  IndInv'
  <1>0. /\ TypeOK /\ HolderFetches /\ QueueIsWaiters /\ Riders
        /\ CooldownCoversMiss /\ RefetchesSpaced /\ PendingHasNoResult
    BY DEF IndInv
  <1>1. /\ pc' = [pc EXCEPT ![t] = "idle"] /\ out' = [out EXCEPT ![t] = "cancelled"]
        /\ lock' = IF lock = t THEN NoTask ELSE lock
        /\ answer' = IF lock = t THEN NoAnswer ELSE answer
        /\ advanced' = advanced \ {t}
        /\ UNCHANGED <<realm, cold, keys, age, retry, kidCool, sinceMiss, kid>>
    BY DEF Cancel, Return, cacheVars, timeVars
  <1>2. Lists(queue', Suspended \ {t}) /\ FrontFirst(queue', advanced \ {t})
    <2>1. CASE pc[t] \notin Waiting /\ UNCHANGED queue
      <3>1. Suspended \ {t} = Suspended /\ advanced \ {t} = advanced
        BY <1>0, <2>1 DEF Suspended, Riders
      <3>. QED
        BY <1>0, <2>1, <3>1 DEF QueueIsWaiters, Riders
    <2>2. ASSUME NEW i \in 1..Len(queue), queue[i] = t,
                 queue' = SubSeq(queue, 1, i - 1) \o SubSeq(queue, i + 1, Len(queue))
          PROVE  Lists(queue', Suspended \ {t}) /\ FrontFirst(queue', advanced \ {t})
      <3>1. queue \in Seq(Tasks)
        BY <1>0 DEF TypeOK
      <3>2. Without(queue', queue, i)
        BY <2>2, <3>1, CutOut
      <3>. QED
        BY <1>0, <2>2, <3>2, WaiterLeaves DEF QueueIsWaiters, Riders
    <2>. QED
      BY <2>1, <2>2 DEF Cancel, Leave
  <1>3. /\ QueueIsWaiters' /\ FrontFirst(queue', advanced')
        /\ advanced' \subseteq Suspended'
    <2>1. "idle" \notin Waiting /\ advanced' \subseteq Suspended \ {t}
      BY <1>0, <1>1 DEF Waiting, Riders
    <2>. QED
      BY <1>0, <1>1, <1>2, <2>1, Requeued
  <1>4. TypeOK'
    <2>1. queue' \in Seq(Tasks)
      BY <1>3 DEF QueueIsWaiters, Lists
    <2>2. pc' \in [Tasks -> {"idle"} \cup Waiting \cup Fetching]
      BY <1>0, <1>1 DEF TypeOK
    <2>3. out' \in [Tasks -> {"none", "key", "unknown", "unavailable", "cancelled"}]
      BY <1>0, <1>1 DEF TypeOK
    <2>. QED
      BY <1>0, <1>1, <2>1, <2>2, <2>3, HistoryTyped DEF TypeOK
  <1>5. HolderFetches'
    BY <1>0, <1>1, CacheAssumption DEF HolderFetches, TypeOK, Fetching
  <1>6. Riders'
    BY <1>0, <1>1, <1>3 DEF Riders
  <1>7. CooldownCoversMiss'
    BY <1>0, <1>1 DEF CooldownCoversMiss, TypeOK
  <1>8. RefetchesSpaced' /\ PendingHasNoResult'
    BY <1>0, <1>1 DEF RefetchesSpaced, PendingHasNoResult, TypeOK
  <1>. QED
    BY <1>3, <1>4, <1>5, <1>6, <1>7, <1>8 DEF IndInv

\* Keycloak and the clock.  Time passes only when nobody waits for a free
\* lock, so no reading is out of date.
LEMMA EnvironmentInv ==
    ASSUME IndInv, Respond \/ RotateRealm \/ Tick \/ UNCHANGED vars
    PROVE  IndInv'
  <1>0. /\ TypeOK /\ HolderFetches /\ QueueIsWaiters /\ Riders
        /\ CooldownCoversMiss /\ RefetchesSpaced /\ PendingHasNoResult
    BY DEF IndInv
  <1>1. UNCHANGED <<cold, keys, lock, queue, pc, kid, advanced, out>>
    BY DEF Respond, RotateRealm, Tick, vars, cacheVars, taskVars
  <1>2. HolderFetches' /\ QueueIsWaiters' /\ PendingHasNoResult'
    BY <1>0, <1>1
       DEF HolderFetches, QueueIsWaiters, Lists, Suspended, PendingHasNoResult
  <1>3. CASE UNCHANGED <<age, retry, kidCool, sinceMiss>>
    <2>1. realm' \in SUBSET Kids /\ (answer' = NoAnswer \/ answer' \in [kids : SUBSET Kids])
      BY <1>0 DEF Respond, RotateRealm, Tick, vars, TypeOK
    <2>2. TypeOK'
      BY <1>0, <1>1, <1>3, <2>1, HistoryTyped DEF TypeOK
    <2>3. Riders' /\ CooldownCoversMiss' /\ RefetchesSpaced'
      BY <1>0, <1>1, <1>3
         DEF Riders, CooldownCoversMiss, RefetchesSpaced, FrontFirst, Suspended
    <2>. QED
      BY <1>2, <2>2, <2>3 DEF IndInv
  <1>4. CASE Tick
    <2>1. /\ lock = NoTask => queue = <<>>
          /\ age' = Cap(age, TTL) /\ retry' = Less(retry) /\ kidCool' = Less(kidCool)
          /\ sinceMiss' = Cap(sinceMiss, KidCooldown)
          /\ UNCHANGED <<realm, answer>>
      BY <1>4 DEF Tick
    <2>2. advanced = {}
      <3> SUFFICES ASSUME NEW u \in advanced PROVE FALSE
        OBVIOUS
      <3>1. queue = <<>> /\ u \in Suspended
        BY <1>0, <2>1 DEF Riders
      <3>2. \E i \in 1..Len(<<>>) : <<>>[i] = u
        BY <1>0, <3>1 DEF QueueIsWaiters, Lists
      <3>3. Len(<<>>) = 0
        BY EmptySeq
      <3>4. 1..0 = {}
        OBVIOUS
      <3>. QED
        BY <3>2, <3>3, <3>4
    <2>3. /\ age' \in 0..TTL /\ retry' \in 0..RetryCooldown
          /\ kidCool' \in 0..KidCooldown /\ sinceMiss' \in 0..KidCooldown
      BY <1>0, <2>1, CacheAssumption DEF Cap, Less, TypeOK
    <2>4. TypeOK'
      BY <1>0, <1>1, <2>1, <2>3, HistoryTyped DEF TypeOK
    <2>5. Riders'
      BY <1>0, <1>1, <2>2 DEF Riders, FrontFirst
    <2>6. CooldownCoversMiss' /\ RefetchesSpaced'
      <3>1. kidCool' + sinceMiss' >= KidCooldown
        BY <1>0, <2>1, CacheAssumption DEF Cap, Less, TypeOK, CooldownCoversMiss
      <3>2. kidCool' > 0 => age' + kidCool' <= KidCooldown
        BY <1>0, <2>1, CacheAssumption DEF Cap, Less, TypeOK, CooldownCoversMiss
      <3>3. sinceMiss = KidCooldown => sinceMiss' = KidCooldown
        BY <1>0, <2>1, CacheAssumption DEF Cap
      <3>. QED
        BY <1>0, <1>1, <3>1, <3>2, <3>3 DEF CooldownCoversMiss, RefetchesSpaced
    <2>. QED
      BY <1>2, <2>4, <2>5, <2>6 DEF IndInv
  <1>. QED
    BY <1>3, <1>4 DEF Respond, RotateRealm, vars, timeVars

-----------------------------------------------------------------------------
(* The theorems                                                            *)

\* IndInv holds at the start and after every step.
THEOREM IndInvHolds == Spec => []IndInv
  <1>1. Init => IndInv
    <2> SUFFICES ASSUME Init PROVE IndInv
      OBVIOUS
    <2>1. TypeOK
      BY CacheAssumption, EmptySeq DEF Init, TypeOK
    <2>2. Suspended = {}
      BY DEF Init, Suspended, Waiting
    <2>3. Len(queue) = 0 /\ 1..0 = {} /\ queue \in Seq(Tasks)
      BY EmptySeq DEF Init
    <2>4. QueueIsWaiters /\ Riders
      BY <2>2, <2>3 DEF Init, QueueIsWaiters, Riders, Lists, FrontFirst
    <2>5. HolderFetches
      BY CacheAssumption DEF Init, HolderFetches, Fetching
    <2>6. CooldownCoversMiss /\ RefetchesSpaced /\ PendingHasNoResult
      BY CacheAssumption DEF Init, CooldownCoversMiss, RefetchesSpaced, PendingHasNoResult
    <2>. QED
      BY <2>1, <2>4, <2>5, <2>6 DEF IndInv
  <1>2. IndInv /\ [Next]_vars => IndInv'
    BY SigningKeyInv, TakeLockInv, FetchSucceedsInv, FetchFailsInv, CancelInv,
       EnvironmentInv
       DEF Next
  <1>. QED
    BY <1>1, <1>2, PTL DEF Spec

\* Every variable keeps its type.
THEOREM TypeCorrect == Spec => []TypeOK
  BY IndInvHolds, PTL DEF IndInv

\* While anybody who saw a fetch end is still waiting, the lock is free, and
\* what keeps the waiters from asking again is the key set that fetch brought,
\* or the cooldown it started.
HistoryInv ==
    /\ outlasted \subseteq Suspended /\ stalled \subseteq Suspended
    /\ outlasted # {} \/ stalled # {} => lock = NoTask
    /\ outlasted \subseteq advanced \/ retry > 0
    /\ stalled = {} \/ retry > 0

\* Every step keeps the history in order.
LEMMA HistoryKept ==
    ASSUME IndInv, HistoryInv, [Next]_vars
    PROVE  HistoryInv'
  <1>0. TypeOK /\ HolderFetches /\ QueueIsWaiters /\ Riders
    BY DEF IndInv
  <1>1. ASSUME NEW t \in Tasks, NEW k \in Kids, SigningKey(t, k) PROVE HistoryInv'
    <2>1. UNCHANGED <<outlasted, stalled, advanced, retry, lock>> /\ pc[t] = "idle"
      BY <1>1 DEF SigningKey, timeVars, history
    <2>2. Suspended \subseteq Suspended'
      <3>1. PICK w : pc' = [pc EXCEPT ![t] = w]
        BY <1>1 DEF SigningKey, AfterLoad, Return, Join
      <3>. QED
        BY <1>0, <2>1, <3>1 DEF Suspended, TypeOK, Waiting
    <2>. QED
      BY <2>1, <2>2 DEF HistoryInv
  <1>2. ASSUME NEW t \in Tasks, TakeLock(t) PROVE HistoryInv'
    <2>1. /\ queue # <<>> /\ Head(queue) = t /\ lock = NoTask
          /\ advanced' = advanced \ {t} /\ UNCHANGED retry
          /\ outlasted' = (IF lock' = t THEN outlasted ELSE outlasted \ {t})
          /\ stalled' = Outlives(t, stalled)
      BY <1>2 DEF TakeLock
    <2>2. advanced # {} => t \in advanced /\ RidesOnOther(t)
      BY <2>1, FrontRides
    <2>3. CASE retry = 0 /\ ~RidesOnOther(t)
      <3>1. advanced = {} /\ outlasted = {} /\ stalled = {}
        BY <2>2, <2>3 DEF HistoryInv
      <3>. QED
        BY <2>1, <3>1 DEF HistoryInv, Outlives
    <2>4. CASE ~(retry = 0 /\ ~RidesOnOther(t))
      <3>1. lock' = lock
        BY <1>2, <2>4 DEF TakeLock
      <3>2. PICK w \in {"idle", "reload"} : pc' = [pc EXCEPT ![t] = w]
        <4>1. \A K, moved : Continue(t, K, moved, Tail(queue)) =>
                 \E w \in {"idle", "reload"} : pc' = [pc EXCEPT ![t] = w]
          BY ContinueServes DEF Served
        <4>. QED
          BY <1>2, <2>4, <4>1 DEF TakeLock, StaleOrRaise, Return
      <3>3. outlasted' = outlasted \ {t} /\ lock' = NoTask
        BY <2>1, <3>1, CacheAssumption
      <3>4. stalled' \subseteq stalled /\ (t \in stalled' => w = "reload")
        BY <1>0, <2>1, <3>2 DEF Outlives, TypeOK
      <3>5. outlasted' \subseteq Suspended' /\ stalled' \subseteq Suspended'
        BY <1>0, <3>2, <3>3, <3>4 DEF HistoryInv, Suspended, TypeOK, Waiting
      <3>. QED
        BY <2>1, <3>3, <3>4, <3>5 DEF HistoryInv
    <2>. QED
      BY <2>3, <2>4
  <1>3. ASSUME NEW t \in Tasks, FetchSucceeds(t) \/ FetchFails(t) PROVE HistoryInv'
    <2>1. pc[t] \in Fetching /\ outlasted' = Others(t) /\ lock' = NoTask
      BY <1>3 DEF FetchSucceeds, FetchFails
    <2>2. lock = t /\ t # NoTask /\ \A u \in Tasks : u # t => pc[u] \notin Fetching
      BY <2>1, FetcherAlone
    <2>3. Others(t) = Suspended
      BY <1>0, <2>1, <2>2 DEF Others, Suspended, TypeOK, Waiting, Fetching
    <2>4. PICK w \in {"idle", "reload"} : pc' = [pc EXCEPT ![t] = w]
      <3>1. \A K, moved : Continue(t, K, moved, queue) =>
               \E w \in {"idle", "reload"} : pc' = [pc EXCEPT ![t] = w]
        BY ContinueServes DEF Served
      <3>. QED
        BY <1>3, <3>1 DEF FetchSucceeds, FetchFails, StaleOrRaise, Return
    <2>5. Suspended \subseteq Suspended' /\ (w = "reload" => t \in Suspended')
      BY <1>0, <2>1, <2>4 DEF Suspended, TypeOK, Waiting, Fetching
    <2>6. CASE FetchSucceeds(t)
      <3>1. advanced' = Suspended /\ stalled' = Outlives(t, stalled)
        BY <2>6 DEF FetchSucceeds, Suspended
      <3>2. stalled' = {}
        BY <2>2, <3>1 DEF HistoryInv, Outlives
      <3>. QED
        BY <2>1, <2>3, <2>5, <3>1, <3>2 DEF HistoryInv
    <2>7. CASE FetchFails(t)
      <3>1. retry' > 0 /\ stalled' = Outlives(t, Others(t) \cup {t})
        BY <2>7, CacheAssumption DEF FetchFails
      <3>2. stalled' \subseteq Suspended'
        BY <1>0, <2>3, <2>4, <2>5, <3>1 DEF Outlives, TypeOK
      <3>. QED
        BY <2>1, <2>3, <2>5, <3>1, <3>2 DEF HistoryInv
    <2>. QED
      BY <1>3, <2>6, <2>7
  <1>4. ASSUME NEW t \in Tasks, Cancel(t) PROVE HistoryInv'
    <2>1. /\ pc' = [pc EXCEPT ![t] = "idle"] /\ lock' = IF lock = t THEN NoTask ELSE lock
          /\ advanced' = advanced \ {t} /\ outlasted' = outlasted \ {t}
          /\ stalled' = stalled \ {t} /\ UNCHANGED retry
      BY <1>4 DEF Cancel, Return, timeVars
    <2>2. Suspended \ {t} \subseteq Suspended'
      BY <1>0, <2>1 DEF Suspended, TypeOK
    <2>. QED
      BY <2>1, <2>2 DEF HistoryInv
  <1>5. CASE Tick
    <2>1. /\ lock = NoTask => queue = <<>>
          /\ UNCHANGED <<outlasted, stalled, advanced, lock, pc>>
      BY <1>5 DEF Tick, taskVars, history
    <2>2. lock = NoTask => Suspended = {}
      <3> SUFFICES ASSUME lock = NoTask, NEW u \in Suspended PROVE FALSE
        OBVIOUS
      <3>1. \E i \in 1..Len(<<>>) : <<>>[i] = u
        BY <1>0, <2>1 DEF QueueIsWaiters, Lists
      <3>2. Len(<<>>) = 0
        BY EmptySeq
      <3>3. 1..0 = {}
        OBVIOUS
      <3>. QED
        BY <3>1, <3>2, <3>3
    <2>3. outlasted = {} /\ stalled = {}
      BY <2>2 DEF HistoryInv
    <2>. QED
      BY <2>1, <2>3 DEF HistoryInv
  <1>6. CASE Respond \/ RotateRealm \/ UNCHANGED vars
    BY <1>6 DEF Respond, RotateRealm, vars, taskVars, timeVars, history, HistoryInv, Suspended
  <1>. QED
    BY <1>1, <1>2, <1>3, <1>4, <1>5, <1>6 DEF Next

\* The history is in order at the start and after every step.
THEOREM HistoryInvHolds == Spec => []HistoryInv
  <1>1. Init => HistoryInv
    BY DEF Init, HistoryInv
  <1>. QED
    BY <1>1, HistoryKept, IndInvHolds, PTL DEF Spec

\* Of any number of tasks that wait together, one fetches: who saw another's
\* fetch end while it waited sends no request of its own.
THEOREM BurstFetchesOnce == Spec => []OneFetchPerBurst
  <1>1. HistoryInv => OneFetchPerBurst
    BY DEF HistoryInv, OneFetchPerBurst, Suspended, Waiting, Fetching
  <1>. QED
    BY <1>1, HistoryInvHolds, PTL

\* In an outage every call pays for one failed fetch at most, however many
\* calls there are.
THEOREM OutageCostsOneTimeout == Spec => []OneTimeoutPerCall
  <1>1. HistoryInv => OneTimeoutPerCall
    BY DEF HistoryInv, OneTimeoutPerCall
  <1>. QED
    BY <1>1, HistoryInvHolds, PTL

\* However many tasks passed the cooldown check before a miss came back, no
\* refetch starts within the cooldown of it: they ride on the fetch that
\* missed.
THEOREM RefetchFloor == Spec => []RefetchesSpaced
  BY IndInvHolds, PTL DEF IndInv

\* What justifies the outcome a step gives a call of t.
Grounds(t) ==
    /\ out'[t] = "unknown" /\ (out[t] # "unknown" \/ pc[t] # "idle")
          => age' <= KidCooldown \/ retry' > 0
    /\ out'[t] = "key" /\ (out[t] # "key" \/ pc[t] # "idle")
          => ~cold' /\ (age' < TTL \/ retry' > 0)

\* A running cooldown, or a reading out of date, means a recent key set.
LEMMA EvidenceIsRecent ==
    ASSUME IndInv, kidCool > 0 \/ advanced # {}
    PROVE  age <= KidCooldown
  BY CacheAssumption DEF IndInv, TypeOK, CooldownCoversMiss, Riders

\* Every outcome of every step has its grounds.
LEMMA StepsHaveGrounds ==
    ASSUME IndInv, [Next]_vars, NEW t \in Tasks
    PROVE  Grounds(t)
  <1>0. TypeOK /\ PendingHasNoResult
    BY DEF IndInv
  <1>1. ASSUME out'[t] = out[t] PROVE Grounds(t)
    BY <1>0, <1>1 DEF PendingHasNoResult, Grounds
  <1>2. ASSUME NEW u \in Tasks, NEW v, out' = [out EXCEPT ![u] = v], u # t
        PROVE  Grounds(t)
    BY <1>0, <1>1, <1>2 DEF TypeOK
  <1>3. ASSUME NEW v, out' = [out EXCEPT ![t] = v], v \notin {"key", "unknown", "unavailable"}
        PROVE  Grounds(t)
    BY <1>0, <1>3 DEF TypeOK, Grounds
  <1>4. ASSUME NEW u \in Tasks, NEW k \in Kids, SigningKey(u, k) PROVE Grounds(t)
    <2>1. UNCHANGED <<cold, age, retry>>
      BY <1>4 DEF SigningKey, cacheVars, timeVars
    <2>2. PICK v : out' = [out EXCEPT ![u] = v] /\ v \in {"none", "key", "unknown"}
      BY <1>4 DEF SigningKey, AfterLoad, Return, Join
    <2>3. CASE u = t /\ IsFresh /\ AfterLoad(u, k, keys, queue)
      <3>1. kidCool > 0 => age <= KidCooldown
        BY EvidenceIsRecent
      <3>2. out'[t] = "unknown" => kidCool > 0
        BY <1>0, <2>3 DEF AfterLoad, Return, Join, TypeOK
      <3>3. out'[t] \in {"none", "key", "unknown"}
        BY <1>0, <2>2, <2>3 DEF TypeOK
      <3>. QED
        BY <2>1, <2>3, <3>1, <3>2, <3>3 DEF Grounds, IsFresh
    <2>4. CASE u = t /\ Join(u, "load", queue)
      BY <2>4, <1>3 DEF Join
    <2>. QED
      BY <1>2, <1>4, <2>2, <2>3, <2>4 DEF SigningKey
  <1>5. ASSUME NEW u \in Tasks, TakeLock(u) PROVE Grounds(t)
    <2>1. /\ queue # <<>> /\ Head(queue) = u /\ UNCHANGED <<cold, age, retry>>
      BY <1>5 DEF TakeLock, cacheVars
    <2>2. /\ pc[u] \in Waiting
          /\ u \in advanced => IsFresh
      BY <2>1, FrontRides
    <2>3. CASE RidesOnOther(u) /\ Continue(u, keys, TRUE, Tail(queue))
      <3>1. PICK w, v :
               /\ Served(u, w, v, Tail(queue)) /\ v # "unavailable"
               /\ v = "unknown" => kidCool > 0 \/ pc[u] \in {"reload", "refetch"}
        BY <2>3, ContinueServes
      <3>2. out' = [out EXCEPT ![u] = v] /\ v \in {"none", "key", "unknown"}
        BY <3>1 DEF Served
      <3>3. IsFresh /\ (pc[u] \in {"reload", "refetch"} => u \in advanced)
        BY <2>2, <2>3 DEF RidesOnOther, Waiting
      <3>4. v = "unknown" => age <= KidCooldown
        BY <3>1, <3>3, EvidenceIsRecent
      <3>5. CASE u = t
        <4>1. out'[t] = v
          BY <1>0, <3>2, <3>5 DEF TypeOK
        <4>. QED
          BY <2>1, <3>2, <3>3, <3>4, <4>1 DEF Grounds, IsFresh
      <3>. QED
        BY <1>2, <3>2, <3>5
    <2>4. CASE retry > 0 /\ StaleOrRaise(u, Tail(queue))
      <3>1. PICK v : /\ out' = [out EXCEPT ![u] = v]
                     /\ v \in {"none", "key", "unknown", "unavailable"}
                     /\ IF cold THEN v = "unavailable" ELSE v # "unavailable"
        <4>1. CASE cold /\ Return(u, "unavailable")
          BY <4>1 DEF Return
        <4>2. CASE ~cold /\ Continue(u, keys, u \in advanced, Tail(queue))
          BY <4>2, ContinueServes DEF Served
        <4>. QED
          BY <2>4, <4>1, <4>2 DEF StaleOrRaise
      <3>2. CASE u = t
        <4>1. out'[t] = v
          BY <1>0, <3>1, <3>2 DEF TypeOK
        <4>. QED
          BY <2>1, <2>4, <3>1, <4>1 DEF Grounds
      <3>. QED
        BY <1>2, <3>1, <3>2
    <2>5. CASE UNCHANGED out
      BY <1>1, <2>5
    <2>. QED
      BY <1>5, <2>3, <2>4, <2>5, Zenon DEF TakeLock
  <1>6. ASSUME NEW u \in Tasks, FetchSucceeds(u) PROVE Grounds(t)
    <2>1. cold' = FALSE /\ age' = 0 /\ Continue(u, answer.kids, TRUE, queue)
      BY <1>6 DEF FetchSucceeds
    <2>2. PICK w, v : Served(u, w, v, queue) /\ v # "unavailable"
      BY <2>1, ContinueServes
    <2>3. out' = [out EXCEPT ![u] = v] /\ v # "unavailable"
      BY <2>2 DEF Served
    <2>4. CASE u = t
      <3>1. out'[t] = v
        BY <1>0, <2>3, <2>4 DEF TypeOK
      <3>. QED
        BY <2>1, <2>3, <3>1, CacheAssumption DEF Grounds
    <2>. QED
      BY <1>2, <2>3, <2>4
  <1>7. ASSUME NEW u \in Tasks, FetchFails(u) PROVE Grounds(t)
    <2>1. /\ retry' = RetryCooldown /\ UNCHANGED cold
          /\ StaleOrRaise(u, queue)
      BY <1>7 DEF FetchFails, cacheVars
    <2>2. PICK v : /\ out' = [out EXCEPT ![u] = v]
                   /\ v \in {"none", "key", "unknown", "unavailable"}
                   /\ IF cold THEN v = "unavailable" ELSE v # "unavailable"
      <3>1. CASE cold /\ Return(u, "unavailable")
        BY <3>1 DEF Return
      <3>2. CASE ~cold /\ Continue(u, keys, u \in advanced, queue)
        BY <3>2, ContinueServes DEF Served
      <3>. QED
        BY <2>1, <3>1, <3>2 DEF StaleOrRaise
    <2>3. CASE u = t
      <3>1. out'[t] = v
        BY <1>0, <2>2, <2>3 DEF TypeOK
      <3>. QED
        BY <2>1, <2>2, <3>1, CacheAssumption DEF Grounds
    <2>. QED
      BY <1>2, <2>2, <2>3
  <1>8. ASSUME NEW u \in Tasks, Cancel(u) PROVE Grounds(t)
    BY <1>2, <1>3, <1>8 DEF Cancel, Return
  <1>9. CASE Respond \/ RotateRealm \/ Tick \/ UNCHANGED vars
    BY <1>1, <1>9 DEF Respond, RotateRealm, Tick, vars, taskVars
  <1>. QED
    BY <1>4, <1>5, <1>6, <1>7, <1>8, <1>9 DEF Next

\* A kid is refused only on recent evidence: a key set fetched within the
\* cooldown, or an attempt to fetch one that failed and is held off.
THEOREM RefusalsAreJustified == Spec => RefusalHasEvidence
  <1>1. IndInv /\ [Next]_vars => [RefusalStep]_vars
    BY StepsHaveGrounds DEF Grounds, RefusalStep
  <1>. QED
    BY <1>1, IndInvHolds, PTL DEF Spec, RefusalHasEvidence

\* A token is accepted on an expired key set only while a failed fetch is
\* held off.
THEOREM StaleKeysAreJustified == Spec => StaleOnlyAfterFailure
  <1>1. IndInv /\ [Next]_vars => [StaleStep]_vars
    BY StepsHaveGrounds DEF Grounds, StaleStep
  <1>. QED
    BY <1>1, IndInvHolds, PTL DEF Spec, StaleOnlyAfterFailure
=============================================================================
