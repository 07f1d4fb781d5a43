------------------------ MODULE StarRocksPoolProofs ------------------------
(***************************************************************************)
(* Invariance proofs for StarRocksPool, for any number of requests, pools  *)
(* and tenants.  IndInv is inductive; the properties of interest are       *)
(* conjuncts of it or follow from it.  Two frame lemmas dispose of the     *)
(* conjuncts an action cannot disturb: PoolFrame for the steps of          *)
(* lifespan() and of the refresh task that leave pools and requests alone, *)
(* RequestFrame for the steps of cursor().                                 *)
(***************************************************************************)
EXTENDS StarRocksPool, FiniteSetTheorems, TLAPS

IndInv ==
    /\ TypeOK
    /\ LifespanTracksPool
    /\ DrainsFollowHandover
    /\ RequestsNamePools
    /\ NoPoolLeaked
    /\ CheckoutsBalance
    /\ ClosedPoolsUnused
    /\ NoRefusalBeforeStop

\* The initial state satisfies the inductive invariant.
LEMMA InitIndInv == Init => IndInv
<1> SUFFICES ASSUME Init PROVE IndInv
  OBVIOUS
<1>1. TypeOK
  BY PoolAssumption DEF Init, TypeOK, Phases, TaskStates, Results, Pools
<1>2. LifespanTracksPool /\ DrainsFollowHandover
  BY DEF Init, LifespanTracksPool, DrainsFollowHandover, TaskRuns
<1>3. RequestsNamePools /\ NoPoolLeaked /\ CheckoutsBalance
  BY DEF Init, RequestsNamePools, NoPoolLeaked, CheckoutsBalance
<1>4. ClosedPoolsUnused /\ NoRefusalBeforeStop
  BY DEF Init, ClosedPoolsUnused, NoRefusalBeforeStop
<1>5. QED
  BY <1>1, <1>2, <1>3, <1>4 DEF IndInv

\* Pools and requests are untouched: what relates them still holds.
LEMMA PoolFrame ==
    ASSUME RequestsNamePools, NoPoolLeaked, CheckoutsBalance, ClosedPoolsUnused,
           UNCHANGED <<made, current, closing, closed, idle, used, pc, local>>
    PROVE  /\ RequestsNamePools' /\ NoPoolLeaked'
           /\ CheckoutsBalance' /\ ClosedPoolsUnused'
<1>1. RequestsNamePools' /\ NoPoolLeaked'
  BY DEF RequestsNamePools, NoPoolLeaked
<1>2. CheckoutsBalance' /\ ClosedPoolsUnused'
  BY DEF CheckoutsBalance, ClosedPoolsUnused
<1>3. QED
  BY <1>1, <1>2

\* Lifespan, task and the set of pools are untouched, and a pool without
\* free connections gets one only while it is open.
LEMMA RequestFrame ==
    ASSUME TypeOK, LifespanTracksPool, DrainsFollowHandover, NoPoolLeaked,
           UNCHANGED <<phase, entered, task, old, made, current, closing, closed>>,
           \A p \in closing : idle[p] = 0 => idle'[p] = 0
    PROVE  LifespanTracksPool' /\ DrainsFollowHandover' /\ NoPoolLeaked'
<1>1. LifespanTracksPool'
  BY DEF LifespanTracksPool, TaskRuns
<1>2. DrainsFollowHandover'
  BY DEF DrainsFollowHandover
<1>3. NoPoolLeaked'
  BY DEF NoPoolLeaked
<1>4. QED
  BY <1>1, <1>2, <1>3

\* The steps of lifespan() preserve it.
LEMMA LifespanIndInv == IndInv /\ (LifespanStep \/ Shutdown) => IndInv'
<1> SUFFICES ASSUME IndInv, LifespanStep \/ Shutdown
             PROVE  IndInv'
  OBVIOUS
<1>0. /\ TypeOK /\ LifespanTracksPool /\ DrainsFollowHandover
      /\ RequestsNamePools /\ NoPoolLeaked /\ CheckoutsBalance
      /\ ClosedPoolsUnused /\ NoRefusalBeforeStop
  BY DEF IndInv
<1>1. CASE ResolveCredentials
  <2>1. UNCHANGED <<made, current, closing, closed, idle, used, pc, local, result>>
    BY <1>1 DEF ResolveCredentials, poolVars, requestVars
  <2>2. TypeOK'
    BY <1>0, <1>1, <2>1, PoolAssumption DEF ResolveCredentials, TypeOK, Phases, TaskStates, taskVars, lifespanVars
  <2>3. LifespanTracksPool'
    BY <1>0, <1>1, <2>1
       DEF ResolveCredentials, TypeOK, LifespanTracksPool, TaskRuns, taskVars, lifespanVars
  <2>4. DrainsFollowHandover'
    BY <1>0, <1>1, <2>1
       DEF ResolveCredentials, TypeOK, LifespanTracksPool, DrainsFollowHandover, TaskRuns,
           taskVars, lifespanVars
  <2>5. NoRefusalBeforeStop'
    BY <1>0, <1>1, <2>1 DEF ResolveCredentials, NoRefusalBeforeStop, lifespanVars
  <2>6. QED
    BY <1>0, <2>1, <2>2, <2>3, <2>4, <2>5, PoolFrame DEF IndInv
<1>2. CASE Start
  <2>1. made = 0 /\ current = 0 /\ closing = {} /\ closed = {} /\ 1 \in Pools
    BY <1>0, <1>2, PoolAssumption
       DEF Start, TypeOK, LifespanTracksPool, DrainsFollowHandover, Pools
  <2>2. CASE UNCHANGED <<task, made, current, idle>> /\ phase' = "failed"
    <3>1. UNCHANGED <<entered, old, closing, closed, used, pc, local, result>>
      BY <1>2 DEF Start, requestVars
    <3>2. TypeOK'
      BY <1>0, <2>2, <3>1, PoolAssumption DEF TypeOK, Phases
    <3>3. LifespanTracksPool' /\ DrainsFollowHandover'
      BY <1>0, <1>2, <2>1, <2>2, <3>1
         DEF Start, LifespanTracksPool, DrainsFollowHandover, TaskRuns
    <3>4. NoRefusalBeforeStop'
      BY <1>0, <1>2, <2>2, <3>1 DEF Start, NoRefusalBeforeStop
    <3>5. QED
      BY <1>0, <2>2, <3>1, <3>2, <3>3, <3>4, PoolFrame DEF IndInv
  <2>3. CASE phase' = "entering"
    <3>1. /\ made' = 1 /\ current' = 1 /\ idle' = [idle EXCEPT ![1] = MinSize]
          /\ task' \in {"none", "sleeping"} /\ phase = "starting"
          /\ UNCHANGED <<entered, old, closing, closed, used, pc, local, result>>
      BY <1>2, <2>1, <2>3 DEF Start, CreatePool, requestVars
    <3>2. TypeOK'
      BY <1>0, <2>1, <2>3, <3>1, PoolAssumption
         DEF TypeOK, Phases, TaskStates, Pools
    <3>3. LifespanTracksPool' /\ DrainsFollowHandover'
      BY <1>0, <2>1, <2>3, <3>1
         DEF LifespanTracksPool, DrainsFollowHandover, TaskRuns
    <3>4. RequestsNamePools' /\ NoPoolLeaked' /\ CheckoutsBalance'
      BY <1>0, <2>1, <3>1
         DEF TypeOK, RequestsNamePools, NoPoolLeaked, CheckoutsBalance
    <3>5. ClosedPoolsUnused' /\ NoRefusalBeforeStop'
      BY <1>0, <2>1, <3>1 DEF ClosedPoolsUnused, NoRefusalBeforeStop
    <3>6. QED
      BY <3>2, <3>3, <3>4, <3>5 DEF IndInv
  <2>4. QED
    BY <1>2, <2>2, <2>3 DEF Start
<1>3. CASE EnterTenant
  <2>1. UNCHANGED <<made, current, closing, closed, idle, used, pc, local, result>>
    BY <1>3 DEF EnterTenant, poolVars, requestVars
  <2>2. TypeOK'
    BY <1>0, <1>3, <2>1, PoolAssumption DEF EnterTenant, TypeOK, Phases, TaskStates, taskVars, lifespanVars
  <2>3. LifespanTracksPool'
    BY <1>0, <1>3, <2>1
       DEF EnterTenant, TypeOK, LifespanTracksPool, TaskRuns, taskVars, lifespanVars
  <2>4. DrainsFollowHandover'
    BY <1>0, <1>3, <2>1
       DEF EnterTenant, TypeOK, LifespanTracksPool, DrainsFollowHandover, TaskRuns,
           taskVars, lifespanVars
  <2>5. NoRefusalBeforeStop'
    BY <1>0, <1>3, <2>1 DEF EnterTenant, NoRefusalBeforeStop, lifespanVars
  <2>6. QED
    BY <1>0, <2>1, <2>2, <2>3, <2>4, <2>5, PoolFrame DEF IndInv
<1>4. CASE ExitTenant
  <2>1. UNCHANGED <<made, current, closing, closed, idle, used, pc, local, result>>
    BY <1>4 DEF ExitTenant, poolVars, requestVars
  <2>2. TypeOK'
    BY <1>0, <1>4, <2>1, PoolAssumption DEF ExitTenant, TypeOK, Phases, TaskStates, taskVars, lifespanVars
  <2>3. LifespanTracksPool'
    BY <1>0, <1>4, <2>1
       DEF ExitTenant, TypeOK, LifespanTracksPool, TaskRuns, taskVars, lifespanVars
  <2>4. DrainsFollowHandover'
    BY <1>0, <1>4, <2>1
       DEF ExitTenant, TypeOK, LifespanTracksPool, DrainsFollowHandover, TaskRuns,
           taskVars, lifespanVars
  <2>5. NoRefusalBeforeStop'
    BY <1>0, <1>4, <2>1 DEF ExitTenant, NoRefusalBeforeStop, lifespanVars
  <2>6. QED
    BY <1>0, <2>1, <2>2, <2>3, <2>4, <2>5, PoolFrame DEF IndInv
<1>5. CASE CancelRefreshTask
  <2>1. UNCHANGED <<made, current, closing, closed, idle, used, pc, local, result>>
    BY <1>5 DEF CancelRefreshTask, poolVars, requestVars
  <2>2. TypeOK'
    BY <1>0, <1>5, <2>1, PoolAssumption DEF CancelRefreshTask, TypeOK, Phases, TaskStates, taskVars, lifespanVars
  <2>3. LifespanTracksPool'
    BY <1>0, <1>5, <2>1
       DEF CancelRefreshTask, TypeOK, LifespanTracksPool, TaskRuns, taskVars, lifespanVars
  <2>4. DrainsFollowHandover'
    BY <1>0, <1>5, <2>1
       DEF CancelRefreshTask, TypeOK, LifespanTracksPool, DrainsFollowHandover, TaskRuns,
           taskVars, lifespanVars
  <2>5. NoRefusalBeforeStop'
    BY <1>0, <1>5, <2>1 DEF CancelRefreshTask, NoRefusalBeforeStop, lifespanVars
  <2>6. QED
    BY <1>0, <2>1, <2>2, <2>3, <2>4, <2>5, PoolFrame DEF IndInv
<1>6. CASE Stop
  <2>1. /\ made > 0 /\ current = made /\ current \in Pools
        /\ phase = "stop" /\ phase' = "stopping"
        /\ closing' = closing \cup {current} /\ idle' = [idle EXCEPT ![current] = 0]
        /\ UNCHANGED <<entered, task, old, made, current, closed, used,
                       pc, local, result>>
    BY <1>0, <1>6
       DEF Stop, ClosePool, LifespanTracksPool, TypeOK, Pools, taskVars, requestVars
  <2>2. /\ idle' \in [Pools -> Nat] /\ idle'[current] = 0
        /\ \A p \in Pools : p # current => idle'[p] = idle[p]
    BY <1>0, <2>1 DEF TypeOK
  <2>3. TypeOK'
    BY <1>0, <2>1, <2>2, PoolAssumption DEF TypeOK, Phases
  <2>4. LifespanTracksPool'
    BY <1>0, <2>1, <2>2 DEF LifespanTracksPool, TaskRuns
  <2>5. DrainsFollowHandover'
    BY <1>0, <2>1 DEF DrainsFollowHandover, TypeOK
  <2>6. RequestsNamePools' /\ CheckoutsBalance'
    BY <1>0, <2>1 DEF RequestsNamePools, CheckoutsBalance
  <2>7. NoPoolLeaked'
    BY <1>0, <2>1, <2>2 DEF NoPoolLeaked, TypeOK, Pools
  <2>8. ClosedPoolsUnused' /\ NoRefusalBeforeStop'
    BY <1>0, <2>1 DEF ClosedPoolsUnused, NoRefusalBeforeStop
  <2>9. QED
    BY <2>3, <2>4, <2>5, <2>6, <2>7, <2>8 DEF IndInv
<1>7. CASE StopDrained
  <2>1. /\ made > 0 /\ current = made /\ current \in Pools
        /\ current \in closing /\ idle[current] = 0
        /\ phase = "stopping" /\ phase' = "stopped" /\ current' = 0
        /\ closed' = closed \cup {current}
        /\ UNCHANGED <<entered, task, old, made, closing, idle, used,
                       pc, local, result>>
    BY <1>0, <1>7
       DEF StopDrained, LifespanTracksPool, TypeOK, Pools, taskVars, requestVars
  <2>2. \A r \in Requests : local[r] # current
    BY <1>0, <1>7, <2>1
       DEF StopDrained, Drained, Waiters, CheckoutsBalance, RequestsNamePools,
           TypeOK, Pools
  <2>3. TypeOK'
    BY <1>0, <2>1, PoolAssumption DEF TypeOK, Phases
  <2>4. LifespanTracksPool'
    BY <1>0, <2>1 DEF LifespanTracksPool, TaskRuns
  <2>5. DrainsFollowHandover'
    BY <1>0, <2>1 DEF DrainsFollowHandover, TypeOK
  <2>6. RequestsNamePools' /\ CheckoutsBalance' /\ NoRefusalBeforeStop'
    BY <1>0, <2>1 DEF RequestsNamePools, CheckoutsBalance, NoRefusalBeforeStop
  <2>7. NoPoolLeaked'
    BY <1>0, <2>1 DEF NoPoolLeaked, TypeOK
  <2>8. ClosedPoolsUnused'
    BY <1>0, <2>1, <2>2 DEF ClosedPoolsUnused
  <2>9. QED
    BY <2>3, <2>4, <2>5, <2>6, <2>7, <2>8 DEF IndInv
<1>8. CASE Shutdown
  <2>1. UNCHANGED <<made, current, closing, closed, idle, used, pc, local, result>>
    BY <1>8 DEF Shutdown, poolVars, requestVars
  <2>2. TypeOK'
    BY <1>0, <1>8, <2>1, PoolAssumption DEF Shutdown, TypeOK, Phases, TaskStates, taskVars, lifespanVars
  <2>3. LifespanTracksPool'
    BY <1>0, <1>8, <2>1
       DEF Shutdown, TypeOK, LifespanTracksPool, TaskRuns, taskVars, lifespanVars
  <2>4. DrainsFollowHandover'
    BY <1>0, <1>8, <2>1
       DEF Shutdown, TypeOK, LifespanTracksPool, DrainsFollowHandover, TaskRuns,
           taskVars, lifespanVars
  <2>5. NoRefusalBeforeStop'
    BY <1>0, <1>8, <2>1 DEF Shutdown, NoRefusalBeforeStop, lifespanVars
  <2>6. QED
    BY <1>0, <2>1, <2>2, <2>3, <2>4, <2>5, PoolFrame DEF IndInv
<1>9. QED
  BY <1>1, <1>2, <1>3, <1>4, <1>5, <1>6, <1>7, <1>8 DEF LifespanStep

\* The steps of the refresh task preserve it.
LEMMA TaskIndInv == IndInv /\ (TaskStep \/ Wake) => IndInv'
<1> SUFFICES ASSUME IndInv, TaskStep \/ Wake
             PROVE  IndInv'
  OBVIOUS
<1>0. /\ TypeOK /\ LifespanTracksPool /\ DrainsFollowHandover
      /\ RequestsNamePools /\ NoPoolLeaked /\ CheckoutsBalance
      /\ ClosedPoolsUnused /\ NoRefusalBeforeStop
  BY DEF IndInv
<1>1. CASE Wake
  <2>1. UNCHANGED <<made, current, closing, closed, idle, used, pc, local, result>>
    BY <1>1 DEF Wake, poolVars, requestVars
  <2>2. TypeOK'
    BY <1>0, <1>1, <2>1, PoolAssumption DEF Wake, TypeOK, Phases, TaskStates, taskVars, lifespanVars
  <2>3. LifespanTracksPool'
    BY <1>0, <1>1, <2>1
       DEF Wake, TypeOK, LifespanTracksPool, TaskRuns, taskVars, lifespanVars
  <2>4. DrainsFollowHandover'
    BY <1>0, <1>1, <2>1
       DEF Wake, TypeOK, LifespanTracksPool, DrainsFollowHandover, TaskRuns,
           taskVars, lifespanVars
  <2>5. NoRefusalBeforeStop'
    BY <1>0, <1>1, <2>1 DEF Wake, NoRefusalBeforeStop, lifespanVars
  <2>6. QED
    BY <1>0, <2>1, <2>2, <2>3, <2>4, <2>5, PoolFrame DEF IndInv
<1>2. CASE Fetched
  <2>1. UNCHANGED <<made, current, closing, closed, idle, used, pc, local, result>>
    BY <1>2 DEF Fetched, poolVars, requestVars
  <2>2. TypeOK'
    BY <1>0, <1>2, <2>1, PoolAssumption DEF Fetched, TypeOK, Phases, TaskStates, taskVars, lifespanVars
  <2>3. LifespanTracksPool'
    BY <1>0, <1>2, <2>1
       DEF Fetched, TypeOK, LifespanTracksPool, TaskRuns, taskVars, lifespanVars
  <2>4. DrainsFollowHandover'
    BY <1>0, <1>2, <2>1
       DEF Fetched, TypeOK, LifespanTracksPool, DrainsFollowHandover, TaskRuns,
           taskVars, lifespanVars
  <2>5. NoRefusalBeforeStop'
    BY <1>0, <1>2, <2>1 DEF Fetched, NoRefusalBeforeStop, lifespanVars
  <2>6. QED
    BY <1>0, <2>1, <2>2, <2>3, <2>4, <2>5, PoolFrame DEF IndInv
<1>3. CASE Rotate
  <2>1. CASE task' = "sleeping" /\ UNCHANGED <<old, made, current, closing, idle>>
    <3>1. UNCHANGED <<phase, entered, closed, used, pc, local, result>>
      BY <1>3 DEF Rotate, lifespanVars, requestVars
    <3>2. TypeOK'
      BY <1>0, <2>1, <3>1, PoolAssumption DEF TypeOK, TaskStates
    <3>3. LifespanTracksPool'
      BY <1>0, <1>3, <2>1, <3>1 DEF Rotate, LifespanTracksPool, TaskRuns
    <3>4. DrainsFollowHandover'
      BY <1>0, <1>3, <2>1, <3>1 DEF Rotate, DrainsFollowHandover
    <3>5. NoRefusalBeforeStop'
      BY <1>0, <3>1 DEF NoRefusalBeforeStop
    <3>6. QED
      BY <1>0, <2>1, <3>1, <3>2, <3>3, <3>4, <3>5, PoolFrame DEF IndInv
  <2>2. CASE task' = "draining"
    <3>1. /\ TaskRuns /\ task = "creating" /\ old' = current
          /\ made' = made + 1 /\ current' = made + 1 /\ made + 1 \in Pools
          /\ closing' = closing \cup {current}
          /\ idle' = [idle EXCEPT ![current] = 0, ![made + 1] = MinSize]
          /\ UNCHANGED <<phase, entered, closed, used, pc, local, result>>
      BY <1>3, <2>2 DEF Rotate, CreatePool, lifespanVars, requestVars
    <3>2. made > 0 /\ current = made /\ current \in Pools /\ current \notin closing
      BY <1>0, <3>1 DEF LifespanTracksPool, TaskRuns, TypeOK, Pools
    <3>3. /\ idle' \in [Pools -> Nat] /\ idle'[current] = 0
          /\ \A p \in Pools : p # made + 1 /\ p # current => idle'[p] = idle[p]
      BY <1>0, <3>1, <3>2, PoolAssumption DEF TypeOK, Pools
    <3>4. TypeOK'
      BY <1>0, <2>2, <3>1, <3>2, <3>3, PoolAssumption DEF TypeOK, TaskStates, Pools
    <3>5. made + 1 \notin closing
      BY <1>0, <3>1 DEF DrainsFollowHandover, TypeOK
    <3>6. LifespanTracksPool'
      BY <1>0, <2>2, <3>1, <3>2, <3>5 DEF LifespanTracksPool, TaskRuns, TypeOK
    <3>7. DrainsFollowHandover'
      <4>1. closing' \subseteq 1..made' /\ closed' \subseteq closing'
        BY <1>0, <3>1, <3>2 DEF DrainsFollowHandover, TypeOK
      <4>2. made' > 1 /\ old' = made' - 1
        BY <1>0, <3>1, <3>2 DEF TypeOK
      <4>3. task # "done" /\ phase # "stopped"
        BY <1>0, <3>1 DEF TaskRuns
      <4>4. ASSUME NEW p \in (1..made') \ closed'
            PROVE  p = made' \/ p = made' - 1
        BY <1>0, <3>1, <4>3 DEF DrainsFollowHandover, TypeOK
      <4>5. QED
        BY <2>2, <3>1, <4>1, <4>2, <4>3, <4>4 DEF DrainsFollowHandover
    <3>8. RequestsNamePools' /\ CheckoutsBalance'
      BY <1>0, <3>1 DEF RequestsNamePools, CheckoutsBalance, TypeOK
    <3>9. NoPoolLeaked'
      BY <1>0, <3>1, <3>2, <3>3 DEF NoPoolLeaked, TypeOK, Pools
    <3>10. ClosedPoolsUnused' /\ NoRefusalBeforeStop'
      BY <1>0, <3>1 DEF ClosedPoolsUnused, NoRefusalBeforeStop
    <3>11. QED
      BY <3>4, <3>6, <3>7, <3>8, <3>9, <3>10 DEF IndInv
  <2>3. QED
    BY <1>3, <2>1, <2>2 DEF Rotate
<1>4. CASE RotateDrained
  <2>1. /\ TaskRuns /\ task = "draining" /\ task' = "sleeping" /\ old' = 0
        /\ closed' = closed \cup {old}
        /\ UNCHANGED <<phase, entered, made, current, closing, idle, used,
                       pc, local, result>>
    BY <1>4 DEF RotateDrained, lifespanVars, requestVars
  <2>2. /\ current = made /\ made > 1 /\ old = made - 1 /\ old \in Pools
        /\ old \in closing
    BY <1>0, <2>1
       DEF TaskRuns, LifespanTracksPool, DrainsFollowHandover, NoPoolLeaked,
           TypeOK, Pools
  <2>3. \A r \in Requests : local[r] # old
    BY <1>0, <1>4, <2>2
       DEF RotateDrained, Drained, Waiters, CheckoutsBalance, RequestsNamePools,
           TypeOK, Pools
  <2>4. TypeOK'
    BY <1>0, <2>1, <2>2, PoolAssumption DEF TypeOK, TaskStates
  <2>5. LifespanTracksPool'
    BY <1>0, <2>1 DEF LifespanTracksPool, TaskRuns
  <2>6. DrainsFollowHandover'
    BY <1>0, <2>1, <2>2 DEF DrainsFollowHandover, TypeOK
  <2>7. RequestsNamePools' /\ CheckoutsBalance' /\ NoPoolLeaked'
    BY <1>0, <2>1 DEF RequestsNamePools, CheckoutsBalance, NoPoolLeaked
  <2>8. ClosedPoolsUnused' /\ NoRefusalBeforeStop'
    BY <1>0, <2>1, <2>3 DEF ClosedPoolsUnused, NoRefusalBeforeStop
  <2>9. QED
    BY <2>4, <2>5, <2>6, <2>7, <2>8 DEF IndInv
<1>5. QED
  BY <1>1, <1>2, <1>3, <1>4 DEF TaskStep

\* The steps of cursor() preserve it.
LEMMA RequestIndInv ==
    ASSUME NEW r \in Requests, IndInv,
           \/ Checkout(r) \/ Acquire(r) \/ RefusePlaintext(r)
           \/ AcquireFails(r) \/ Release(r)
    PROVE  IndInv'
<1>0. /\ TypeOK /\ LifespanTracksPool /\ DrainsFollowHandover
      /\ RequestsNamePools /\ NoPoolLeaked /\ CheckoutsBalance
      /\ ClosedPoolsUnused /\ NoRefusalBeforeStop
  BY DEF IndInv
<1>1. CASE Checkout(r)
  <2>1. /\ UNCHANGED <<phase, entered, task, old, poolVars>> /\ Admitted
        /\ pc[r] = "out"
    BY <1>1 DEF Checkout, lifespanVars, taskVars
  <2>a. /\ current \in {0, made}
        /\ phase \notin {"stopping", "stopped"} => current # 0 /\ current \notin closing
    BY <1>0, <2>1 DEF Admitted, LifespanTracksPool
  <2>2. /\ current \in {0, made}
        /\ current = 0 \/ current \in closing => phase \in {"stopping", "stopped"}
        /\ current \in closed => current \in closing
    BY <1>0, <2>a DEF DrainsFollowHandover
  <2>3. CASE current = 0 \/ current \in closing
    <3>1. PICK why \in {"unstarted", "refused"} :
             result' = [result EXCEPT ![r] = why] /\ UNCHANGED <<pc, local>>
      BY <1>1, <2>3 DEF Checkout
    <3>2. TypeOK'
      BY <1>0, <2>1, <3>1, PoolAssumption DEF TypeOK, Results, poolVars
    <3>3. LifespanTracksPool' /\ DrainsFollowHandover' /\ NoPoolLeaked'
      BY <1>0, <2>1, RequestFrame DEF poolVars
    <3>4. RequestsNamePools' /\ CheckoutsBalance' /\ ClosedPoolsUnused'
      BY <1>0, <2>1, <3>1, PoolFrame DEF poolVars
    <3>5. NoRefusalBeforeStop'
      BY <1>0, <2>1, <2>2, <2>3, <3>1 DEF NoRefusalBeforeStop, TypeOK
    <3>6. QED
      BY <3>2, <3>3, <3>4, <3>5 DEF IndInv
  <2>4. CASE current # 0 /\ current \notin closing
    <3>1. /\ pc' = [pc EXCEPT ![r] = "waiting"]
          /\ local' = [local EXCEPT ![r] = current]
          /\ result' = [result EXCEPT ![r] = "none"]
      BY <1>1, <2>4 DEF Checkout
    <3>2. TypeOK'
      BY <1>0, <2>1, <3>1, PoolAssumption DEF TypeOK, Results, poolVars
    <3>3. LifespanTracksPool' /\ DrainsFollowHandover' /\ NoPoolLeaked'
      BY <1>0, <2>1, RequestFrame DEF poolVars
    <3>4. RequestsNamePools'
      BY <1>0, <2>1, <2>2, <2>4, <3>1 DEF RequestsNamePools, TypeOK, poolVars
    <3>5. CheckoutsBalance'
      BY <1>0, <2>1, <3>1 DEF CheckoutsBalance, TypeOK, poolVars
    <3>6. ClosedPoolsUnused' /\ NoRefusalBeforeStop'
      BY <1>0, <2>1, <2>2, <2>4, <3>1
         DEF ClosedPoolsUnused, NoRefusalBeforeStop, TypeOK, poolVars
    <3>7. QED
      BY <3>2, <3>3, <3>4, <3>5, <3>6 DEF IndInv
  <2>5. QED
    BY <2>3, <2>4
<1>2. CASE Acquire(r)
  <2>1. /\ UNCHANGED <<phase, entered, task, old, made, current, closing, closed>>
        /\ pc[r] = "waiting" /\ pc' = [pc EXCEPT ![r] = "holding"]
        /\ used' = [used EXCEPT ![local[r]] = @ \cup {r}]
        /\ UNCHANGED <<local, result>>
    BY <1>2 DEF Acquire, lifespanVars, taskVars, poolVars, requestVars
  <2>2. local[r] \in Pools /\ local[r] \in 1..made
    BY <1>0, <2>1 DEF RequestsNamePools, TypeOK, Pools
  <2>3. /\ idle' \in [Pools -> Nat]
        /\ \A p \in closing : idle[p] = 0 => idle'[p] = 0
    BY <1>0, <1>2, <2>2 DEF Acquire, TakeConnection, TypeOK
  <2>4. TypeOK'
    <3>1. /\ pc' \in [Requests -> {"out", "waiting", "holding"}]
          /\ local' \in [Requests -> 0..MaxPools]
      BY <1>0, <2>1, PoolAssumption DEF TypeOK
    <3>2. used' \in [Pools -> SUBSET Requests]
      BY <1>0, <2>1, <2>2 DEF TypeOK
    <3>3. result' \in [Requests -> Results]
      BY <1>0, <2>1 DEF TypeOK, Results
    <3>4. QED
      BY <1>0, <2>1, <2>3, <3>1, <3>2, <3>3 DEF TypeOK
  <2>5. LifespanTracksPool' /\ DrainsFollowHandover' /\ NoPoolLeaked'
    BY <1>0, <2>1, <2>3, RequestFrame
  <2>6. RequestsNamePools'
    BY <1>0, <2>1, <2>2 DEF RequestsNamePools, TypeOK
  <2>7. CheckoutsBalance'
    BY <1>0, <2>1, <2>2 DEF CheckoutsBalance, RequestsNamePools, TypeOK, Pools
  <2>8. ClosedPoolsUnused' /\ NoRefusalBeforeStop'
    BY <1>0, <2>1, <2>2 DEF ClosedPoolsUnused, NoRefusalBeforeStop, TypeOK, Pools
  <2>9. QED
    BY <2>4, <2>5, <2>6, <2>7, <2>8 DEF IndInv
<1>3. CASE RefusePlaintext(r)
  <2>1. /\ UNCHANGED <<phase, entered, task, old, made, current, closing, closed>>
        /\ pc[r] = "waiting" /\ pc' = [pc EXCEPT ![r] = "out"]
        /\ local' = [local EXCEPT ![r] = 0]
        /\ result' = [result EXCEPT ![r] = "plaintext"] /\ UNCHANGED used
    BY <1>3 DEF RefusePlaintext, lifespanVars, taskVars, poolVars, requestVars
  <2>2. local[r] \in Pools /\ local[r] \in 1..made
    BY <1>0, <2>1 DEF RequestsNamePools, TypeOK, Pools
  <2>3. /\ idle' \in [Pools -> Nat]
        /\ \A p \in closing : idle[p] = 0 => idle'[p] = 0
    BY <1>0, <1>3, <2>2 DEF RefusePlaintext, TakeConnection, TypeOK
  <2>4. TypeOK'
    <3>1. /\ pc' \in [Requests -> {"out", "waiting", "holding"}]
          /\ local' \in [Requests -> 0..MaxPools]
      BY <1>0, <2>1, PoolAssumption DEF TypeOK
    <3>2. used' \in [Pools -> SUBSET Requests]
      BY <1>0, <2>1, <2>2 DEF TypeOK
    <3>3. result' \in [Requests -> Results]
      BY <1>0, <2>1 DEF TypeOK, Results
    <3>4. QED
      BY <1>0, <2>1, <2>3, <3>1, <3>2, <3>3 DEF TypeOK
  <2>5. LifespanTracksPool' /\ DrainsFollowHandover' /\ NoPoolLeaked'
    BY <1>0, <2>1, <2>3, RequestFrame
  <2>6. RequestsNamePools'
    BY <1>0, <2>1, <2>2 DEF RequestsNamePools, TypeOK
  <2>7. CheckoutsBalance'
    BY <1>0, <2>1, <2>2 DEF CheckoutsBalance, RequestsNamePools, TypeOK, Pools
  <2>8. ClosedPoolsUnused' /\ NoRefusalBeforeStop'
    BY <1>0, <2>1, <2>2 DEF ClosedPoolsUnused, NoRefusalBeforeStop, TypeOK, Pools
  <2>9. QED
    BY <2>4, <2>5, <2>6, <2>7, <2>8 DEF IndInv
<1>4. CASE AcquireFails(r)
  <2>1. /\ UNCHANGED <<phase, entered, task, old, made, current, closing, closed>>
        /\ pc[r] = "waiting" /\ pc' = [pc EXCEPT ![r] = "out"]
        /\ local' = [local EXCEPT ![r] = 0] /\ UNCHANGED <<idle, used>>
        /\ \E why \in {"timeout", "error"} : result' = [result EXCEPT ![r] = why]
    BY <1>4 DEF AcquireFails, lifespanVars, taskVars, poolVars, requestVars
  <2>2. local[r] \in Pools /\ local[r] \in 1..made
    BY <1>0, <2>1 DEF RequestsNamePools, TypeOK, Pools
  <2>3. /\ idle' \in [Pools -> Nat]
        /\ \A p \in closing : idle[p] = 0 => idle'[p] = 0
    BY <1>0, <2>1 DEF TypeOK
  <2>4. TypeOK'
    <3>1. /\ pc' \in [Requests -> {"out", "waiting", "holding"}]
          /\ local' \in [Requests -> 0..MaxPools]
      BY <1>0, <2>1, PoolAssumption DEF TypeOK
    <3>2. used' \in [Pools -> SUBSET Requests]
      BY <1>0, <2>1, <2>2 DEF TypeOK
    <3>3. result' \in [Requests -> Results]
      BY <1>0, <2>1 DEF TypeOK, Results
    <3>4. QED
      BY <1>0, <2>1, <2>3, <3>1, <3>2, <3>3 DEF TypeOK
  <2>5. LifespanTracksPool' /\ DrainsFollowHandover' /\ NoPoolLeaked'
    BY <1>0, <2>1, <2>3, RequestFrame
  <2>6. RequestsNamePools'
    BY <1>0, <2>1, <2>2 DEF RequestsNamePools, TypeOK
  <2>7. CheckoutsBalance'
    BY <1>0, <2>1, <2>2 DEF CheckoutsBalance, RequestsNamePools, TypeOK, Pools
  <2>8. ClosedPoolsUnused' /\ NoRefusalBeforeStop'
    BY <1>0, <2>1, <2>2 DEF ClosedPoolsUnused, NoRefusalBeforeStop, TypeOK, Pools
  <2>9. QED
    BY <2>4, <2>5, <2>6, <2>7, <2>8 DEF IndInv
<1>5. CASE Release(r)
  <2>1. /\ UNCHANGED <<phase, entered, task, old, made, current, closing, closed>>
        /\ pc[r] = "holding" /\ pc' = [pc EXCEPT ![r] = "out"]
        /\ local' = [local EXCEPT ![r] = 0]
        /\ used' = [used EXCEPT ![local[r]] = @ \ {r}]
        /\ \E why \in {"ok", "error"} : result' = [result EXCEPT ![r] = why]
    BY <1>5 DEF Release, lifespanVars, taskVars, poolVars, requestVars
  <2>2. local[r] \in Pools /\ local[r] \in 1..made
    BY <1>0, <2>1 DEF RequestsNamePools, TypeOK, Pools
  <2>3. /\ idle' \in [Pools -> Nat]
        /\ \A p \in closing : idle[p] = 0 => idle'[p] = 0
    BY <1>0, <1>5, <2>2 DEF Release, TypeOK
  <2>4. TypeOK'
    <3>1. /\ pc' \in [Requests -> {"out", "waiting", "holding"}]
          /\ local' \in [Requests -> 0..MaxPools]
      BY <1>0, <2>1, PoolAssumption DEF TypeOK
    <3>2. used' \in [Pools -> SUBSET Requests]
      BY <1>0, <2>1, <2>2 DEF TypeOK
    <3>3. result' \in [Requests -> Results]
      BY <1>0, <2>1 DEF TypeOK, Results
    <3>4. QED
      BY <1>0, <2>1, <2>3, <3>1, <3>2, <3>3 DEF TypeOK
  <2>5. LifespanTracksPool' /\ DrainsFollowHandover' /\ NoPoolLeaked'
    BY <1>0, <2>1, <2>3, RequestFrame
  <2>6. RequestsNamePools'
    BY <1>0, <2>1, <2>2 DEF RequestsNamePools, TypeOK
  <2>7. CheckoutsBalance'
    BY <1>0, <2>1, <2>2 DEF CheckoutsBalance, RequestsNamePools, TypeOK, Pools
  <2>8. ClosedPoolsUnused' /\ NoRefusalBeforeStop'
    BY <1>0, <2>1, <2>2 DEF ClosedPoolsUnused, NoRefusalBeforeStop, TypeOK, Pools
  <2>9. QED
    BY <2>4, <2>5, <2>6, <2>7, <2>8 DEF IndInv
<1>6. QED
  BY <1>1, <1>2, <1>3, <1>4, <1>5

\* A recycled connection preserves it.
LEMMA RecycleIndInv ==
    ASSUME NEW q \in Pools, IndInv, Recycle(q)
    PROVE  IndInv'
<1>0. /\ TypeOK /\ LifespanTracksPool /\ DrainsFollowHandover
      /\ RequestsNamePools /\ NoPoolLeaked /\ CheckoutsBalance
      /\ ClosedPoolsUnused /\ NoRefusalBeforeStop
  BY DEF IndInv
<1>1. UNCHANGED <<phase, entered, task, old, made, current, closing, closed,
                  used, pc, local, result>>
  BY DEF Recycle, lifespanVars, taskVars, requestVars
<1>2. idle' \in [Pools -> Nat] /\ \A p \in closing : idle[p] = 0 => idle'[p] = 0
  BY <1>0 DEF Recycle, TypeOK
<1>3. TypeOK'
  BY <1>0, <1>1, <1>2, PoolAssumption DEF TypeOK
<1>4. LifespanTracksPool' /\ DrainsFollowHandover' /\ NoPoolLeaked'
  BY <1>0, <1>1, <1>2, RequestFrame
<1>5. RequestsNamePools' /\ CheckoutsBalance' /\ ClosedPoolsUnused'
  BY <1>0, <1>1 DEF RequestsNamePools, CheckoutsBalance, ClosedPoolsUnused
<1>6. NoRefusalBeforeStop'
  BY <1>0, <1>1 DEF NoRefusalBeforeStop
<1>7. QED
  BY <1>3, <1>4, <1>5, <1>6 DEF IndInv

\* IndInv is an invariant of the specification.
THEOREM IndInvHolds == Spec => []IndInv
<1>1. IndInv /\ [Next]_vars => IndInv'
  <2> SUFFICES ASSUME IndInv, [Next]_vars
               PROVE  IndInv'
    OBVIOUS
  <2>1. CASE LifespanStep \/ Shutdown
    BY <2>1, LifespanIndInv
  <2>2. CASE TaskStep \/ Wake
    BY <2>2, TaskIndInv
  <2>3. ASSUME NEW r \in Requests,
               \/ Checkout(r) \/ Acquire(r) \/ RefusePlaintext(r)
               \/ AcquireFails(r) \/ Release(r)
        PROVE  IndInv'
    BY <2>3, RequestIndInv
  <2>4. ASSUME NEW p \in Pools, Recycle(p)
        PROVE  IndInv'
    BY <2>4, RecycleIndInv
  <2>5. CASE UNCHANGED vars
    <3>1. UNCHANGED <<phase, entered, task, old, made, current, closing, closed,
                      idle, used, pc, local, result>>
      BY <2>5 DEF vars, lifespanVars, taskVars, poolVars, requestVars
    <3>2. QED
      BY <3>1 DEF IndInv, TypeOK, LifespanTracksPool, DrainsFollowHandover,
           RequestsNamePools, NoPoolLeaked, CheckoutsBalance,
           ClosedPoolsUnused, NoRefusalBeforeStop, TaskRuns
  <2>6. QED
    BY <2>1, <2>2, <2>3, <2>4, <2>5 DEF Next, Exited
<1>2. QED
  BY <1>1, InitIndInv, PTL DEF Spec

\* Every variable keeps its type.
THEOREM TypeCorrect == Spec => []TypeOK
BY IndInvHolds, PTL DEF IndInv

\* cursor() refuses a request only once stop() has run, whatever rotations,
\* failures and cancellations came before.
THEOREM RotationNeverRefuses == Spec => []NoRefusalBeforeStop
BY IndInvHolds, PTL DEF IndInv

\* No pool is left open once it is no longer the published one.
THEOREM PoolsNeverLeak == Spec => []NoPoolLeaked
BY IndInvHolds, PTL DEF IndInv

\* A checkout is always balanced in the pool it was made from.
THEOREM CheckoutsAlwaysBalance == Spec => []CheckoutsBalance
BY IndInvHolds, PTL DEF IndInv

\* A pool reports closed only after its last user left.
THEOREM DrainsAreComplete == Spec => []ClosedPoolsUnused
BY IndInvHolds, PTL DEF IndInv

\* A tenant that is entered can use the pool.
THEOREM TenantsUsePool == Spec => []TenantsWithinPool
<1>1. IndInv => TenantsWithinPool
  BY DEF IndInv, LifespanTracksPool, TenantsWithinPool
<1>2. QED
  BY <1>1, IndInvHolds, PTL

\* Shutdown leaves at most the pool whose drain it cancelled.
THEOREM StopDrainsPools == Spec => []StopLeavesAtMostOneUndrained
<1>1. IndInv => StopLeavesAtMostOneUndrained
  BY DEF IndInv, TypeOK, LifespanTracksPool, DrainsFollowHandover,
         StopLeavesAtMostOneUndrained
<1>2. QED
  BY <1>1, IndInvHolds, PTL

\* The published pool changes only by an atomic handover: to a new, open
\* pool, with the old one closed in the same step.
THEOREM HandoverIsAtomic == Spec => AtomicHandover
<1>1. IndInv /\ [Next]_vars => [HandoverStep]_vars
  <2> SUFFICES ASSUME IndInv, Next
               PROVE  HandoverStep
    OBVIOUS
  <2>0. TypeOK /\ LifespanTracksPool /\ DrainsFollowHandover
    BY DEF IndInv
  <2>1. CASE Start
    BY <2>0, <2>1
       DEF Start, CreatePool, HandoverStep, TypeOK, LifespanTracksPool,
           DrainsFollowHandover
  <2>2. CASE Rotate
    <3>1. current # 0 /\ current = made /\ made + 1 \notin closing
      BY <2>0, <2>2
         DEF Rotate, TaskRuns, TypeOK, LifespanTracksPool, DrainsFollowHandover
    <3>2. QED
      BY <2>0, <2>2, <3>1 DEF Rotate, CreatePool, HandoverStep, TypeOK
  <2>3. CASE StopDrained
    BY <2>0, <2>3 DEF StopDrained, HandoverStep, LifespanTracksPool
  <2>4. CASE UNCHANGED current
    BY <2>4 DEF HandoverStep
  <2>5. Start \/ Rotate \/ StopDrained \/ UNCHANGED current
    BY DEF Next, LifespanStep, TaskStep, ResolveCredentials, EnterTenant,
           ExitTenant, CancelRefreshTask, Stop, Shutdown, Wake, Fetched,
           RotateDrained, Checkout, Acquire, RefusePlaintext, AcquireFails,
           Release, Recycle, Exited, vars, poolVars
  <2>6. QED
    BY <2>1, <2>2, <2>3, <2>4, <2>5
<1>2. QED
  BY <1>1, IndInvHolds, PTL DEF Spec, AtomicHandover

\* A pool that does not exist yet has no connection.
UnmadePoolsEmpty == \A p \in Pools : p > made => idle[p] = 0

\* Connections are only ever put into a pool that was created: at creation,
\* or by a release to the pool the request acquired from.
THEOREM UnmadePoolsStayEmpty == Spec => []UnmadePoolsEmpty
<1>1. Init => UnmadePoolsEmpty
  BY DEF Init, UnmadePoolsEmpty
<1>2. IndInv /\ UnmadePoolsEmpty /\ [Next]_vars => UnmadePoolsEmpty'
  <2> SUFFICES ASSUME IndInv, UnmadePoolsEmpty, [Next]_vars
               PROVE  UnmadePoolsEmpty'
    OBVIOUS
  <2>0. TypeOK /\ RequestsNamePools /\ LifespanTracksPool
    BY DEF IndInv
  <2>1. CASE Start
    BY <2>0, <2>1, PoolAssumption DEF Start, CreatePool, UnmadePoolsEmpty, TypeOK, Pools
  <2>2. CASE Rotate
    BY <2>0, <2>2, PoolAssumption
       DEF Rotate, CreatePool, UnmadePoolsEmpty, TypeOK, Pools
  <2>3. CASE Stop
    BY <2>0, <2>3 DEF Stop, ClosePool, UnmadePoolsEmpty, TypeOK, Pools
  <2>4. ASSUME NEW r \in Requests, Acquire(r) \/ RefusePlaintext(r) \/ Release(r)
        PROVE  UnmadePoolsEmpty'
    <3>1. local[r] \in 1..made /\ local[r] \in Pools
      BY <2>0, <2>4 DEF RequestsNamePools, Acquire, RefusePlaintext, Release, TypeOK, Pools
    <3>2. UNCHANGED made /\ \A p \in Pools : p # local[r] => idle'[p] = idle[p]
      BY <2>0, <2>4 DEF Acquire, RefusePlaintext, Release, TakeConnection, TypeOK
    <3>3. QED
      BY <2>0, <3>1, <3>2 DEF UnmadePoolsEmpty, TypeOK, Pools
  <2>5. ASSUME NEW q \in Pools, Recycle(q) PROVE UnmadePoolsEmpty'
    BY <2>0, <2>5 DEF Recycle, UnmadePoolsEmpty, TypeOK, Pools
  <2>6. CASE UNCHANGED <<made, idle>>
    BY <2>6 DEF UnmadePoolsEmpty
  <2>7. QED
    BY <2>1, <2>2, <2>3, <2>4, <2>5, <2>6
       DEF Next, LifespanStep, TaskStep, ResolveCredentials, EnterTenant,
           ExitTenant, CancelRefreshTask, StopDrained, Shutdown, Wake, Fetched,
           RotateDrained, Checkout, AcquireFails, Exited, vars, poolVars
<1>3. QED
  BY <1>1, <1>2, IndInvHolds, PTL DEF Spec

\* Two pool numbers make at most two pools.
LEMMA PairCardinality ==
    ASSUME NEW a, NEW b, NEW S, S \subseteq {a, b}
    PROVE  /\ Cardinality(S) \in Nat /\ Cardinality(S) <= 2
           /\ S \subseteq {b} => Cardinality(S) <= 1
<1>1. /\ IsFiniteSet({b}) /\ Cardinality({b}) = 1
  BY FS_Singleton
<1>2. /\ IsFiniteSet({b} \cup {a})
      /\ Cardinality({b} \cup {a}) \in {1, 2}
  BY <1>1, FS_AddElement
<1>3. {b} \cup {a} = {a, b}
  OBVIOUS
<1>4. /\ IsFiniteSet(S) /\ Cardinality(S) <= Cardinality({a, b})
  BY <1>2, <1>3, FS_Subset
<1>5. Cardinality(S) \in Nat
  BY <1>4, FS_CardinalityType
<1>6. S \subseteq {b} => Cardinality(S) <= 1
  BY <1>1, FS_Subset
<1>7. QED
  BY <1>2, <1>3, <1>4, <1>5, <1>6

\* StarRocks sees the connections of at most two pools, one being created
\* included, however long the old pool's queries take: whatever is connected
\* is not closed, and only the latest pool and the one it replaces are not.
THEOREM TwoPoolsAtMost == Spec => []AtMostTwoPoolsConnected
<1> DEFINE Connected == {p \in Pools : idle[p] > 0 \/ used[p] # {}}
<1>1. IndInv /\ UnmadePoolsEmpty => AtMostTwoPoolsConnected
  <2> SUFFICES ASSUME IndInv, UnmadePoolsEmpty
               PROVE  AtMostTwoPoolsConnected
    OBVIOUS
  <2>0. /\ TypeOK /\ LifespanTracksPool /\ DrainsFollowHandover
        /\ RequestsNamePools /\ NoPoolLeaked /\ CheckoutsBalance
        /\ ClosedPoolsUnused
    BY DEF IndInv
  <2>1. ASSUME NEW p \in Connected PROVE p \in (1..made) \ closed
    <3>1. CASE used[p] # {}
      <4>1. PICK r \in Requests : pc[r] = "holding" /\ local[r] = p
        BY <2>0, <3>1 DEF TypeOK, CheckoutsBalance
      <4>2. QED
        BY <2>0, <4>1 DEF RequestsNamePools, ClosedPoolsUnused, TypeOK
    <3>2. CASE idle[p] > 0
      <4>1. p \in 1..made
        BY <2>0, <3>2 DEF UnmadePoolsEmpty, TypeOK, Pools
      <4>2. p = current
        BY <2>0, <3>2, <4>1 DEF NoPoolLeaked, TypeOK
      <4>3. p \notin closing
        BY <2>0, <3>2, <4>1, <4>2 DEF LifespanTracksPool, TypeOK, Phases
      <4>4. QED
        BY <2>0, <4>1, <4>3 DEF DrainsFollowHandover
    <3>3. QED
      BY <3>1, <3>2
  <2>2. Connected \subseteq {made - 1, made}
    BY <2>0, <2>1 DEF DrainsFollowHandover
  <2>3. task = "creating" => Connected \subseteq {made}
    BY <2>0, <2>1 DEF DrainsFollowHandover
  <2>4. /\ Cardinality(Connected) \in Nat /\ Cardinality(Connected) <= 2
        /\ Connected \subseteq {made} => Cardinality(Connected) <= 1
    BY <2>2, PairCardinality
  <2> HIDE DEF Connected
  <2>5. Cardinality(Connected) + (IF task = "creating" THEN 1 ELSE 0) <= 2
    BY <2>3, <2>4
  <2>6. QED
    BY <2>5 DEF AtMostTwoPoolsConnected, Connected
<1>2. QED
  BY <1>1, IndInvHolds, UnmadePoolsStayEmpty, PTL
=============================================================================
