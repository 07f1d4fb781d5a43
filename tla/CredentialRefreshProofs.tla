---------------------- MODULE CredentialRefreshProofs ----------------------
(***************************************************************************)
(* The published lease is alive at all times, for every set of lease       *)
(* durations, every timeout and every number of failures that satisfy      *)
(* TimingAssumption.  The only non-linear fact needed is what one failure  *)
(* takes from the budget of the attempts left; it is a lemma of its own.   *)
(***************************************************************************)
EXTENDS CredentialRefresh, TLAPS

\* A delay is a natural number.
LEMMA DelayNat ==
    ASSUME NEW d \in Leases
    PROVE  NextRefreshDelay(d) \in Nat
BY TimingAssumption DEF NextRefreshDelay

\* One failure takes exactly FailureCost from the budget for failures.
LEMMA FailureBudget ==
    /\ FailureCost \in Nat
    /\ \A f \in 0..MaxFailures : AttemptsLeft(f) \in Nat
    /\ \A f \in 0..MaxFailures :
          f < MaxFailures => AttemptsLeft(f) = AttemptsLeft(f + 1) + FailureCost
<1>1. FailureCost \in Nat /\ MaxFailures \in Nat
  BY TimingAssumption DEF FailureCost
<1>2. \A a, b \in Nat : a * b \in Nat
  OBVIOUS
<1>3. \A m, c \in Nat : (m + 1) * c = m * c + c
  OBVIOUS
<1>5. ASSUME NEW f \in 0..MaxFailures
      PROVE  AttemptsLeft(f) \in Nat
  BY <1>1, <1>2 DEF AttemptsLeft
<1>6. ASSUME NEW f \in 0..MaxFailures, f < MaxFailures
      PROVE  AttemptsLeft(f) = AttemptsLeft(f + 1) + FailureCost
  <2>1. MaxFailures - (f + 1) \in Nat /\ (MaxFailures - (f + 1)) + 1 = MaxFailures - f
    BY <1>1, <1>6
  <2>2. QED
    BY <1>1, <1>3, <2>1 DEF AttemptsLeft
<1>7. QED
  BY <1>1, <1>5, <1>6

\* The three facts about a lease the invariance proof rests on.
LEMMA LeaseFacts ==
    \A d \in Leases :
        /\ NextRefreshDelay(d) \in Nat
        /\ Horizon(d) \in Nat
        /\ Horizon(d) < d
        /\ Horizon(d) = (MaxFetch + MaxCreate) + MaxDrain + NextRefreshDelay(d)
                          + AttemptsLeft(0) + (MaxFetch + MaxCreate)
<1> SUFFICES ASSUME NEW d \in Leases
             PROVE  /\ NextRefreshDelay(d) \in Nat
                    /\ Horizon(d) \in Nat
                    /\ Horizon(d) < d
                    /\ Horizon(d) = (MaxFetch + MaxCreate) + MaxDrain
                         + NextRefreshDelay(d) + AttemptsLeft(0)
                         + (MaxFetch + MaxCreate)
  OBVIOUS
<1>1. AttemptsLeft(0) \in Nat
  BY FailureBudget, TimingAssumption
<1>2. NextRefreshDelay(d) \in Nat
  BY DelayNat
<1>3. Horizon(d) < d
  BY TimingAssumption
<1>4. QED
  BY <1>1, <1>2, <1>3, TimingAssumption DEF Horizon

\* Types are preserved by every step of the loop.
THEOREM TypeCorrect == Spec => []TypeOK
<1>1. Init => TypeOK
  BY TimingAssumption, LeaseFacts DEF Init, TypeOK, States
<1>2. TypeOK /\ [Next]_vars => TypeOK'
  <2> SUFFICES ASSUME TypeOK, [Next]_vars
               PROVE  TypeOK'
    OBVIOUS
  <2> USE TimingAssumption DEF TypeOK, States
  <2>1. CASE Tick
    BY <2>1 DEF Tick
  <2>2. CASE Wake
    BY <2>2 DEF Wake
  <2>3. CASE FetchSucceeds
    BY <2>3 DEF FetchSucceeds
  <2>4. CASE AttemptFails
    BY <2>4 DEF AttemptFails
  <2>5. CASE Publish
    BY <2>5 DEF Publish
  <2>6. CASE Drained
    BY <2>6, LeaseFacts DEF Drained
  <2>7. CASE UNCHANGED vars
    BY <2>7 DEF vars
  <2>8. QED
    BY <2>1, <2>2, <2>3, <2>4, <2>5, <2>6, <2>7 DEF Next
<1>3. QED
  BY <1>1, <1>2, PTL DEF Spec

\* The inductive invariant: what remains of the published lease exceeds the
\* rest of the current await plus every attempt still allowed.
THEOREM LeaseOutlives == Spec => []LeaseOutlivesRefresh
<1> USE TimingAssumption, LeaseFacts, FailureBudget
<1>1. Init => LeaseOutlivesRefresh
  BY DEF Init, LeaseOutlivesRefresh
<1>2. TypeOK /\ LeaseOutlivesRefresh /\ [Next]_vars => LeaseOutlivesRefresh'
  <2> SUFFICES ASSUME TypeOK, LeaseOutlivesRefresh, [Next]_vars
               PROVE  LeaseOutlivesRefresh'
    OBVIOUS
  <2> USE DEF TypeOK, States, LeaseOutlivesRefresh
  <2>1. CASE Tick
    BY <2>1 DEF Tick
  <2>2. CASE Wake
    BY <2>2 DEF Wake
  <2>3. CASE FetchSucceeds
    <3>1. PICK age \in 0..(MaxFetch - timer) : newTtl' = lease' - age
      BY <2>3 DEF FetchSucceeds
    <3>2. newTtl' > Horizon(lease') - MaxFetch - MaxCreate + timer'
      BY <2>3, <3>1 DEF FetchSucceeds
    <3>3. QED
      BY <2>3, <3>2 DEF FetchSucceeds
  <2>4. CASE AttemptFails
    <3>1. AttemptsLeft(failures) = AttemptsLeft(failures') + FailureCost
      BY <2>4 DEF AttemptFails
    <3>2. ttl' > timer' + MaxFetch + MaxCreate + AttemptsLeft(failures')
      BY <2>4, <3>1 DEF AttemptFails, FailureCost
    <3>3. QED
      BY <2>4, <3>2 DEF AttemptFails
  <2>5. CASE Publish
    BY <2>5 DEF Publish
  <2>6. CASE Drained
    BY <2>6 DEF Drained
  <2>7. CASE UNCHANGED vars
    BY <2>7 DEF vars
  <2>8. QED
    BY <2>1, <2>2, <2>3, <2>4, <2>5, <2>6, <2>7 DEF Next
<1>3. QED
  BY <1>1, <1>2, TypeCorrect, PTL DEF Spec

\* The refresh loop never lets the published pool's credentials expire.
THEOREM LeaseNeverExpires == Spec => []PublishedLeaseAlive
<1>1. TypeOK /\ LeaseOutlivesRefresh => PublishedLeaseAlive
  BY TimingAssumption, LeaseFacts, FailureBudget
     DEF TypeOK, States, LeaseOutlivesRefresh, PublishedLeaseAlive
<1>2. QED
  BY <1>1, TypeCorrect, LeaseOutlives, PTL
=============================================================================
