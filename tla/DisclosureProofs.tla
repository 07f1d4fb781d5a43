-------------------------- MODULE DisclosureProofs --------------------------
(***************************************************************************)
(* Proofs about core/anonymization.py: the floor of a row, modelled in     *)
(* CohortSuppression, for every set of cohorts, every set of declarations, *)
(* every floor and every order of the pairs; and the guard between the     *)
(* grains, modelled in CrossGrainGuard, for any contracts, months, counts  *)
(* and scan limit.  The two share the tests of Disclosure.                 *)
(*                                                                         *)
(* The floor has two arguments, one per loop.  The ancestor walk keeps the *)
(* pairs of a walked cohort closed under containment, except for the one   *)
(* container the walk stands on.  The suppression loop only ever adds to   *)
(* suppressed, so a pair that was harmless when visited stays harmless.    *)
(* The guard's argument: a scan that is not refused saw every row, so when *)
(* the response is made each row has put what it withholds into hidden.    *)
(***************************************************************************)
EXTENDS CohortSuppression, CrossGrainGuard, TLAPS

(* The floor: CohortSuppression                                            *)


\* A pair that needs no further suppression.
Settled(p) ==
    \/ p[1] \in suppressed
    \/ p[2] \in suppressed
    \/ ~ComplementIsDisclosive(row[p[1]], row[p[2]])

Cause(s) ==
    \/ IsDisclosive(row[s])
    \/ \E p \in pairs : p[1] = s /\ ~IsDisclosive(row[p[2]])
                        /\ ComplementIsDisclosive(row[s], row[p[2]])

\* <<s, c>> is a pair already, or the walk of s stands on c.
Reached(s, c) == <<s, c>> \in pairs \/ (s = from /\ at = c)

Walked == Declared \ unwalked

WalkInv ==
    /\ phase \in Phases
    /\ phase = "declare" => from = NULL /\ pairs = {}
    /\ pairs \subseteq Secondary \X Cohorts
    /\ from \in Secondary \cup {NULL} /\ at \in Cohorts \cup {NULL}
    /\ phase \notin {"declare", "rejected"} =>
          /\ WellDeclared
          /\ unwalked \subseteq Declared
          /\ \A p \in pairs : p[1] \in Walked /\ p[1] # p[2]
          /\ from # NULL => from \in Walked
          /\ \A s \in Walked : Reached(s, policy.contained_in[s])
          /\ \A p \in pairs : p[2] \in Declared =>
                Reached(p[1], policy.contained_in[p[2]])
    /\ Usable => unwalked = {} /\ from = NULL

LoopInv ==
    /\ row \in Rows
    /\ suppressed \subseteq Secondary /\ pending \subseteq pairs
    /\ changed \in BOOLEAN
    /\ phase \notin {"pass", "published"} => passes = 0
    /\ phase \in {"pass", "published"} =>
          /\ row[Primary] # NULL /\ row[Primary] >= Floor
          /\ \A s \in Secondary : IsDisclosive(row[s]) => s \in suppressed
          /\ \A s \in suppressed : Cause(s)
          /\ \A p \in pairs \ pending : Settled(p)
          /\ passes \in {1, 2}
          /\ passes = 2 => ~changed /\ \A p \in pairs : Settled(p)

ShownInv ==
    phase = "published" =>
        /\ pending = {}
        /\ shown = [c \in Cohorts |-> IF c \in suppressed THEN NULL ELSE row[c]]
        /\ shownDerived = {d \in DOMAIN policy.derived :
                              policy.derived[d] \cap suppressed = {}}

SuppressionInv == WalkInv /\ LoopInv /\ ShownInv

-----------------------------------------------------------------------------
\* The indexes of a pair.
LEMMA PairFacts ==
    ASSUME NEW s, NEW c, NEW p \in Secondary \X Cohorts
    PROVE  /\ <<s, c>>[1] = s /\ <<s, c>>[2] = c
           /\ p = <<p[1], p[2]>> /\ p[1] \in Secondary /\ p[2] \in Cohorts
  OBVIOUS

\* The initial state: nothing walked, nothing suppressed.
LEMMA InitSuppressionInv == Init => SuppressionInv
  BY SuppressionAssumption
  DEF Init, SuppressionInv, WalkInv, LoopInv, ShownInv, Phases, Usable, Rows, Counts

\* The walk of validation keeps the pairs closed.
LEMMA WalkPreserved == SuppressionInv /\ [Next]_vars => WalkInv'
  <1> SUFFICES ASSUME SuppressionInv, [Next]_vars PROVE WalkInv'
    OBVIOUS
  <1> USE DEF SuppressionInv, WalkInv, Phases, Usable
  <1>1. CASE Declare
    BY <1>1, SuppressionAssumption
    DEF Declare, WellDeclared, Declared, Walked, Reached
  <1>2. ASSUME NEW s \in Secondary, StartWalk(s) PROVE WalkInv'
    <2>1. s \in Declared /\ at' = policy.contained_in[s] /\ s # NULL
      BY <1>2, SuppressionAssumption DEF StartWalk, ContainerOf, Cohorts
    <2>2. at' \in Cohorts
      BY <1>2, <2>1 DEF StartWalk, WellDeclared
    <2>3. \A x \in Secondary : \A c : Reached(x, c) => Reached(x, c)'
      BY <1>2, SuppressionAssumption DEF StartWalk, Reached, Cohorts
    <2>. QED
      BY <1>2, <2>1, <2>2, <2>3, SuppressionAssumption
      DEF StartWalk, WellDeclared, Declared, Walked, Reached
  <1>3. CASE WalkOn
    <2>1. from \in Walked /\ at \in Cohorts /\ from # at
      BY <1>3 DEF WalkOn, Seen
    <2>2. at' \in Cohorts \cup {NULL}
      BY <1>3, <2>1 DEF WalkOn, ContainerOf, WellDeclared
    <2>3. \A x, c : Reached(x, c) => Reached(x, c)'
      BY <1>3 DEF WalkOn, Reached
    <2>4. \A c : at \in Declared /\ c = policy.contained_in[at] => Reached(from, c)'
      BY <1>3 DEF WalkOn, ContainerOf, Reached
    <2>5. from \in Secondary
      BY <1>3 DEF WalkOn
    <2>6. \A p \in pairs' : p \in pairs \/ (p[1] = from /\ p[2] = at)
      BY <1>3 DEF WalkOn
    <2>7. /\ UNCHANGED <<policy, phase, unwalked, from>>
          /\ pairs' \subseteq Secondary \X Cohorts
          /\ WellDeclared' /\ Declared' = Declared /\ Walked' = Walked
      BY <1>3, <2>1, <2>5 DEF WalkOn, WellDeclared, Declared, Walked
    <2>8. \A p \in pairs' : p[1] \in Walked /\ p[1] # p[2]
      BY <1>3, <2>1, <2>6 DEF WalkOn
    <2>9. \A s \in Walked : Reached(s, policy.contained_in[s])'
      BY <1>3, <2>3, <2>7 DEF WalkOn
    <2>10. ASSUME NEW p \in pairs', p[2] \in Declared
           PROVE  Reached(p[1], policy.contained_in[p[2]])'
      BY <1>3, <2>3, <2>4, <2>6, <2>7, <2>10 DEF WalkOn
    <2>. QED
      BY <1>3, <2>1, <2>2, <2>5, <2>7, <2>8, <2>9, <2>10 DEF WalkOn
  <1>4. CASE WalkCycle
    BY <1>4 DEF WalkCycle, walkVars
  <1>5. CASE EndWalk
    <2>1. \A x \in Declared : policy.contained_in[x] # at
      BY <1>5, SuppressionAssumption DEF EndWalk, WellDeclared
    <2>. QED
      BY <1>5, <2>1 DEF EndWalk, WellDeclared, Declared, Walked, Reached
  <1>6. CASE Accept
    BY <1>6 DEF Accept, walkVars, WellDeclared, Declared, Walked, Reached
  <1>7. ASSUME policy' = policy, UNCHANGED walkVars,
               phase' = phase \/ (Usable /\ Usable'), phase' \in Phases
        PROVE WalkInv'
    BY <1>7 DEF walkVars, WellDeclared, Declared, Walked, Reached
  <1>8. ASSUME NEW r \in Rows, TakeRow(r) PROVE WalkInv'
    BY <1>7, <1>8 DEF TakeRow
  <1>9. CASE PassStep
    BY <1>7, <1>9 DEF PassStep, VisitPair, NextPass, Publish
  <1>10. CASE NextRow
    BY <1>7, <1>10 DEF NextRow
  <1>11. CASE UNCHANGED vars
    BY <1>7, <1>11 DEF vars
  <1>. QED
    BY <1>1, <1>2, <1>3, <1>4, <1>5, <1>6, <1>8, <1>9, <1>10, <1>11
    DEF Next, WalkStep, Refused

\* The loop never undoes a suppression, so what is settled stays settled.
LEMMA LoopPreserved == SuppressionInv /\ [Next]_vars => LoopInv'
  <1> SUFFICES ASSUME SuppressionInv, [Next]_vars PROVE LoopInv'
    OBVIOUS
  <1> USE DEF SuppressionInv, LoopInv
  <1>1. ASSUME UNCHANGED <<row, passVars>>, pairs \subseteq pairs',
               {phase, phase'} \cap {"pass", "published"} = {} \/ UNCHANGED <<phase, pairs>>
        PROVE LoopInv'
    BY <1>1 DEF passVars, Cause, Settled
  <1>2. CASE Declare
    BY <1>1, <1>2 DEF Declare
  <1>3. CASE WalkStep
    BY <1>1, <1>3 DEF WalkStep, StartWalk, WalkOn, WalkCycle, EndWalk, Accept, walkVars
  <1>4. ASSUME NEW r \in Rows, TakeRow(r) PROVE LoopInv'
    <2>1. CASE BelowFloor(r[Primary])
      BY <1>4, <2>1 DEF TakeRow, passVars, walkVars
    <2>2. CASE ~BelowFloor(r[Primary])
      <3>1. r[Primary] # NULL /\ r[Primary] >= Floor
        BY <2>2, SuppressionAssumption DEF BelowFloor, Rows, Cohorts, Counts
      <3>2. /\ row' = r /\ phase' = "pass" /\ pairs' = pairs
            /\ suppressed' = {c \in Secondary : IsDisclosive(r[c])}
            /\ pending' = pairs /\ changed' = FALSE /\ passes' = 1
        BY <1>4, <2>2 DEF TakeRow, walkVars
      <3>3. \A s \in suppressed' : Cause(s)'
        BY <3>2 DEF Cause, IsDisclosive
      <3>4. \A s \in Secondary : IsDisclosive(row[s])' => s \in suppressed'
        BY <3>2 DEF IsDisclosive
      <3>5. /\ row' \in Rows /\ row'[Primary] # NULL /\ row'[Primary] >= Floor
            /\ suppressed' \subseteq Secondary /\ pending' \subseteq pairs'
            /\ pairs' \ pending' = {}
            /\ changed' \in BOOLEAN /\ passes' = 1 /\ phase' = "pass"
        BY <3>1, <3>2
      <3>. QED
        BY <3>3, <3>4, <3>5
    <2>. QED BY <2>1, <2>2
  <1>5. ASSUME NEW p \in pairs, VisitPair(p) PROVE LoopInv'
    <2>1. p[1] \in Secondary /\ p[2] \in Cohorts
      BY PairFacts DEF WalkInv
    <2>2. ASSUME NEW q PROVE Settled(q) => Settled(q)'
      BY <1>5 DEF VisitPair, Settled
    <2>3. ASSUME NEW s PROVE Cause(s) => Cause(s)'
      BY <1>5 DEF VisitPair, Cause, walkVars
    <2>4. Settled(p)'
      BY <1>5 DEF VisitPair, Suppresses, Settled
    <2>5. CASE Suppresses(p)
      <3>1. Cause(p[1])
        <4>1. ~IsDisclosive(row[p[2]])
          BY <1>5, <2>1, <2>5, SuppressionAssumption
          DEF Suppresses, VisitPair, IsDisclosive, Cohorts, Rows, Counts
        <4>. QED BY <4>1, <2>5 DEF Suppresses, Cause
      <3>2. passes = 1
        BY <1>5, <2>5 DEF VisitPair, Suppresses, Settled
      <3>3. suppressed' = suppressed \cup {p[1]} /\ changed' = TRUE
        BY <1>5, <2>5 DEF VisitPair
      <3>. QED
        BY <1>5, <2>1, <2>2, <2>3, <2>4, <3>1, <3>2, <3>3 DEF VisitPair, walkVars
    <2>6. CASE ~Suppresses(p)
      <3>1. UNCHANGED <<suppressed, changed>>
        BY <1>5, <2>6 DEF VisitPair
      <3>. QED
        BY <1>5, <2>2, <2>3, <2>4, <3>1 DEF VisitPair, walkVars
    <2>. QED BY <2>5, <2>6
  <1>6. CASE NextPass
    <2>1. passes = 1
      BY <1>6 DEF NextPass
    <2>2. ASSUME NEW q PROVE Settled(q) => Settled(q)'
      BY <1>6 DEF NextPass, Settled
    <2>3. ASSUME NEW s PROVE Cause(s) => Cause(s)'
      BY <1>6 DEF NextPass, Cause, walkVars
    <2>4. /\ UNCHANGED <<phase, pairs, row, suppressed>>
          /\ pending = {} /\ pending' = pairs /\ changed' = FALSE /\ passes' = 2
          /\ phase = "pass"
      BY <1>6, <2>1 DEF NextPass, walkVars
    <2>5. \A q \in pairs' : Settled(q)'
      BY <2>2, <2>4
    <2>6. \A s \in suppressed' : Cause(s)'
      BY <2>3, <2>4
    <2>7. \A s \in Secondary : IsDisclosive(row[s])' => s \in suppressed'
      BY <2>4 DEF IsDisclosive
    <2>. QED
      BY <2>4, <2>5, <2>6, <2>7
  <1>7. CASE Publish
    BY <1>7 DEF Publish, passVars, walkVars, Cause, Settled
  <1>8. CASE NextRow
    BY <1>8 DEF NextRow, Rows, walkVars
  <1>9. CASE UNCHANGED vars
    BY <1>9, <1>1 DEF vars, walkVars
  <1>. QED
    BY <1>2, <1>3, <1>4, <1>5, <1>6, <1>7, <1>8, <1>9 DEF Next, PassStep, Refused

\* Only Publish makes a row visible.
LEMMA ShownPreserved == SuppressionInv /\ [Next]_vars => ShownInv'
  <1> SUFFICES ASSUME SuppressionInv, [Next]_vars PROVE ShownInv'
    OBVIOUS
  <1> USE DEF SuppressionInv, ShownInv
  <1>1. CASE Publish
    BY <1>1 DEF Publish, passVars
  <1>2. CASE UNCHANGED vars
    BY <1>2 DEF vars, passVars, outVars
  <1>3. ASSUME phase' # "published" PROVE ShownInv'
    BY <1>3
  <1>. QED
    BY <1>1, <1>2, <1>3
    DEF Next, WalkStep, PassStep, Refused, Declare, StartWalk, WalkOn, WalkCycle,
        EndWalk, Accept, TakeRow, VisitPair, NextPass, NextRow

\* The invariant the theorems below rest on holds in every reachable state.
THEOREM SuppressionInvHolds == Spec => []SuppressionInv
  <1>1. SuppressionInv /\ [Next]_vars => SuppressionInv'
    BY WalkPreserved, LoopPreserved, ShownPreserved DEF SuppressionInv
  <1>. QED
    BY InitSuppressionInv, <1>1, PTL DEF Spec

\* complement_pairs() of any policy that validates is transitively closed.
THEOREM PairsAreTransitive == Spec => []PairsTransitive
  <1>1. SuppressionInv => PairsTransitive
    BY SuppressionAssumption
    DEF SuppressionInv, WalkInv, PairsTransitive, Usable, Walked, Reached, WellDeclared, Cohorts
  <1>. QED
    BY SuppressionInvHolds, <1>1, PTL

\* No policy that validates puts a cohort inside itself.
THEOREM ContainmentIsStrict == Spec => []NoCohortInsideItself
  <1>1. SuppressionInv => NoCohortInsideItself
    BY DEF SuppressionInv, WalkInv, NoCohortInsideItself, Usable
  <1>. QED
    BY SuppressionInvHolds, <1>1, PTL

\* Where a walk still stands on a container, every cohort behind it has one.
CycleInv ==
    /\ phase = "walk" /\ from # NULL /\ at # NULL => Seen \subseteq Declared
    /\ OnlyCyclesRejected

\* validation rejects as a cycle only a declaration that has one: the cohorts
\* of the walk that ran into itself all lie inside one another.
THEOREM RejectedForCycle == Spec => []OnlyCyclesRejected
  <1>1. Init => CycleInv
    BY DEF Init, CycleInv, OnlyCyclesRejected
  <1>2. SuppressionInv /\ CycleInv /\ [Next]_vars => CycleInv'
    <2> SUFFICES ASSUME SuppressionInv, CycleInv, [Next]_vars PROVE CycleInv'
      OBVIOUS
    <2> USE DEF SuppressionInv, CycleInv, OnlyCyclesRejected
    <2>1. CASE Declare
      BY <2>1 DEF Declare, WellDeclared, Declared, WalkInv
    <2>2. ASSUME NEW s \in Secondary, StartWalk(s) PROVE CycleInv'
      <3>1. s \in Declared /\ s \notin Walked
        BY <2>2 DEF StartWalk, WalkInv, Walked
      <3>2. \A c \in Cohorts : <<s, c>> \notin pairs
        BY <2>2, <3>1, PairFacts DEF StartWalk, WalkInv
      <3>3. Seen' \subseteq {s}
        BY <2>2, <3>2 DEF StartWalk, Seen
      <3>. QED
        BY <2>2, <3>1, <3>3 DEF StartWalk, Declared
    <2>3. CASE WalkOn
      <3>1. Seen' \subseteq Seen \cup {at}
        BY <2>3, PairFacts DEF WalkOn, Seen
      <3>2. at' # NULL => at \in Declared
        BY <2>3 DEF WalkOn, ContainerOf
      <3>. QED
        BY <2>3, <3>1, <3>2 DEF WalkOn, Declared
    <2>4. CASE WalkCycle
      <3>1. Seen \subseteq Declared /\ at \in Seen /\ from \in Seen
        BY <2>4 DEF WalkCycle, Seen
      <3>2. \A c : Reached(from, c) /\ c \in Cohorts => c \in Seen
        BY <3>1 DEF Reached, Seen
      <3>3. ASSUME NEW s \in Seen PROVE policy.contained_in[s] \in Seen
        <4>1. policy.contained_in[s] \in Cohorts
          BY <2>4, <3>1 DEF WalkCycle, WalkInv, WellDeclared
        <4>2. CASE s = from
          BY <2>4, <3>2, <4>1, <4>2 DEF WalkCycle, WalkInv
        <4>3. CASE <<from, s>> \in pairs
          <5>1. s \in Declared => Reached(from, policy.contained_in[s])
            BY <2>4, <4>3, PairFacts DEF WalkCycle, WalkInv
          <5>. QED
            BY <3>1, <3>2, <4>1, <5>1
        <4>. QED
          BY <4>2, <4>3 DEF Seen
      <3>4. Cyclic
        BY <3>1, <3>3 DEF Cyclic
      <3>. QED
        BY <2>4, <3>4 DEF WalkCycle, Cyclic, Declared
    <2>5. CASE UNCHANGED vars
      BY <2>5 DEF vars, walkVars, Seen, Declared, WellDeclared, Cyclic
    <2>6. ASSUME from' = NULL \/ phase' # "walk", phase' # "rejected" PROVE CycleInv'
      BY <2>6
    <2>7. CASE EndWalk
      BY <2>6, <2>7 DEF EndWalk
    <2>8. CASE Accept \/ (\E r \in Rows : TakeRow(r)) \/ PassStep \/ NextRow
      BY <2>6, <2>8 DEF Accept, TakeRow, PassStep, VisitPair, NextPass, Publish, NextRow
    <2>. QED
      BY <2>1, <2>2, <2>3, <2>4, <2>5, <2>7, <2>8 DEF Next, WalkStep, Refused
  <1>3. CycleInv => OnlyCyclesRejected
    BY DEF CycleInv
  <1>. QED
    BY <1>1, <1>2, <1>3, SuppressionInvHolds, PTL DEF Spec

\* The three together: validation separates the partial orders from the rest.
THEOREM ValidationIsSound == Spec => []ValidationSound
  <1>1. PairsTransitive /\ NoCohortInsideItself /\ OnlyCyclesRejected => ValidationSound
    BY DEF ValidationSound
  <1>. QED
    BY <1>1, PairsAreTransitive, ContainmentIsStrict, RejectedForCycle, PTL

\* No published row names a small cohort, directly or by a complement.
THEOREM FloorHolds == Spec => []PublishedRowSafe
  <1>1. SuppressionInv => PublishedRowSafe
    <2> SUFFICES ASSUME SuppressionInv, phase = "published" PROVE PublishedRowSafe
      BY DEF PublishedRowSafe
    <2> USE DEF SuppressionInv, LoopInv, ShownInv
    <2>1. Primary \notin suppressed /\ Primary \in Cohorts
      BY SuppressionAssumption DEF Cohorts
    <2>2. shown[Primary] = row[Primary]
      BY <2>1
    <2>3. ASSUME NEW s \in Secondary, shown[s] # NULL
          PROVE s \notin suppressed /\ shown[s] = row[s] /\ ~IsDisclosive(row[s])
      BY <2>3 DEF Cohorts
    <2>4. ASSUME NEW p \in pairs, shown[p[1]] # NULL, shown[p[2]] # NULL
          PROVE ~ComplementIsDisclosive(shown[p[1]], shown[p[2]])
      <3>1. p[1] \in Cohorts /\ p[2] \in Cohorts
        BY PairFacts DEF WalkInv, Cohorts
      <3>2. p[1] \notin suppressed /\ p[2] \notin suppressed
        BY <2>4, <3>1
      <3>3. Settled(p)
        OBVIOUS
      <3>. QED
        BY <3>1, <3>2, <3>3 DEF Settled
    <2>. QED
      BY <2>2, <2>3, <2>4 DEF PublishedRowSafe
  <1>. QED
    BY SuppressionInvHolds, <1>1, PTL

\* A derived value never outlives a cohort it is computed over.
THEOREM DerivedNeverOutlive == Spec => []DerivedFollowCohorts
  <1>1. SuppressionInv => DerivedFollowCohorts
    <2> SUFFICES ASSUME SuppressionInv, phase = "published",
                        NEW d \in shownDerived, NEW c \in policy.derived[d]
                 PROVE  shown[c] # NULL
      BY DEF DerivedFollowCohorts
    <2> USE DEF SuppressionInv, LoopInv, ShownInv
    <2>1. d \in DOMAIN policy.derived /\ c \notin suppressed
      OBVIOUS
    <2>2. c \in Cohorts
      BY <2>1 DEF WalkInv, WellDeclared
    <2>3. row[c] # NULL
      BY <2>1, <2>2 DEF Cohorts, IsDisclosive
    <2>. QED
      BY <2>1, <2>2, <2>3
  <1>. QED
    BY SuppressionInvHolds, <1>1, PTL

\* The loop settles in one pass and a confirming one.
THEOREM OnePassSettles == Spec => []SettlesInOnePass
  <1>1. SuppressionInv => SettlesInOnePass
    BY DEF SuppressionInv, LoopInv, SettlesInOnePass
  <1>. QED
    BY SuppressionInvHolds, <1>1, PTL

\* Nothing is withheld without a cause of its own.
THEOREM WithheldForCause == Spec => []NothingWithheldWithoutCause
  <1>1. SuppressionInv => NothingWithheldWithoutCause
    <2> SUFFICES ASSUME SuppressionInv, phase = "published",
                        NEW s \in Secondary, shown[s] = NULL
                 PROVE  Cause(s)
      BY DEF NothingWithheldWithoutCause, Cause
    <2>1. s \in suppressed \/ row[s] = NULL
      BY DEF SuppressionInv, ShownInv, Cohorts
    <2>. QED
      BY <2>1 DEF SuppressionInv, LoopInv, Cause, IsDisclosive
  <1>. QED
    BY SuppressionInvHolds, <1>1, PTL

-----------------------------------------------------------------------------
(* The guard: CrossGrainGuard                                              *)

Contributed(c) == HiddenBy(rows[c]) \subseteq hidden[month[c]]

GuardInv ==
    /\ month \in [Contracts -> Months] /\ finer \in SUBSET Contracts
    /\ limit \in ScanLimits
    /\ hidden \in [Months -> SUBSET Columns]
    /\ stage \in {"start", "failed"} => response = [m \in Months |-> {}]
    /\ stage = "scan" => /\ response = [m \in Months |-> {}]
                         /\ \A c \in finer \ todo : Contributed(c)
    /\ stage = "respond" =>
          /\ response = [m \in Months |-> Blank(m, Visible(coarse[m]))]
          /\ \A c \in finer : Contributed(c)
    /\ stage \in {"start", "scan", "respond", "failed"}

-----------------------------------------------------------------------------
\* What a row withholds is known before it is reported: columns only.
LEMMA HiddenTyped == ASSUME NEW r PROVE HiddenBy(r) \subseteq Columns
  BY DEF HiddenBy, Additive, Bare, Columns, TrendCohorts

\* The invariant holds at the start and after every step.
THEOREM GuardInvHolds == GuardSpec => []GuardInv
  <1>1. GuardInit => GuardInv
    BY DEF GuardInit, GuardInv
  <1>2. GuardInv /\ [GuardNext]_guardVars => GuardInv'
    <2> SUFFICES ASSUME GuardInv, [GuardNext]_guardVars PROVE GuardInv'
      OBVIOUS
    <2> USE DEF GuardInv
    <2>1. CASE Scan
      <3>1. PICK S \in SUBSET finer :
               /\ Cardinality(S) = limit \/ (Cardinality(S) < limit /\ S = finer)
               /\ \/ Cardinality(S) >= limit /\ stage' = "failed" /\ todo' = {}
                  \/ Cardinality(S) < limit /\ stage' = "scan" /\ todo' = S
        BY <2>1 DEF Scan
      <3>2. limit \in Nat
        BY GrainAssumption
      <3>3. stage' = "failed" \/ (stage' = "scan" /\ todo' = finer)
        BY <3>1, <3>2
      <3>. QED
        BY <2>1, <3>3 DEF Scan, dataVars, Contributed
    <2>2. ASSUME NEW c \in Contracts, GuardRow(c) PROVE GuardInv'
      <3>1. /\ hidden' = [hidden EXCEPT ![month[c]] = @ \cup HiddenBy(rows[c])]
            /\ UNCHANGED <<month, finer, rows, coarse, limit, stage, response>>
            /\ stage = "scan" /\ todo' = todo \ {c}
        BY <2>2 DEF GuardRow, dataVars
      <3>2. month[c] \in Months
        OBVIOUS
      <3>3. hidden' \in [Months -> SUBSET Columns]
        BY <3>1, <3>2, HiddenTyped
      <3>4. Contributed(c)'
        BY <3>1, <3>2 DEF Contributed, HiddenBy, Visible, SuppressedCohorts
      <3>5. \A d \in finer : Contributed(d) => Contributed(d)'
        BY <3>1, <3>2 DEF Contributed, HiddenBy, Visible, SuppressedCohorts
      <3>6. \A d \in finer \ todo' : Contributed(d)'
        BY <3>1, <3>4, <3>5
      <3>. QED
        BY <3>1, <3>3, <3>6
    <2>3. CASE Respond
      BY <2>3 DEF Respond, dataVars, Contributed, Blank
    <2>4. CASE UNCHANGED guardVars
      BY <2>4 DEF guardVars, Contributed, Blank
    <2>. QED
      BY <2>1, <2>2, <2>3, <2>4 DEF GuardNext, Done
  <1>. QED
    BY <1>1, <1>2, PTL DEF GuardSpec

\* A column in the response is one the guard did not report.
LEMMA ShownNotHidden ==
    ASSUME GuardInv, NEW m \in Months, NEW col \in response[m]
    PROVE  /\ stage = "respond"
           /\ col \notin hidden[m]
           /\ col \in TrendCohorts => hidden[m] = {}
  BY DEF GuardInv, Blank

\* No additive total is recoverable by subtraction.
THEOREM TotalsAreSafe == GuardSpec => []TotalsNotRecoverable
  <1>1. GuardInv => TotalsNotRecoverable
    <2> SUFFICES ASSUME GuardInv, NEW m \in Months, NEW col \in response[m] \cap Additive,
                        NEW c \in InMonth(m)
                 PROVE  col \in Visible(rows[c])
      BY DEF TotalsNotRecoverable
    <2>1. col \notin hidden[m] /\ stage = "respond"
      BY ShownNotHidden
    <2>2. HiddenBy(rows[c]) \subseteq hidden[m]
      BY <2>1 DEF GuardInv, Contributed, InMonth
    <2>. QED
      BY <2>1, <2>2 DEF HiddenBy
  <1>. QED
    BY GuardInvHolds, <1>1, PTL

\* No cohort count is recoverable from disjoint contracts.
THEOREM CohortsAreSafe == GuardSpec => []CohortsNotRecoverable
  <1>1. GuardInv => CohortsNotRecoverable
    <2> SUFFICES ASSUME GuardInv, NEW m \in Months, response[m] \cap TrendCohorts # {},
                        NEW c \in InMonth(m)
                 PROVE  TrendCohorts \subseteq Visible(rows[c])
      BY DEF CohortsNotRecoverable
    <2>1. hidden[m] = {} /\ stage = "respond"
      BY ShownNotHidden
    <2>2. HiddenBy(rows[c]) = {}
      BY <2>1 DEF GuardInv, Contributed, InMonth
    <2>3. ~BelowFloor(rows[c].contributing)
      BY <2>2 DEF HiddenBy, Additive
    <2>4. "total" \in Visible(rows[c]) /\ "active" \in Visible(rows[c])
      BY <2>2, <2>3 DEF HiddenBy, Additive, Bare
    <2>5. "watchers" \notin SuppressedCohorts(rows[c]) /\ "active" \notin SuppressedCohorts(rows[c])
      BY <2>3, <2>4 DEF Visible
    <2>6. rows[c].watchers # NULL /\ rows[c].active # NULL
      BY <2>5 DEF SuppressedCohorts, IsDisclosive, TrendCohorts
    <2>7. rows[c].contributing # NULL
      BY <2>3, GrainAssumption DEF BelowFloor
    <2>. QED
      BY <2>3, <2>5, <2>6, <2>7 DEF Visible, Columns, TrendCohorts, SuppressedCohorts
  <1>. QED
    BY GuardInvHolds, <1>1, PTL

\* Nothing is blanked without a reason: a column hidden for a month is one
\* that some contract row of that very month withholds.
HiddenHasSource ==
    /\ todo \subseteq finer
    /\ \A m \in Months : \A col \in hidden[m] :
          \E c \in InMonth(m) : col \in HiddenBy(rows[c])

\* The guard's loop only ever adds what the row at hand withholds, under the
\* month of that row.
THEOREM HiddenIsSourced == GuardSpec => []HiddenHasSource
  <1>1. GuardInit => HiddenHasSource
    BY DEF GuardInit, HiddenHasSource
  <1>2. GuardInv /\ HiddenHasSource /\ [GuardNext]_guardVars => HiddenHasSource'
    <2> SUFFICES ASSUME GuardInv, HiddenHasSource, [GuardNext]_guardVars PROVE HiddenHasSource'
      OBVIOUS
    <2> DEFINE Sourced(m, col) == \E c \in InMonth(m) : col \in HiddenBy(rows[c])
    <2>1. ASSUME UNCHANGED <<month, finer, rows, hidden>>, todo' \subseteq finer
          PROVE  HiddenHasSource'
      BY <2>1 DEF HiddenHasSource, InMonth, HiddenBy, Visible, SuppressedCohorts
    <2>2. CASE Scan
      BY <2>1, <2>2 DEF Scan, dataVars
    <2>3. ASSUME NEW c \in Contracts, GuardRow(c) PROVE HiddenHasSource'
      <3>1. /\ hidden' = [hidden EXCEPT ![month[c]] = @ \cup HiddenBy(rows[c])]
            /\ UNCHANGED <<month, finer, rows>>
            /\ c \in todo /\ todo' = todo \ {c}
        BY <2>3 DEF GuardRow, dataVars
      <3>2. c \in InMonth(month[c])
        BY <3>1 DEF HiddenHasSource, InMonth
      <3>3. ASSUME NEW m \in Months, NEW col \in hidden'[m] PROVE Sourced(m, col)
        <4>1. CASE col \in hidden[m]
          BY <4>1 DEF HiddenHasSource
        <4>2. CASE m = month[c] /\ col \in HiddenBy(rows[c])
          BY <4>2, <3>2
        <4>. QED
          BY <4>1, <4>2, <3>1 DEF GuardInv
      <3>4. ASSUME NEW m \in Months, NEW col PROVE Sourced(m, col) <=> Sourced(m, col)'
        BY <3>1 DEF InMonth, HiddenBy, Visible, SuppressedCohorts
      <3>. QED
        BY <3>1, <3>3, <3>4 DEF HiddenHasSource
    <2>4. CASE Respond
      BY <2>1, <2>4 DEF Respond, dataVars, HiddenHasSource
    <2>5. CASE UNCHANGED guardVars
      BY <2>1, <2>5 DEF guardVars, HiddenHasSource
    <2>. QED
      BY <2>2, <2>3, <2>4, <2>5 DEF GuardNext, Done
  <1>. QED
    BY <1>1, <1>2, GuardInvHolds, PTL DEF GuardSpec

\* A month whose contract rows publish everything shows what the floor alone
\* would: no row of it contributed to hidden, and rows of other months do
\* not reach it.
THEOREM GuardCostsNothing == GuardSpec => []GuardOnlyWhereNeeded
  <1>1. GuardInv /\ HiddenHasSource => GuardOnlyWhereNeeded
    <2> SUFFICES ASSUME GuardInv, HiddenHasSource, stage = "respond", NEW m \in Months,
                        \A c \in InMonth(m) : Visible(rows[c]) = Columns
                 PROVE  response[m] = Visible(coarse[m])
      BY DEF GuardOnlyWhereNeeded
    <2>1. ASSUME NEW c \in InMonth(m) PROVE HiddenBy(rows[c]) = {}
      <3>1. Visible(rows[c]) = Columns
        OBVIOUS
      <3>2. ~BelowFloor(rows[c].contributing)
        BY <3>1 DEF Visible, Columns, TrendCohorts
      <3>. QED
        BY <3>1, <3>2 DEF HiddenBy, Columns, TrendCohorts, Additive, Bare
    <2>2. hidden[m] = {}
      BY <2>1 DEF HiddenHasSource
    <2>. QED
      BY <2>2 DEF GuardInv, Blank
  <1>. QED
    BY GuardInvHolds, HiddenIsSourced, <1>1, PTL
=============================================================================
