---------------------- MODULE DashboardRequestsProofs ----------------------
(***************************************************************************)
(* Proofs about DashboardRequests, for any rows, contracts, learners,      *)
(* contents and decisions, any requests, floor and days.  What the         *)
(* statements select decides TileMatchesDirectory, RollupSharesWhenAllDo   *)
(* and WithheldInvisible; CountsAgreeWithRows and WalkComplete need what a *)
(* request in progress knows (WalkInv) and how a page relates to the set   *)
(* it is a slice of (the lemmas on ranks).                                 *)
(***************************************************************************)
EXTENDS DashboardRequests, FiniteSetTheorems, WellFoundedInduction, NaturalsInduction, TLAPS

-----------------------------------------------------------------------------
(* Types                                                                   *)

\* A rollup's decision is an answer.
LEMMA RollupType ==
    ASSUME NEW D
    PROVE  RollupDecision(D) \in Answer
  BY DEF RollupDecision, Answer

\* A panel row stays one when its status is set.
LEMMA PanelRowType ==
    ASSUME NEW c \in PanelContents
    PROVE  /\ c \in PanelRow /\ c.health \in Healths
           /\ \A h \in Healths : [c EXCEPT !.health = h] \in PanelRow
<1>1. c \in PanelRow
  BY RequestsAssumption DEF RequestsAssumption
<1> QED
  BY <1>1 DEF PanelRow

\* The initial states are well typed.
LEMMA InitTypeOK == Init => TypeOK
<1> SUFFICES ASSUME Init PROVE TypeOK
  OBVIOUS
<1>1. table \in [Rows -> Row]
  <2>1. CASE req.endpoint \in Panels
    <3>1. \A p \in Rows : (CHOOSE c \in Contents[p] : TRUE) \in Row
      BY RequestsAssumption DEF RequestsAssumption
    <3> QED
      BY <2>1, <3>1 DEF Init
  <2>2. CASE req.endpoint \notin Panels
    <3>1. /\ table \in [Rows -> UNION {Contents[p] : p \in Rows}]
          /\ \A p \in Rows : table[p] \in Contents[p]
      BY <2>2 DEF Init
    <3>2. \A p \in Rows : table[p] \in Row
      BY <3>1, RequestsAssumption DEF RequestsAssumption
    <3> QED
      BY <3>1, <3>2
  <2> QED
    BY <2>1, <2>2
<1>2. decision \in [DOMAIN Decisions -> Answer]
  <2>1. Null \in Answer
    BY DEF Answer
  <2> QED
    BY <2>1 DEF Init
<1>3. panel \in [PanelRows -> PanelRow]
  <2>1. ASSUME NEW c \in PanelContents PROVE c \in PanelRow /\ Frozen(c) \in PanelRow
    <3> DEFINE h == IF c.since # Null /\ c.since <= 0 THEN "at_risk" ELSE c.health
    <3>1. c \in PanelRow /\ c.health \in Healths
      BY PanelRowType
    <3>2. h \in Healths
      <4>1. "at_risk" \in Healths
        BY DEF Healths
      <4> QED
        BY <3>1, <4>1, Zenon
    <3> HIDE DEF h
    <3>3. [c EXCEPT !.health = h] \in PanelRow
      BY <3>2, PanelRowType
    <3> QED
      BY <3>1, <3>3 DEF Frozen, h
  <2>2. (CHOOSE c \in PanelContents : TRUE) \in PanelContents
    BY RequestsAssumption DEF RequestsAssumption
  <2>3. CASE req.endpoint \in Panels
    <3>1. panel \in [PanelRows -> {Frozen(c) : c \in PanelContents}]
      BY <2>3 DEF Init
    <3> QED
      BY <2>1, <3>1
  <2>4. CASE req.endpoint \notin Panels
    BY <2>1, <2>2, <2>4 DEF Init
  <2> QED
    BY <2>3, <2>4
<1>4. roster \in [Learners -> Answer \cup {Absent}]
  BY RollupType DEF Init, Resolved
<1>5. /\ day \in 0..LastDay /\ refreshes \in 0..MaxRefreshes /\ today \in 0..day /\ offset \in Nat
  BY RequestsAssumption DEF Init, RequestsAssumption
<1> QED
  BY <1>1, <1>2, <1>3, <1>4, <1>5 DEF Init, TypeOK

\* A refresh puts contents into the views, and answers.
LEMMA RefreshTypeOK ==
    ASSUME TypeOK, Refresh \/ RefreshRoster \/ RefreshPanel
    PROVE  TypeOK'
<1>0. refreshes' \in 0..MaxRefreshes
  BY RequestsAssumption DEF RequestsAssumption, TypeOK, Refresh, RefreshRoster, RefreshPanel
<1>1. CASE Refresh
  <2>1. table' \in [Rows -> Row]
    BY <1>1, RequestsAssumption DEF RequestsAssumption, TypeOK, Refresh
  <2>2. decision' \in [DOMAIN Decisions -> Answer]
    BY <1>1, RequestsAssumption DEF RequestsAssumption, TypeOK, Refresh
  <2> QED
    BY <1>0, <1>1, <2>1, <2>2 DEF TypeOK, Refresh
<1>2. CASE RefreshRoster
  <2>1. roster' \in [Learners -> Answer \cup {Absent}]
    BY <1>2, RollupType DEF RefreshRoster, Resolved
  <2> QED
    BY <1>0, <1>2, <2>1 DEF TypeOK, RefreshRoster
<1>3. CASE RefreshPanel
  <2>1. PICK x \in PanelRows, c \in PanelContents :
           panel' = [panel EXCEPT ![x] = [c EXCEPT !.health =
                       IF c.since # Null /\ c.since <= day THEN "at_risk" ELSE @]]
    BY <1>3 DEF RefreshPanel
  <2>2. [c EXCEPT !.health = IF c.since # Null /\ c.since <= day THEN "at_risk" ELSE @] \in PanelRow
    <3> DEFINE h == IF c.since # Null /\ c.since <= day THEN "at_risk" ELSE c.health
    <3>1. h \in Healths
      <4>1. "at_risk" \in Healths /\ c.health \in Healths
        BY PanelRowType DEF Healths
      <4> QED
        BY <4>1, Zenon
    <3> HIDE DEF h
    <3>2. [c EXCEPT !.health = h] \in PanelRow
      BY <3>1, PanelRowType
    <3> QED
      BY <3>2 DEF h
  <2>3. panel' \in [PanelRows -> PanelRow]
    BY <2>1, <2>2 DEF TypeOK
  <2> QED
    BY <1>0, <1>3, <2>3 DEF TypeOK, RefreshPanel
<1> QED
  BY <1>1, <1>2, <1>3

\* The variables have their types (TypeOK), whatever the views are refreshed
\* with and however the walk goes.
THEOREM TypeCorrect == Spec => []TypeOK
<1>1. TypeOK /\ [Next]_vars => TypeOK'
  <2> SUFFICES ASSUME TypeOK, [Next]_vars PROVE TypeOK'
    OBVIOUS
  <2>1. CASE ReadToday
    BY <2>1 DEF TypeOK, ReadToday, data
  <2>2. CASE FetchPage
    BY <2>2 DEF TypeOK, FetchPage, data
  <2>3. CASE ReadClock
    BY <2>3 DEF TypeOK, ReadClock, data
  <2>4. CASE FetchCount
    BY <2>4 DEF TypeOK, FetchCount, data
  <2>5. CASE NextPage
    <3>1. req.limit \in Nat
      BY RequestsAssumption DEF RequestsAssumption, TypeOK
    <3> QED
      BY <2>5, <3>1 DEF TypeOK, NextPage, data
  <2>6. CASE StartOver
    <3>1. today' \in 0..day' /\ offset' \in Nat /\ pc' = "today" /\ moved' = FALSE
      BY <2>6 DEF TypeOK, StartOver
    <3>2. UNCHANGED <<failOpen, table, decision, roster, panel, day, refreshes, req>>
      BY <2>6 DEF StartOver, data
    <3> QED
      BY <3>1, <3>2 DEF TypeOK
  <2>7. CASE Midnight
    <3>1. day' \in 0..LastDay /\ today' \in 0..day'
      BY <2>7, RequestsAssumption DEF RequestsAssumption, TypeOK, Midnight
    <3> QED
      BY <2>7, <3>1 DEF TypeOK, Midnight, data
  <2>8. CASE UNCHANGED vars
    BY <2>8 DEF TypeOK, vars, data
  <2> QED
    BY <2>1, <2>2, <2>3, <2>4, <2>5, <2>6, <2>7, <2>8, RefreshTypeOK DEF Next
<1> QED
  BY <1>1, InitTypeOK, PTL DEF Spec

-----------------------------------------------------------------------------
(* The tile and the directory                                              *)

\* The tile counts the learners that the directory lists under
\* needs_attention=true: both statements keep the active rows of learners
\* with an id whose outcomes are shared and whose date has come.
THEOREM TileIsDirectory == Spec => []TileMatchesDirectory
<1>1. TileMatchesDirectory
  <2> SUFFICES ASSUME NEW c \in Contracts, NEW date \in 0..LastDay
               PROVE  Tile(c, date).needing =
                         Cardinality(ListedLearners([contract |-> c, inactive |-> FALSE,
                                                     search |-> Learners, runs |-> {},
                                                     statuses |-> {}, needs |-> TRUE], date))
    BY DEF TileMatchesDirectory
  <2> DEFINE f == [contract |-> c, inactive |-> FALSE, search |-> Learners, runs |-> {},
                   statuses |-> {}, needs |-> TRUE]
             known == {p \in Active(c) : Learner[p] # Null}
             quiet == {p \in known : Shared(p) /\ NeedsAttention(p, date)}
  <2>1. Records(c, FALSE) = known
    BY DEF Records, Active
  <2>2. \A p \in known : Matches(p, f, date) <=> Shared(p) /\ NeedsAttention(p, date)
    <3>1. TRUE # Null
      BY RequestsAssumption DEF RequestsAssumption
    <3>2. \A p \in known : Learner[p] \in Learners
      BY DEF Learners, Active
    <3>3. \A p \in known : (NeedsAttention(p, date) = TRUE) <=> NeedsAttention(p, date)
      BY DEF NeedsAttention
    <3> QED
      BY <3>1, <3>2, <3>3 DEF Matches
  <2>3. Matched(f, date) = quiet
    BY <2>1, <2>2 DEF Matched
  <2>4. {Learner[p] : p \in quiet} \ {Null} = {Learner[p] : p \in quiet}
    OBVIOUS
  <2>5. Tile(c, date).needing = Distinct(quiet)
    BY DEF Tile
  <2> QED
    BY <2>3, <2>4, <2>5 DEF ListedLearners, Distinct
<1> QED
  BY <1>1, PTL

-----------------------------------------------------------------------------
(* The decision of a rollup                                                *)

\* _ROLLUP_DECISION shares just what all of its decisions share.
LEMMA RollupShares ==
    ASSUME NEW D, D \subseteq Answer, NEW open \in BOOLEAN
    PROVE  /\ OutcomesShared(RollupDecision(D), open) \in BOOLEAN
           /\ D # {} => (OutcomesShared(RollupDecision(D), open) <=>
                           \A d \in D : OutcomesShared(d, open))
<1>1. Null \notin BOOLEAN
  BY RequestsAssumption DEF RequestsAssumption
<1>2. \A d \in D : d \in {TRUE, FALSE, Null}
  BY DEF Answer
<1> QED
  BY <1>1, <1>2 DEF RollupDecision, OutcomesShared

\* The join of two answers shares just what both do, and an absent view has
\* no say.
LEMMA JoinShares ==
    ASSUME NEW l \in Answer \cup {Absent}, NEW e \in Answer \cup {Absent},
           l # Absent \/ e # Absent, NEW open \in BOOLEAN
    PROVE  OutcomesShared(JoinedDecision(l, e), open) <=>
              /\ l # Absent => OutcomesShared(l, open)
              /\ e # Absent => OutcomesShared(e, open)
<1>1. /\ Null \notin BOOLEAN /\ Absent \notin BOOLEAN /\ Null # Absent
  BY RequestsAssumption DEF RequestsAssumption
<1>2. l \in {TRUE, FALSE, Null, Absent} /\ e \in {TRUE, FALSE, Null, Absent}
  BY DEF Answer
<1>3. CASE l = FALSE \/ e = FALSE
  <2>1. JoinedDecision(l, e) = FALSE
    BY <1>3 DEF JoinedDecision
  <2> QED
    BY <1>1, <1>3, <2>1, Zenon DEF OutcomesShared
<1>4. CASE l # FALSE /\ e # FALSE
  BY <1>1, <1>2, <1>4, Zenon DEF JoinedDecision, OutcomesShared
<1> QED
  BY <1>3, <1>4

\* A rollup over mv_b2b_learner and mv_b2b_learner_enrollment, however far
\* apart they were refreshed, shares a learner's outcomes just when every
\* decision in either view does.
THEOREM RollupIsUnanimous == Spec => []RollupSharesWhenAllDo
<1>1. TypeOK => RollupSharesWhenAllDo
  <2> SUFFICES ASSUME TypeOK, NEW i \in Learners PROVE
        LET answers == {Decision(p) :
                          p \in {q \in Rows : Learner[q] = i /\ table[q].status # Absent}}
                       \cup ({roster[i]} \ {Absent})
        IN answers # {} => (OutcomesShared(RollupOf(i), failOpen) <=>
                               \A d \in answers : OutcomesShared(d, failOpen))
    BY DEF RollupSharesWhenAllDo
  <2> DEFINE rows == {q \in Rows : Learner[q] = i /\ table[q].status # Absent}
             D == {Decision(p) : p \in rows}
             l == roster[i]
             e == IF rows = {} THEN Absent ELSE RollupDecision(D)
  <2>1. D \subseteq Answer
    <3>1. \A p \in rows : <<i, Contract[p]>> \in DOMAIN Decisions
      BY RequestsAssumption DEF RequestsAssumption, Learners
    <3> QED
      BY <3>1 DEF TypeOK, Decision
  <2>2. l \in Answer \cup {Absent} /\ failOpen \in BOOLEAN
    BY DEF TypeOK
  <2>3. RollupOf(i) = JoinedDecision(l, e)
    BY DEF RollupOf
  <2>4. rows = {} <=> D = {}
    OBVIOUS
  <2>5. Absent \notin Answer
    BY RequestsAssumption DEF RequestsAssumption, Answer
  <2>6. e \in Answer \cup {Absent} /\ (e = Absent <=> D = {})
    BY <2>4, <2>5, RollupType
  <2>7. D # {} => (OutcomesShared(e, failOpen) <=> \A d \in D : OutcomesShared(d, failOpen))
    BY <2>1, <2>2, <2>4, RollupShares
  <2> HIDE DEF rows, D, l, e
  <2>8. D \cup ({l} \ {Absent}) # {} =>
           (OutcomesShared(JoinedDecision(l, e), failOpen) <=>
              \A d \in D \cup ({l} \ {Absent}) : OutcomesShared(d, failOpen))
    <3> SUFFICES ASSUME D \cup ({l} \ {Absent}) # {}
                 PROVE  OutcomesShared(JoinedDecision(l, e), failOpen) <=>
                           \A d \in D \cup ({l} \ {Absent}) : OutcomesShared(d, failOpen)
      OBVIOUS
    <3>1. l # Absent \/ e # Absent
      BY <2>6, Zenon
    <3>2. OutcomesShared(JoinedDecision(l, e), failOpen) <=>
             /\ l # Absent => OutcomesShared(l, failOpen)
             /\ e # Absent => OutcomesShared(e, failOpen)
      BY <2>2, <2>6, <3>1, JoinShares
    <3> QED
      BY <2>6, <2>7, <3>2, Zenon
  <2> QED
    BY <2>3, <2>8, Zenon DEF rows, D, l
<1> QED
  BY <1>1, TypeCorrect, PTL

-----------------------------------------------------------------------------
(* Withheld outcomes                                                       *)

\* What two tables with the same public part agree on.
LEMMA PublicAgrees ==
    ASSUME TypeOK, TypeOK', UNCHANGED <<failOpen, decision>>, Public' = Public
    PROVE  \A p \in Rows :
              /\ Shared(p)' = Shared(p)
              /\ (table'[p].status = Absent) = (table[p].status = Absent)
              /\ table'[p].active = table[p].active
              /\ Learner[p] # Null /\ Shared(p) => table'[p] = table[p]
<1> SUFFICES ASSUME NEW p \in Rows
             PROVE  /\ Shared(p)' = Shared(p)
                    /\ (table'[p].status = Absent) = (table[p].status = Absent)
                    /\ table'[p].active = table[p].active
                    /\ Learner[p] # Null /\ Shared(p) => table'[p] = table[p]
  OBVIOUS
<1> DEFINE Erased(x) == [x EXCEPT !.status = IF @ = Absent THEN Absent ELSE Null, !.since = Null]
<1>1. Shared(p)' = Shared(p)
  BY DEF Shared, Decision
<1>2. /\ Public[p] = IF Learner[p] # Null /\ Shared(p) THEN table[p] ELSE Erased(table[p])
      /\ Public'[p] = IF Learner[p] # Null /\ Shared(p)' THEN table'[p] ELSE Erased(table'[p])
  BY DEF Public
<1>3. table[p] \in Row /\ table'[p] \in Row
  BY DEF TypeOK
<1>4. CASE Learner[p] # Null /\ Shared(p)
  BY <1>1, <1>2, <1>4
<1>5. CASE ~(Learner[p] # Null /\ Shared(p))
  <2>1. Erased(table'[p]) = Erased(table[p])
    BY <1>1, <1>2, <1>5
  <2>2. ASSUME NEW x \in Row
        PROVE  /\ Erased(x).status = IF x.status = Absent THEN Absent ELSE Null
               /\ Erased(x).active = x.active
    BY DEF Row
  <2>3. Null # Absent
    BY RequestsAssumption DEF RequestsAssumption
  <2> HIDE DEF Erased
  <2>4. table'[p].active = table[p].active
    BY <1>3, <2>1, <2>2
  <2>5. (table'[p].status = Absent) = (table[p].status = Absent)
    BY <1>3, <2>1, <2>2, <2>3
  <2> QED
    BY <1>1, <1>5, <2>4, <2>5
<1> QED
  BY <1>4, <1>5

\* The statements over enrollments select and show the same.
LEMMA SameStatements ==
    ASSUME TypeOK, TypeOK', UNCHANGED <<failOpen, decision>>, Public' = Public,
           NEW date \in Nat
    PROVE  /\ \A f : Matched(f, date)' = Matched(f, date)
           /\ \A c, b : Records(c, b)' = Records(c, b)
           /\ \A p \in Rows : Learner[p] # Null => Projection(p, date)' = Projection(p, date)
           /\ \A c : Active(c)' = Active(c)
           /\ \A c : Tile(c, date)' = Tile(c, date)
<1>1. \A p \in Rows :
         /\ Shared(p)' = Shared(p)
         /\ (table'[p].status = Absent) = (table[p].status = Absent)
         /\ table'[p].active = table[p].active
         /\ Learner[p] # Null /\ Shared(p) => table'[p] = table[p]
  BY PublicAgrees
<1>2. \A c, b : Records(c, b)' = Records(c, b)
  BY <1>1 DEF Records
<1>3. \A c : Active(c)' = Active(c)
  BY <1>1 DEF Active
<1>4. ASSUME NEW p \in Rows, Learner[p] # Null, Shared(p)
      PROVE  NeedsAttention(p, date)' = NeedsAttention(p, date) /\ table'[p].status = table[p].status
  BY <1>1, <1>4 DEF NeedsAttention
<1>5. ASSUME NEW f, NEW p \in Rows, Learner[p] # Null
      PROVE  Matches(p, f, date)' = Matches(p, f, date)
  <2>1. CASE Shared(p)
    BY <1>1, <1>4, <1>5, <2>1 DEF Matches
  <2>2. CASE ~Shared(p)
    BY <1>1, <1>5, <2>2 DEF Matches
  <2> QED
    BY <2>1, <2>2
<1>6. \A f : Matched(f, date)' = Matched(f, date)
  <2> SUFFICES ASSUME NEW f PROVE Matched(f, date)' = Matched(f, date)
    OBVIOUS
  <2>1. \A p \in Records(f.contract, f.inactive) : p \in Rows /\ Learner[p] # Null
    BY DEF Records
  <2> QED
    BY <1>2, <1>5, <2>1 DEF Matched
<1>7. \A p \in Rows : Learner[p] # Null => Projection(p, date)' = Projection(p, date)
  <2> SUFFICES ASSUME NEW p \in Rows, Learner[p] # Null
               PROVE  Projection(p, date)' = Projection(p, date)
    OBVIOUS
  <2>1. /\ Gate(Shared(p), table[p].status)' = Gate(Shared(p), table[p].status)
        /\ Gate(Shared(p), NeedsAttention(p, date))' = Gate(Shared(p), NeedsAttention(p, date))
    BY <1>1, <1>4 DEF Gate
  <2> QED
    BY <1>1, <2>1 DEF Projection, Decision
<1>8. \A c : Tile(c, date)' = Tile(c, date)
  <2> SUFFICES ASSUME NEW c PROVE Tile(c, date)' = Tile(c, date)
    OBVIOUS
  <2> DEFINE known == {p \in Active(c) : Learner[p] # Null}
             quiet == {p \in known : Shared(p) /\ NeedsAttention(p, date)}
             withheld == {p \in known : ~Shared(p)}
  <2>1. \A p \in known : p \in Rows /\ Learner[p] # Null
    BY DEF Active
  <2>2. quiet' = quiet /\ withheld' = withheld
    BY <1>1, <1>3, <1>4, <2>1
  <2> QED
    BY <1>3, <2>2 DEF Tile, Distinct
<1> QED
  BY <1>2, <1>3, <1>6, <1>7, <1>8

\* A refresh that changes nothing but the outcomes of learners who have not
\* agreed to share them changes no page and no count of any endpoint,
\* whatever the filter, the date and the offset.
THEOREM WithheldStaysInvisible == Spec => WithheldInvisible
<1>1. TypeOK /\ TypeOK' /\ [Next]_vars => [WithheldChange => SameAnswers]_vars
  <2> SUFFICES ASSUME TypeOK, TypeOK', Next, table' # table, Public' = Public,
                      NEW r \in Requests, NEW date \in 0..LastDay, NEW skip \in Offsets
               PROVE  /\ PageOf(r, date, skip)' = PageOf(r, date, skip)
                      /\ CountsOf(r, date)' = CountsOf(r, date)
    BY DEF WithheldChange, SameAnswers
  <2>1. UNCHANGED <<failOpen, decision, panel>>
    <3>1. Refresh
      BY DEF Next, ReadToday, FetchPage, ReadClock, FetchCount, NextPage, StartOver,
             RefreshRoster, RefreshPanel, Midnight, data
    <3> QED
      BY <3>1 DEF Refresh
  <2>2. date \in Nat
    OBVIOUS
  <2>3. \A f : Matched(f, date)' = Matched(f, date)
    BY <2>1, <2>2, SameStatements
  <2>4. \A c, b : Records(c, b)' = Records(c, b)
    BY <2>1, <2>2, SameStatements
  <2>5. \A p \in Rows : Learner[p] # Null => Projection(p, date)' = Projection(p, date)
    BY <2>1, <2>2, SameStatements
  <2>6. \A c : Active(c)' = Active(c) /\ Tile(c, date)' = Tile(c, date)
    BY <2>1, <2>2, SameStatements
  <2>7. \A c, b : \A p \in Records(c, b) : p \in Rows /\ Learner[p] # Null
    BY DEF Records
  <2>8. \A f : \A p \in Matched(f, date) : p \in Rows /\ Learner[p] # Null
    BY <2>7 DEF Matched
  <2>9. \A p \in Rows : Shared(p)' = Shared(p) /\
           (Learner[p] # Null /\ Shared(p) => table'[p] = table[p])
    BY <2>1, PublicAgrees
  <2>10. CASE r.endpoint = "learner-progress"
    <3>1. ProgressPage(r, date, skip)' = ProgressPage(r, date, skip)
      <4> DEFINE rows == Slice(Matched(r.filter, date), r.limit, skip)
      <4>1. rows' = rows /\ rows \subseteq Matched(r.filter, date)
        BY <2>3 DEF Slice
      <4>2. \A p \in rows : Projection(p, date)' = Projection(p, date)
        BY <2>5, <2>8, <4>1
      <4> HIDE DEF rows
      <4>3. {Projection(p, date) : p \in rows}' = {Projection(p, date) : p \in rows}
        BY <4>1, <4>2
      <4> QED
        BY <4>3 DEF ProgressPage, rows
    <3>2. ProgressCount(r, date)' = ProgressCount(r, date)
      <4> DEFINE rows == Matched(r.filter, date)
      <4>1. rows' = rows
        BY <2>3
      <4>2. {p \in rows : ~Shared(p)}' = {p \in rows : ~Shared(p)}
        BY <2>8, <2>9, <4>1
      <4>3. ASSUME NEW s \in Statuses
            PROVE  {p \in rows : Shared(p) /\ table[p].status = s}'
                      = {p \in rows : Shared(p) /\ table[p].status = s}
        BY <2>8, <2>9, <4>1
      <4>4. {p \in rows : Shared(p) /\ NeedsAttention(p, date)}'
               = {p \in rows : Shared(p) /\ NeedsAttention(p, date)}
        BY <2>8, <2>9, <4>1 DEF NeedsAttention
      <4> QED
        BY <4>1, <4>2, <4>3, <4>4 DEF ProgressCount, Count
    <3> QED
      BY <2>10, <3>1, <3>2 DEF PageOf, CountsOf
  <2>11. CASE r.endpoint = "learners"
    <3>1. ListedLearners(r.filter, date)' = ListedLearners(r.filter, date)
      BY <2>3 DEF ListedLearners
    <3>2. \A i : WithEnrollments(i, Records(r.filter.contract, FALSE), date)'
                   = WithEnrollments(i, Records(r.filter.contract, FALSE), date)
      BY <2>4, <2>5, <2>7 DEF WithEnrollments
    <3>3. LearnersPage(r, date, skip)' = LearnersPage(r, date, skip)
      BY <3>1, <3>2 DEF LearnersPage, Slice
    <3>4. {q \in Matched(r.filter, date) : ~Shared(q)}' = {q \in Matched(r.filter, date) : ~Shared(q)}
      BY <2>3, <2>8, <2>9
    <3>5. LearnersCount(r, date)' = LearnersCount(r, date)
      BY <3>1, <3>4 DEF LearnersCount
    <3> QED
      BY <2>11, <3>3, <3>5 DEF PageOf, CountsOf
  <2>12. CASE r.endpoint = "course-runs"
    BY <2>12 DEF PageOf, CountsOf, CourseRuns, Slice
  <2>13. CASE r.endpoint = "needs-attention"
    <3>1. GatedContracts(r.filter)' = GatedContracts(r.filter)
      BY <2>6 DEF GatedContracts, Distinct
    <3>2. TilePage(r, date, skip)' = TilePage(r, date, skip)
      BY <2>6, <3>1 DEF TilePage, Slice, Distinct, Suppress
    <3> QED
      BY <2>13, <3>1, <3>2 DEF PageOf, CountsOf
  <2>14. CASE r.endpoint \in Panels
    <3>1. PanelPage(r, skip)' = PanelPage(r, skip) /\ PanelCount' = PanelCount
      BY <2>1 DEF PanelPage, PanelCount, Visible, Slice, Count
    <3> QED
      BY <2>14, <3>1 DEF PageOf, CountsOf, Panels
  <2> QED
    BY <2>10, <2>11, <2>12, <2>13, <2>14, RequestsAssumption
    DEF RequestsAssumption, Dated
<1> QED
  BY <1>1, TypeCorrect, PTL DEF Spec, WithheldInvisible

-----------------------------------------------------------------------------
(* Pages as slices                                                         *)

\* LIMIT and OFFSET go by the place of a row in the order.
Rank(x, S) == Cardinality({y \in S : y < x})

\* Places are counted from zero.
LEMMA RankType ==
    ASSUME NEW S, S \subseteq Nat, IsFiniteSet(S)
    PROVE  /\ Cardinality(S) \in Nat
           /\ \A x \in S : Rank(x, S) \in Nat /\ Rank(x, S) < Cardinality(S)
<1>1. Cardinality(S) \in Nat
  BY FS_CardinalityType
<1>2. ASSUME NEW x \in S
      PROVE  Rank(x, S) \in Nat /\ Rank(x, S) < Cardinality(S)
  <2> DEFINE T == {y \in S : y < x}
  <2>1. T \in SUBSET S /\ x \notin T
    OBVIOUS
  <2>2. /\ IsFiniteSet(T) /\ Cardinality(T) <= Cardinality(S)
        /\ Cardinality(S) = Cardinality(T) => S = T
    BY <2>1, FS_Subset
  <2>3. Cardinality(T) \in Nat
    BY <2>2, FS_CardinalityType
  <2> QED
    BY <1>1, <2>1, <2>2, <2>3 DEF Rank
<1> QED
  BY <1>1, <1>2

\* When there is a row at place k or later, k rows at least come before it.
LEMMA LowRanks ==
    ASSUME NEW S, S \subseteq Nat, IsFiniteSet(S), NEW k \in Nat,
           \E x \in S : Rank(x, S) >= k
    PROVE  Cardinality({x \in S : Rank(x, S) < k}) >= k
<1> DEFINE High == {x \in S : Rank(x, S) >= k}
           Low == {x \in S : Rank(x, S) < k}
<1>1. High # {} /\ High \subseteq Nat
  OBVIOUS
<1>2. PICK x \in High : \A y \in High : ~(<<y, x>> \in OpToRel(<, Nat))
  BY <1>1, NatLessThanWellFounded, WFMin
<1>3. ASSUME NEW y \in S, y < x PROVE y \in Low
  <2>1. y \in Nat /\ x \in Nat
    OBVIOUS
  <2>2. <<y, x>> \in Nat \X Nat /\ <<y, x>>[1] = y /\ <<y, x>>[2] = x
    BY <2>1
  <2>3. <<y, x>> \in OpToRel(<, Nat)
    BY <1>3, <2>2, Zenon DEF OpToRel
  <2>4. y \notin High
    BY <1>2, <2>3, Zenon
  <2>5. Rank(y, S) \in Nat
    BY RankType
  <2> QED
    BY <2>4, <2>5
<1>4. {y \in S : y < x} \in SUBSET Low
  BY <1>3
<1>5. IsFiniteSet(Low)
  BY FS_Subset
<1>6. Rank(x, S) <= Cardinality(Low)
  BY <1>4, <1>5, FS_Subset DEF Rank
<1>7. Cardinality(Low) \in Nat /\ Rank(x, S) \in Nat /\ Rank(x, S) >= k
  BY <1>5, FS_CardinalityType, RankType
<1> QED
  BY <1>6, <1>7

\* A page has the rows at the places from its offset on.
LEMMA SliceIs ==
    ASSUME NEW S, S \subseteq Nat, IsFiniteSet(S), NEW limit \in Nat, NEW skip \in Nat
    PROVE  \A x : x \in Slice(S, limit, skip)
                     <=> x \in S /\ skip <= Rank(x, S) /\ Rank(x, S) < skip + limit
<1>1. \A x : x \in Slice(S, limit, skip) <=> x \in S /\ Rank(x, S) \in skip..(skip + limit - 1)
  BY Zenon DEF Slice, Rank
<1>2. \A x \in S : Rank(x, S) \in Nat
  BY RankType
<1>3. \A n \in Nat : n \in skip..(skip + limit - 1) <=> skip <= n /\ n < skip + limit
  OBVIOUS
<1> QED
  BY <1>1, <1>2, <1>3

\* A first page that is not full holds everything.
LEMMA FirstPageFull ==
    ASSUME NEW S, S \subseteq Nat, IsFiniteSet(S), NEW limit \in Nat,
           Cardinality(Slice(S, limit, 0)) < limit
    PROVE  Slice(S, limit, 0) = S
<1>0. \A x \in S : Rank(x, S) \in Nat
  BY RankType
<1>1. Slice(S, limit, 0) = {x \in S : Rank(x, S) < limit}
  <2>1. \A x : x \in Slice(S, limit, 0) <=> x \in S /\ 0 <= Rank(x, S) /\ Rank(x, S) < 0 + limit
    BY SliceIs
  <2>2. \A x \in S : 0 <= Rank(x, S) /\ (Rank(x, S) < 0 + limit <=> Rank(x, S) < limit)
    BY <1>0
  <2>3. \A x : x \in Slice(S, limit, 0) <=> x \in S /\ Rank(x, S) < limit
    BY <2>1, <2>2, Zenon
  <2> QED
    BY <2>3, Zenon
<1>2. IsFiniteSet(Slice(S, limit, 0))
  BY FS_Subset DEF Slice
<1>3. Cardinality(Slice(S, limit, 0)) \in Nat
  BY <1>2, FS_CardinalityType
<1>4. ASSUME \E x \in S : Rank(x, S) >= limit PROVE FALSE
  <2>1. Cardinality({x \in S : Rank(x, S) < limit}) >= limit
    BY <1>4, LowRanks
  <2> QED
    BY <1>1, <1>3, <2>1
<1>5. \A x \in S : Rank(x, S) < limit
  BY <1>0, <1>4
<1> QED
  BY <1>1, <1>5

\* A limit as large as the set holds everything too.
LEMMA LimitCovers ==
    ASSUME NEW S, S \subseteq Nat, IsFiniteSet(S), NEW limit \in Nat, Cardinality(S) <= limit
    PROVE  Slice(S, limit, 0) = S
<1>1. /\ Cardinality(S) \in Nat
      /\ \A x \in S : Rank(x, S) \in Nat /\ Rank(x, S) < Cardinality(S)
  BY RankType
<1>2. \A x \in S : 0 <= Rank(x, S) /\ Rank(x, S) < 0 + limit
  BY <1>1
<1>3. \A x : x \in Slice(S, limit, 0) <=> x \in S /\ 0 <= Rank(x, S) /\ Rank(x, S) < 0 + limit
  BY SliceIs
<1>4. \A x : x \in Slice(S, limit, 0) <=> x \in S
  BY <1>2, <1>3, Zenon
<1> QED
  BY <1>4, Zenon

\* A page from which the total says there is no more is the last one.
LEMMA LastPage ==
    ASSUME NEW S, S \subseteq Nat, IsFiniteSet(S), NEW limit \in Nat, NEW skip \in Nat,
           skip + Cardinality(Slice(S, limit, skip)) >= Cardinality(S)
    PROVE  \A x \in S : Rank(x, S) < skip + limit
<1> SUFFICES ASSUME NEW x \in S, ~(Rank(x, S) < skip + limit) PROVE FALSE
  OBVIOUS
<1> DEFINE Low == {y \in S : Rank(y, S) < skip}
           Page == Slice(S, limit, skip)
<1>1. \A y \in S : Rank(y, S) \in Nat
  BY RankType
<1>2. Page = {y \in S : skip <= Rank(y, S) /\ Rank(y, S) < skip + limit}
  BY SliceIs
<1>3. Low \in SUBSET (S \ {x}) /\ Page \in SUBSET (S \ {x}) /\ Low \cap Page = {}
  <2>1. Rank(x, S) \in Nat
    BY <1>1
  <2>2. x \notin Low /\ x \notin Page
    BY <1>2, <2>1
  <2>3. ASSUME NEW y \in Low \cap Page PROVE FALSE
    <3>1. y \in S /\ Rank(y, S) < skip /\ skip <= Rank(y, S)
      BY <1>2, <2>3
    <3> QED
      BY <1>1, <3>1
  <2> QED
    BY <1>2, <2>2, <2>3
<1>4. IsFiniteSet(S \ {x}) /\ Cardinality(S \ {x}) = Cardinality(S) - 1
  BY FS_RemoveElement
<1>5. IsFiniteSet(Low) /\ IsFiniteSet(Page)
  BY <1>3, <1>4, FS_Subset
<1>6. Cardinality(Low) \in Nat /\ Cardinality(Page) \in Nat /\ Cardinality(S) \in Nat
  BY <1>5, FS_CardinalityType
<1>7. Cardinality(Low \cup Page) = Cardinality(Low) + Cardinality(Page)
  <2>1. Cardinality(Low \cup Page)
           = Cardinality(Low) + Cardinality(Page) - Cardinality(Low \cap Page)
    BY <1>5, FS_Union
  <2>2. Cardinality(Low \cap Page) = 0
    BY <1>3, FS_EmptySet
  <2> QED
    BY <1>6, <2>1, <2>2
<1>8. Cardinality(Low \cup Page) <= Cardinality(S \ {x})
  BY <1>3, <1>4, FS_Subset
<1>9. Cardinality(Low) >= skip
  <2>1. Rank(x, S) >= skip
    BY <1>1
  <2> QED
    BY <2>1, LowRanks
<1> QED
  BY <1>4, <1>6, <1>7, <1>8, <1>9

\* What a one-to-one function makes of a finite set has its size.
LEMMA OneToOne ==
    ASSUME NEW S, IsFiniteSet(S), NEW f, \A x, y \in S : f[x] = f[y] => x = y
    PROVE  /\ IsFiniteSet({f[x] : x \in S})
           /\ Cardinality({f[x] : x \in S}) = Cardinality(S)
<1> DEFINE g == [x \in S |-> f[x]]
           T == {f[x] : x \in S}
<1>1. g \in Surjection(S, T)
  BY DEF Surjection
<1>2. g \in Injection(S, T)
  BY DEF Injection, IsInjective
<1> QED
  BY <1>1, <1>2, FS_Surjection

\* An image of some rows is no larger than the view.
LEMMA ImageOfRows ==
    ASSUME NEW T \in SUBSET Rows, NEW f
    PROVE  /\ IsFiniteSet({f[p] : p \in T}) /\ IsFiniteSet(T)
           /\ Cardinality({f[p] : p \in T}) <= Cardinality(Rows)
           /\ Cardinality(T) <= Cardinality(Rows)
<1> DEFINE g == [p \in T |-> f[p]]
           S == {f[p] : p \in T}
<1>1. IsFiniteSet(T) /\ Cardinality(T) <= Cardinality(Rows) /\ IsFiniteSet(Rows)
  BY FS_Subset, RequestsAssumption DEF RequestsAssumption
<1>2. g \in Surjection(T, S)
  BY DEF Surjection
<1>3. IsFiniteSet(S) /\ Cardinality(S) <= Cardinality(T)
  BY <1>1, <1>2, FS_Surjection
<1>4. Cardinality(S) \in Nat /\ Cardinality(T) \in Nat /\ Cardinality(Rows) \in Nat
  BY <1>1, <1>3, FS_CardinalityType
<1> QED
  BY <1>1, <1>3, <1>4

-----------------------------------------------------------------------------
(* What the endpoints list                                                 *)

Listing == Dated \cup {"course-runs"}

\* The keys that a request's page is a slice of ...
Selected(r, date) ==
    CASE r.endpoint = "learner-progress" -> Matched(r.filter, date)
      [] r.endpoint = "learners" -> ListedLearners(r.filter, date)
      [] r.endpoint = "course-runs" -> CourseRuns(r.filter.contract)
      [] OTHER -> GatedContracts(r.filter)

\* ... and what it shows of each.
Entry(r, date, x) ==
    CASE r.endpoint = "learner-progress" -> Projection(x, date)
      [] r.endpoint = "learners" -> WithEnrollments(x, Records(r.filter.contract, FALSE), date)
      [] r.endpoint = "course-runs" -> x
      [] OTHER -> Suppress(Tile(x, date))

\* The keys are finitely many numbers, no more than there are rows.
LEMMA SelectedType ==
    ASSUME NEW r, NEW date, r.endpoint \in Listing
    PROVE  /\ Selected(r, date) \subseteq Nat /\ IsFiniteSet(Selected(r, date))
           /\ Cardinality(Selected(r, date)) <= Cardinality(Rows)
<1>1. \A p \in Rows : Learner[p] \in Nat \cup {Null} /\ Contract[p] \in Nat /\ Run[p] \in Nat
  BY RequestsAssumption DEF RequestsAssumption
<1>2. Matched(r.filter, date) \in SUBSET Rows
  BY DEF Matched, Records
<1>3. CASE r.endpoint = "learner-progress"
  <2>1. Rows \subseteq Nat
    BY RequestsAssumption DEF RequestsAssumption
  <2> QED
    BY <1>2, <1>3, <2>1, ImageOfRows DEF Selected
<1>4. CASE r.endpoint = "learners"
  <2>1. \A p \in Matched(r.filter, date) : Learner[p] # Null
    BY DEF Matched, Records
  <2>2. ListedLearners(r.filter, date) \subseteq Nat
    BY <1>1, <1>2, <2>1 DEF ListedLearners
  <2>3. /\ IsFiniteSet({Learner[p] : p \in Matched(r.filter, date)})
        /\ Cardinality({Learner[p] : p \in Matched(r.filter, date)}) <= Cardinality(Rows)
    BY <1>2, ImageOfRows
  <2>4. Selected(r, date) = {Learner[p] : p \in Matched(r.filter, date)}
    BY <1>4 DEF Selected, ListedLearners
  <2> QED
    BY <2>2, <2>3, <2>4 DEF ListedLearners
<1>5. CASE r.endpoint = "course-runs"
  <2> DEFINE T == {q \in Rows : Contract[q] = r.filter.contract}
  <2>1. Selected(r, date) = {Run[p] : p \in T} /\ T \in SUBSET Rows
    BY <1>5 DEF Selected, CourseRuns
  <2> HIDE DEF T
  <2>2. IsFiniteSet({Run[p] : p \in T}) /\ Cardinality({Run[p] : p \in T}) <= Cardinality(Rows)
    BY <2>1, ImageOfRows
  <2> QED
    BY <1>1, <2>1, <2>2
<1>6. CASE r.endpoint = "needs-attention"
  <2>1. Selected(r, date) \in SUBSET Contracts
    BY <1>6 DEF Selected, GatedContracts
  <2>2. IsFiniteSet(Contracts) /\ Cardinality(Contracts) <= Cardinality(Rows)
    BY ImageOfRows DEF Contracts
  <2>3. IsFiniteSet(Selected(r, date)) /\ Cardinality(Selected(r, date)) <= Cardinality(Contracts)
    BY <2>1, <2>2, FS_Subset
  <2>4. /\ Cardinality(Selected(r, date)) \in Nat /\ Cardinality(Contracts) \in Nat
        /\ Cardinality(Rows) \in Nat
    BY <2>2, <2>3, FS_CardinalityType, RequestsAssumption DEF RequestsAssumption
  <2>5. Contracts \subseteq Nat
    BY <1>1 DEF Contracts
  <2>6. Selected(r, date) \subseteq Nat
    BY <2>1, <2>5
  <2>7. Cardinality(Selected(r, date)) <= Cardinality(Rows)
    BY <2>2, <2>3, <2>4
  <2> QED
    BY <2>3, <2>6, <2>7
<1> QED
  BY <1>3, <1>4, <1>5, <1>6 DEF Listing, Dated

\* COUNT(DISTINCT ...) is a number.
LEMMA DistinctType ==
    ASSUME NEW c
    PROVE  Distinct(Active(c)) \in Nat
<1>1. Active(c) \in SUBSET Rows
  BY DEF Active
<1>2. IsFiniteSet({Learner[p] : p \in Active(c)})
  BY <1>1, ImageOfRows
<1>3. IsFiniteSet({Learner[p] : p \in Active(c)} \ {Null})
  BY <1>2, FS_RemoveElement
<1> QED
  BY <1>3, FS_CardinalityType DEF Distinct

\* A page is its slice of the keys: the page's own floor removes nothing that
\* the HAVING clause has left.
LEMMA PageIs ==
    ASSUME NEW r, NEW date, NEW skip, r.endpoint \in Listing
    PROVE  PageOf(r, date, skip) =
              {Entry(r, date, x) : x \in Slice(Selected(r, date), r.limit, skip)}
<1>1. CASE r.endpoint = "learner-progress"
  BY <1>1 DEF PageOf, Entry, Selected, ProgressPage
<1>2. CASE r.endpoint = "learners"
  BY <1>2 DEF PageOf, Entry, Selected, LearnersPage
<1>3. CASE r.endpoint = "course-runs"
  BY <1>3 DEF PageOf, Entry, Selected
<1>4. CASE r.endpoint = "needs-attention"
  <2> DEFINE P == Slice(GatedContracts(r.filter), r.limit, skip)
  <2>1. ASSUME NEW k \in P PROVE ~BelowFloor(Distinct(Active(k)))
    <3>1. Distinct(Active(k)) >= Floor
      BY DEF Slice, GatedContracts
    <3>2. Distinct(Active(k)) \in Nat /\ Floor \in Nat /\ Null \notin Nat
      BY DistinctType, RequestsAssumption DEF RequestsAssumption
    <3> QED
      BY <3>1, <3>2 DEF BelowFloor
  <2>2. {k \in P : ~BelowFloor(Distinct(Active(k)))} = P
    BY <2>1
  <2>3. PageOf(r, date, skip) = {Suppress(Tile(c, date)) : c \in P}
    BY <1>4, <2>2, Zenon DEF PageOf, TilePage
  <2> QED
    BY <1>4, <2>3 DEF Entry, Selected
<1> QED
  BY <1>1, <1>2, <1>3, <1>4 DEF Listing, Dated

\* An entry carries its key.
LEMMA EntryKey ==
    ASSUME NEW r, NEW date, NEW x, r.endpoint = req.endpoint, r.endpoint \in Listing
    PROVE  Key(Entry(r, date, x)) = x
<1>1. CASE r.endpoint = "learner-progress"
  BY <1>1 DEF Key, Entry, Projection
<1>2. CASE r.endpoint = "learners"
  BY <1>2 DEF Key, Entry, WithEnrollments
<1>3. CASE r.endpoint = "course-runs"
  BY <1>3 DEF Key, Entry
<1>4. CASE r.endpoint = "needs-attention"
  <2>1. Suppress(Tile(x, date)).contract = x
    BY DEF Suppress, Tile
  <2> QED
    BY <1>4, <2>1 DEF Key, Entry
<1> QED
  BY <1>1, <1>2, <1>3, <1>4 DEF Listing, Dated

\* So a page has as many entries as its slice has keys, and these keys.
LEMMA PageKeys ==
    ASSUME NEW r, NEW date, NEW skip, r.endpoint = req.endpoint, r.endpoint \in Listing
    PROVE  /\ {Key(e) : e \in PageOf(r, date, skip)} = Slice(Selected(r, date), r.limit, skip)
           /\ Cardinality(PageOf(r, date, skip))
                 = Cardinality(Slice(Selected(r, date), r.limit, skip))
<1> DEFINE S == Slice(Selected(r, date), r.limit, skip)
           f == [x \in S |-> Entry(r, date, x)]
<1>1. PageOf(r, date, skip) = {f[x] : x \in S}
  BY PageIs
<1>2. \A x \in S : Key(f[x]) = x
  BY EntryKey
<1>3. IsFiniteSet(S)
  BY SelectedType, FS_Subset DEF Slice
<1> HIDE DEF f, S
<1>4. \A x, y \in S : f[x] = f[y] => x = y
  BY <1>2, Zenon
<1>5. Cardinality({f[x] : x \in S}) = Cardinality(S)
  BY <1>3, <1>4, OneToOne
<1>6. {Key(e) : e \in {f[x] : x \in S}} = S
  BY <1>2
<1> QED
  BY <1>1, <1>5, <1>6 DEF S

-----------------------------------------------------------------------------
(* A walk                                                                  *)

\* The date makes no difference to what is listed, or has not changed.
Steady == req.endpoint \in Dated /\ req.filter.needs # Null => day = 0

\* The place up to which the walk has read.
Through == IF pc = "answered" THEN offset + req.limit ELSE offset

SeenRight == {Key(e) : e \in seen} = {x \in Selected(req, 0) : Rank(x, Selected(req, 0)) < Through}

\* As long as the data stays, the page and the counts of a request are those
\* of the date it resolved, and the walk has read the entries before its
\* offset.
WalkInv ==
    /\ TypeOK
    /\ pc = "clock" => req.endpoint = "admin"
    /\ pc \in {"count", "answered"} /\ ~moved /\ req.endpoint \notin Panels =>
          page = PageOf(req, today, offset)
    /\ pc = "answered" /\ ~moved => counts = CountsOf(req, today)
    /\ ~moved /\ req.endpoint \notin Panels /\ Steady => SeenRight

\* What a request lists is not a panel, and the other way round.
LEMMA ReqType ==
    ASSUME TypeOK
    PROVE  /\ req.limit \in Nat /\ req.limit > 0
           /\ req.endpoint \in Panels <=> req.endpoint \notin Listing
           /\ req \in [endpoint : Listing \cup Panels, filter : Filters, limit : Nat \ {0}]
           /\ req.endpoint = "learners" => ~req.filter.inactive
<1>1. /\ req \in [endpoint : Dated \cup Panels \cup {"course-runs"}, filter : Filters,
                   limit : Nat \ {0}]
      /\ req.endpoint = "learners" => ~req.filter.inactive
  BY RequestsAssumption DEF RequestsAssumption, TypeOK
<1> QED
  BY <1>1 DEF Listing, Panels, Dated

\* Without a filter on needs_attention the date plays no part in the listing.
LEMMA SteadyListing ==
    ASSUME TypeOK, Steady, req.endpoint \in Listing
    PROVE  Selected(req, today) = Selected(req, 0)
<1>1. CASE day = 0
  <2>1. today = 0
    BY <1>1 DEF TypeOK
  <2> QED
    BY <2>1
<1>2. CASE req.filter.needs = Null
  <2>1. Matched(req.filter, today) = Matched(req.filter, 0)
    BY <1>2 DEF Matched, Matches
  <2> QED
    BY <2>1 DEF Selected, ListedLearners
<1>3. CASE req.endpoint \notin Dated
  <2>1. req.endpoint = "course-runs"
    BY <1>3 DEF Listing
  <2> QED
    BY <2>1 DEF Selected
<1> QED
  BY <1>1, <1>2, <1>3 DEF Steady

\* The statements depend on the views alone.
LEMMA ListingStays ==
    ASSUME UNCHANGED <<failOpen, table, decision, req>>
    PROVE  Selected(req, 0)' = Selected(req, 0)
<1>1. Matched(req.filter, 0)' = Matched(req.filter, 0)
  BY DEF Matched, Matches, Records, Shared, Decision, NeedsAttention
<1>2. GatedContracts(req.filter)' = GatedContracts(req.filter)
  BY DEF GatedContracts, Active, Distinct
<1>3. CourseRuns(req.filter.contract)' = CourseRuns(req.filter.contract)
  BY DEF CourseRuns
<1> QED
  BY <1>1, <1>2, <1>3 DEF Selected, ListedLearners

LEMMA AnswersStay ==
    ASSUME UNCHANGED <<failOpen, table, decision, panel, req, today, offset>>
    PROVE  /\ PageOf(req, today, offset)' = PageOf(req, today, offset)
           /\ CountsOf(req, today)' = CountsOf(req, today)
<1>1. Matched(req.filter, today)' = Matched(req.filter, today)
  BY DEF Matched, Matches, Records, Shared, Decision, NeedsAttention
<1>2. ProgressPage(req, today, offset)' = ProgressPage(req, today, offset)
  BY <1>1 DEF ProgressPage, Projection, Slice, Shared, Decision, NeedsAttention
<1>3. ProgressCount(req, today)' = ProgressCount(req, today)
  BY <1>1 DEF ProgressCount, Count, Shared, Decision, NeedsAttention
<1>4. LearnersPage(req, today, offset)' = LearnersPage(req, today, offset)
  BY <1>1 DEF LearnersPage, ListedLearners, WithEnrollments, Records, Projection, Slice, Shared,
              Decision, NeedsAttention
<1>5. LearnersCount(req, today)' = LearnersCount(req, today)
  BY <1>1 DEF LearnersCount, ListedLearners, Shared, Decision
<1>6. GatedContracts(req.filter)' = GatedContracts(req.filter)
  BY DEF GatedContracts, Active, Distinct
<1>7. TilePage(req, today, offset)' = TilePage(req, today, offset)
  BY <1>6 DEF TilePage, Tile, Suppress, Active, Distinct, Slice, Shared, Decision, NeedsAttention
<1>8. CourseRuns(req.filter.contract)' = CourseRuns(req.filter.contract)
  BY DEF CourseRuns
<1>9. PanelPage(req, offset)' = PanelPage(req, offset) /\ PanelCount' = PanelCount
  BY DEF PanelPage, PanelCount, Visible, Slice, Count
<1> QED
  BY <1>1, <1>2, <1>3, <1>4, <1>5, <1>6, <1>7, <1>8, <1>9 DEF PageOf, CountsOf, Slice

\* A step that reads nothing and refreshes nothing keeps what was seen.
LEMMA SeenStays ==
    ASSUME UNCHANGED <<failOpen, table, decision, req, seen>>, Through' = Through, SeenRight
    PROVE  SeenRight'
<1>1. Selected(req, 0)' = Selected(req, 0)
  BY ListingStays
<1>2. {Key(e) : e \in seen}' = {Key(e) : e \in seen}
  BY DEF Key
<1> QED
  BY <1>1, <1>2 DEF SeenRight

\* Reading a page extends what was seen by just that page.
LEMMA PageExtends ==
    ASSUME WalkInv, FetchCount, ~moved, req.endpoint \in Listing, Steady
    PROVE  SeenRight'
<1> DEFINE K == Selected(req, 0)
<1>1. /\ pc = "count" /\ pc' = "answered" /\ seen' = seen \cup page
      /\ UNCHANGED <<failOpen, table, decision, req, offset>>
  BY DEF FetchCount, data
<1>2. req.endpoint \notin Panels /\ req.limit \in Nat /\ offset \in Nat
  BY ReqType DEF WalkInv, TypeOK
<1>3. K \subseteq Nat /\ IsFiniteSet(K)
  BY SelectedType
<1>4. {Key(e) : e \in page} = Slice(K, req.limit, offset)
  <2>1. page = PageOf(req, today, offset)
    BY <1>1, <1>2 DEF WalkInv
  <2>2. Selected(req, today) = K
    BY SteadyListing DEF WalkInv
  <2> QED
    BY <2>1, <2>2, PageKeys
<1>5. {Key(e) : e \in seen} = {x \in K : Rank(x, K) < offset}
  BY <1>1, <1>2 DEF WalkInv, SeenRight, Through
<1>6. K' = K
  BY <1>1, ListingStays
<1>7. {Key(e) : e \in seen}' = {Key(e) : e \in seen} \cup {Key(e) : e \in page}
  BY <1>1 DEF Key
<1>8. Through' = offset + req.limit
  BY <1>1 DEF Through
<1> HIDE DEF K
<1>9. \A x \in K : Rank(x, K) \in Nat
  BY <1>3, RankType
<1>10. \A x : x \in Slice(K, req.limit, offset)
                 <=> x \in K /\ offset <= Rank(x, K) /\ Rank(x, K) < offset + req.limit
  BY <1>2, <1>3, SliceIs
<1>11. \A x : x \in {Key(e) : e \in seen}' <=> x \in K /\ Rank(x, K) < offset + req.limit
  <2> SUFFICES ASSUME NEW x
               PROVE  x \in {y \in K : Rank(y, K) < offset} \cup Slice(K, req.limit, offset)
                         <=> x \in K /\ Rank(x, K) < offset + req.limit
    BY <1>4, <1>5, <1>7, Zenon
  <2> QED
    BY <1>2, <1>9, <1>10
<1>12. {Key(e) : e \in seen}' = {x \in K : Rank(x, K) < offset + req.limit}
  BY <1>11, Zenon
<1> QED
  BY <1>6, <1>8, <1>12 DEF SeenRight, K

\* Nothing comes before the first place.
LEMMA NoneBefore ==
    ASSUME req.endpoint \in Listing
    PROVE  {x \in Selected(req, 0) : Rank(x, Selected(req, 0)) < 0} = {}
<1>1. Selected(req, 0) \subseteq Nat /\ IsFiniteSet(Selected(req, 0))
  BY SelectedType
<1>2. \A x \in Selected(req, 0) : Rank(x, Selected(req, 0)) \in Nat
  BY <1>1, RankType
<1> QED
  BY <1>2

\* The invariant holds at the start and after every step.
THEOREM WalkInvHolds == Spec => []WalkInv
<1>1. Init => WalkInv
  <2> SUFFICES ASSUME Init PROVE WalkInv
    OBVIOUS
  <2>1. TypeOK
    BY InitTypeOK
  <2>2. ASSUME req.endpoint \notin Panels PROVE SeenRight
    <3>1. req.endpoint \in Listing /\ Through = 0 /\ seen = {}
      BY <2>1, <2>2, ReqType DEF Init, Through
    <3> QED
      BY <3>1, NoneBefore DEF SeenRight
  <2> QED
    BY <2>1, <2>2 DEF Init, WalkInv
<1>2. WalkInv /\ TypeOK' /\ [Next]_vars => WalkInv'
  <2> SUFFICES ASSUME WalkInv, TypeOK', [Next]_vars PROVE WalkInv'
    OBVIOUS
  <2>0. /\ TypeOK
        /\ req.endpoint \in Panels <=> req.endpoint \notin Listing
    BY ReqType DEF WalkInv
  <2>1. ASSUME UNCHANGED <<failOpen, table, decision, req, seen, moved>>, Through' = Through,
               Steady' => Steady
        PROVE  ~moved' /\ req'.endpoint \notin Panels /\ Steady' => SeenRight'
    BY <2>1, SeenStays DEF WalkInv
  <2>2. CASE ReadToday
    <3>1. pc = "today" /\ pc' = "page" /\ UNCHANGED <<failOpen, table, decision, req, seen, moved, offset, day>>
      BY <2>2 DEF ReadToday, data
    <3>2. Through' = Through /\ (Steady' => Steady)
      BY <3>1 DEF Through, Steady
    <3> QED
      BY <2>1, <3>1, <3>2 DEF WalkInv
  <2>3. CASE FetchPage
    <3>1. /\ pc \in {"page", "today"} /\ pc' = IF req.endpoint = "admin" THEN "clock" ELSE "count"
          /\ page' = PageOf(req, today, offset)
          /\ UNCHANGED <<failOpen, table, decision, panel, req, seen, moved, offset, day, today>>
      BY <2>3 DEF FetchPage, data
    <3>2. Through' = Through /\ (Steady' => Steady)
      BY <3>1 DEF Through, Steady
    <3>3. page' = PageOf(req, today, offset)'
      BY <3>1, AnswersStay
    <3> QED
      BY <2>1, <3>1, <3>2, <3>3 DEF WalkInv
  <2>4. CASE ReadClock
    <3>1. /\ pc = "clock" /\ pc' = "count"
          /\ UNCHANGED <<failOpen, table, decision, req, seen, moved, offset, day>>
      BY <2>4 DEF ReadClock, data
    <3>2. Through' = Through /\ (Steady' => Steady)
      BY <3>1 DEF Through, Steady
    <3>3. req'.endpoint \in Panels
      BY <3>1 DEF WalkInv, Panels
    <3> QED
      BY <2>1, <3>1, <3>2, <3>3 DEF WalkInv
  <2>5. CASE FetchCount
    <3>1. /\ pc = "count" /\ pc' = "answered" /\ counts' = CountsOf(req, today)
          /\ UNCHANGED <<failOpen, table, decision, panel, req, moved, offset, day, today, page>>
      BY <2>5 DEF FetchCount, data
    <3>2. /\ PageOf(req, today, offset)' = PageOf(req, today, offset)
          /\ counts' = CountsOf(req, today)'
      BY <3>1, AnswersStay
    <3>3. ~moved' /\ req'.endpoint \notin Panels /\ Steady' => SeenRight'
      BY <2>0, <2>5, <3>1, PageExtends DEF Steady
    <3> QED
      BY <3>1, <3>2, <3>3 DEF WalkInv
  <2>6. CASE NextPage
    <3>1. /\ pc = "answered" /\ pc' = "today" /\ offset' = offset + req.limit
          /\ UNCHANGED <<failOpen, table, decision, req, seen, moved, day>>
      BY <2>6 DEF NextPage, data
    <3>2. Through' = Through /\ (Steady' => Steady)
      BY <3>1 DEF Through, Steady
    <3> QED
      BY <2>1, <3>1, <3>2 DEF WalkInv
  <2>7. CASE StartOver
    <3>1. /\ pc' = "today" /\ offset' = 0 /\ seen' = {}
          /\ UNCHANGED <<failOpen, table, decision, req>>
      BY <2>7 DEF StartOver, data
    <3>2. ASSUME req.endpoint \in Listing PROVE SeenRight'
      <4>1. Selected(req, 0)' = Selected(req, 0)
        BY <3>1, ListingStays
      <4>2. {x \in Selected(req, 0) : Rank(x, Selected(req, 0)) < 0} = {}
        BY <3>2, NoneBefore
      <4>3. Through' = 0
        BY <3>1 DEF Through
      <4> QED
        BY <3>1, <4>1, <4>2, <4>3 DEF SeenRight
    <3> QED
      BY <2>0, <3>1, <3>2 DEF WalkInv
  <2>8. CASE Refresh \/ RefreshPanel
    <3>1. moved' = TRUE /\ UNCHANGED <<pc, req>>
      BY <2>8 DEF Refresh, RefreshPanel
    <3> QED
      BY <3>1 DEF WalkInv
  <2>9. CASE RefreshRoster \/ Midnight \/ UNCHANGED vars
    <3>1. /\ UNCHANGED <<failOpen, table, decision, panel, req, pc, today, offset, page, counts, seen,
                         moved>>
          /\ day' = day \/ (day < LastDay /\ day' = day + 1)
      BY <2>9 DEF RefreshRoster, Midnight, vars, data
    <3>2. Through' = Through
      BY <3>1 DEF Through
    <3>3. Steady' => Steady
      BY <2>0, <3>1 DEF Steady, TypeOK
    <3>4. /\ PageOf(req, today, offset)' = PageOf(req, today, offset)
          /\ CountsOf(req, today)' = CountsOf(req, today)
      BY <3>1, AnswersStay
    <3> QED
      BY <2>1, <3>1, <3>2, <3>3, <3>4 DEF WalkInv
  <2> QED
    BY <2>2, <2>3, <2>4, <2>5, <2>6, <2>7, <2>8, <2>9 DEF Next
<1> QED
  BY <1>1, <1>2, TypeCorrect, PTL DEF Spec

\* total_count is the number of the keys, on every page.
LEMMA TotalIs ==
    ASSUME NEW r, NEW date, r.endpoint \in Listing
    PROVE  CountsOf(r, date).total = Cardinality(Selected(r, date))
<1>1. CASE r.endpoint = "learner-progress"
  BY <1>1 DEF CountsOf, Selected, ProgressCount
<1>2. CASE r.endpoint = "learners"
  BY <1>2 DEF CountsOf, Selected, LearnersCount
<1>3. CASE r.endpoint = "course-runs"
  BY <1>3 DEF CountsOf, Selected
<1>4. CASE r.endpoint = "needs-attention"
  BY <1>4 DEF CountsOf, Selected
<1> QED
  BY <1>1, <1>2, <1>3, <1>4 DEF Listing, Dated

\* A panel's total is the number of its visible rows, though its pages drop
\* the others after the LIMIT.
LEMMA PanelTotal ==
    ASSUME TypeOK, NEW r, NEW date, r.endpoint \in Panels, r.limit \in Nat,
           Cardinality(PanelRows) <= r.limit
    PROVE  CountsOf(r, date).total = Cardinality(PageOf(r, date, 0))
<1> DEFINE S == {y \in PanelRows : Visible(y)}
           f == [x \in S |-> [row |-> x, since |-> panel[x].since, health |-> panel[x].health]]
<1>1. PanelRows \subseteq Nat /\ IsFiniteSet(PanelRows)
  BY RequestsAssumption DEF RequestsAssumption
<1>2. Slice(PanelRows, r.limit, 0) = PanelRows
  BY <1>1, LimitCovers
<1>3. PageOf(r, date, 0) = {f[x] : x \in S}
  <2>1. PageOf(r, date, 0) = PanelPage(r, 0)
    BY DEF PageOf, Panels
  <2> QED
    BY <1>2, <2>1 DEF PanelPage
<1>4. \A x, y \in S : f[x] = f[y] => x = y
  <2>1. \A x \in S : f[x].row = x
    OBVIOUS
  <2> HIDE DEF f, S
  <2> QED
    BY <2>1, Zenon
<1>5. IsFiniteSet(S)
  BY <1>1, FS_Subset
<1>6. S = {x \in PanelRows : panel[x].cohort >= Floor}
  <2>1. \A x \in PanelRows : panel[x].cohort \in Nat
    BY DEF TypeOK, PanelRow
  <2>2. Floor \in Nat /\ Null \notin Nat
    BY RequestsAssumption DEF RequestsAssumption
  <2>3. \A x \in PanelRows : Visible(x) <=> panel[x].cohort >= Floor
    BY <2>1, <2>2 DEF Visible, BelowFloor
  <2> QED
    BY <2>3
<1>7. CountsOf(r, date).total = Cardinality(S)
  BY <1>6 DEF CountsOf, PanelCount, Count, Panels
<1> HIDE DEF f, S
<1> QED
  BY <1>3, <1>4, <1>5, <1>7, OneToOne

\* A client that reads on while total_count says there is more has read every
\* entry when it stops; for a panel the total is the number of visible rows.
THEOREM WalksAreComplete == Spec => []WalkComplete
<1>1. WalkInv => WalkComplete
  <2> SUFFICES ASSUME WalkInv, Answered, ~More, Steady
               PROVE  IF req.endpoint \in Panels THEN counts.total = Cardinality(Whole)
                      ELSE {Key(e) : e \in seen} = {Key(e) : e \in Whole}
    BY DEF WalkComplete, Steady
  <2> DEFINE N == Cardinality(Rows) + Cardinality(PanelRows)
             all == [req EXCEPT !.limit = N]
  <2>1. /\ TypeOK /\ pc = "answered" /\ ~moved
        /\ counts = CountsOf(req, today)
    BY DEF WalkInv, Answered
  <2>2. Cardinality(Rows) \in Nat /\ Cardinality(PanelRows) \in Nat
    BY FS_CardinalityType, RequestsAssumption DEF RequestsAssumption
  <2>3. all.endpoint = req.endpoint /\ all.filter = req.filter /\ all.limit = N /\ N \in Nat
    BY <2>1, <2>2, ReqType
  <2>4. Whole = PageOf(all, today, 0)
    BY DEF Whole
  <2> HIDE DEF all
  <2>5. CASE req.endpoint \in Panels
    <3>1. CountsOf(all, today).total = Cardinality(Whole)
      BY <2>1, <2>2, <2>3, <2>4, <2>5, PanelTotal
    <3>2. CountsOf(all, today) = CountsOf(req, today)
      BY <2>3, <2>5 DEF CountsOf, Panels
    <3> QED
      BY <2>1, <2>5, <3>1, <3>2
  <2>6. CASE req.endpoint \notin Panels
    <3> DEFINE K == Selected(req, 0)
    <3>1. req.endpoint \in Listing /\ req.limit \in Nat /\ offset \in Nat
      BY <2>1, <2>6, ReqType DEF TypeOK
    <3>2. K \subseteq Nat /\ IsFiniteSet(K) /\ Cardinality(K) <= Cardinality(Rows)
      BY <3>1, SelectedType
    <3>3. Selected(req, today) = K /\ Selected(all, today) = K
      <4>1. Selected(req, today) = K
        BY <2>1, <3>1, SteadyListing
      <4>2. Selected(all, today) = Selected(req, today)
        BY <2>3 DEF Selected
      <4> QED
        BY <4>1, <4>2
    <3>4. {Key(e) : e \in Whole} = K
      <4>1. {Key(e) : e \in Whole} = Slice(K, N, 0)
        BY <2>3, <2>4, <3>1, <3>3, PageKeys
      <4>2. Cardinality(K) <= N
        BY <2>2, <3>2, FS_CardinalityType
      <4> HIDE DEF N
      <4> QED
        BY <2>3, <3>2, <4>1, <4>2, LimitCovers
    <3>5. Cardinality(page) = Cardinality(Slice(K, req.limit, offset))
      <4>1. page = PageOf(req, today, offset)
        BY <2>1, <2>6 DEF WalkInv
      <4> QED
        BY <3>1, <3>3, <4>1, PageKeys
    <3>6. counts.total = Cardinality(K)
      BY <2>1, <3>1, <3>3, TotalIs
    <3>7. {Key(e) : e \in seen} = {x \in K : Rank(x, K) < offset + req.limit}
      BY <2>1, <2>6 DEF WalkInv, SeenRight, Through
    <3> HIDE DEF K
    <3>8. offset + Cardinality(Slice(K, req.limit, offset)) >= Cardinality(K)
      <4>1. IsFiniteSet(Slice(K, req.limit, offset))
        BY <3>2, FS_Subset DEF Slice
      <4>2. Cardinality(Slice(K, req.limit, offset)) \in Nat /\ Cardinality(K) \in Nat
        BY <3>2, <4>1, FS_CardinalityType
      <4> QED
        BY <3>1, <3>5, <3>6, <4>2 DEF More
    <3>9. \A x \in K : Rank(x, K) < offset + req.limit
      BY <3>1, <3>2, <3>8, LastPage
    <3> QED
      BY <2>6, <3>4, <3>7, <3>9
  <2> QED
    BY <2>5, <2>6
<1> QED
  BY <1>1, WalkInvHolds, PTL

-----------------------------------------------------------------------------
(* A page and its counts                                                   *)

\* Distinct rows have distinct projections.
LEMMA ProjectedSize ==
    ASSUME NEW T \in SUBSET Rows, NEW date
    PROVE  Cardinality({Projection(p, date) : p \in T}) = Cardinality(T)
<1> DEFINE f == [p \in T |-> Projection(p, date)]
<1>1. \A p \in T : f[p].row = p
  BY DEF Projection
<1>2. {f[p] : p \in T} = {Projection(p, date) : p \in T}
  OBVIOUS
<1>3. IsFiniteSet(T)
  BY FS_Subset, RequestsAssumption DEF RequestsAssumption
<1> HIDE DEF f
<1>4. \A p, q \in T : f[p] = f[q] => p = q
  BY <1>1, Zenon
<1>5. Cardinality({f[p] : p \in T}) = Cardinality(T)
  BY <1>3, <1>4, OneToOne
<1> QED
  BY <1>2, <1>5

\* A row's projection shows its outcomes just when they are shared.
LEMMA ProjectionShows ==
    ASSUME TypeOK, NEW p \in Rows, table[p].status # Absent, NEW date
    PROVE  /\ Projection(p, date).status = Null <=> ~Shared(p)
           /\ \A s \in Statuses :
                 Projection(p, date).status = s <=> Shared(p) /\ table[p].status = s
           /\ Projection(p, date).needs = TRUE <=> Shared(p) /\ NeedsAttention(p, date)
           /\ Projection(p, date).shared = Shared(p)
<1>1. table[p].status \in Statuses /\ Null \notin Statuses /\ Null # TRUE
  BY RequestsAssumption DEF RequestsAssumption, TypeOK, Row
<1>2. /\ Projection(p, date).status = IF Shared(p) THEN table[p].status ELSE Null
      /\ Projection(p, date).needs = IF Shared(p) THEN NeedsAttention(p, date) ELSE Null
      /\ Projection(p, date).shared = Shared(p)
  BY DEF Projection, Gate
<1>3. NeedsAttention(p, date) \in BOOLEAN
  BY DEF NeedsAttention
<1> QED
  BY <1>1, <1>2, <1>3, Zenon

\* learner_progress: the counts of a page that holds everything are the
\* counts of its rows.
LEMMA ProgressAgrees ==
    ASSUME TypeOK, req.endpoint = "learner-progress", Cardinality(page) < req.limit,
           page = PageOf(req, today, 0), counts = CountsOf(req, today)
    PROVE  /\ counts.total = Cardinality(page)
           /\ counts.withheld = Count(page, LAMBDA e : e.status = Null)
           /\ counts.needs = Count(page, LAMBDA e : e.needs = TRUE)
           /\ \A s \in Statuses : counts.status[s] = Count(page, LAMBDA e : e.status = s)
<1> DEFINE M == Matched(req.filter, today)
           Shown(p) == Projection(p, today)
<1>1. req.endpoint \in Listing /\ req.limit \in Nat /\ Selected(req, today) = M
  BY ReqType DEF Listing, Dated, Selected
<1>2. M \subseteq Nat /\ IsFiniteSet(M)
  BY <1>1, SelectedType
<1>3. M \in SUBSET Rows /\ \A p \in M : table[p].status # Absent
  BY DEF Matched, Records
<1>4. Slice(M, req.limit, 0) = M
  <2>1. Cardinality(page) = Cardinality(Slice(M, req.limit, 0))
    BY <1>1, PageKeys
  <2> HIDE DEF M
  <2> QED
    BY <1>1, <1>2, <2>1, FirstPageFull
<1>5. page = {Shown(p) : p \in M}
  BY <1>1, <1>4 DEF PageOf, ProgressPage
<1>6. /\ counts.total = Cardinality(M)
      /\ counts.withheld = Cardinality({p \in M : ~Shared(p)})
      /\ counts.needs = Cardinality({p \in M : Shared(p) /\ NeedsAttention(p, today)})
      /\ \A s \in Statuses :
            counts.status[s] = Cardinality({p \in M : Shared(p) /\ table[p].status = s})
  BY DEF CountsOf, ProgressCount, Count
<1> HIDE DEF M
<1>7. ASSUME NEW p \in M
      PROVE  /\ Shown(p).status = Null <=> ~Shared(p)
             /\ \A s \in Statuses : Shown(p).status = s <=> Shared(p) /\ table[p].status = s
             /\ Shown(p).needs = TRUE <=> Shared(p) /\ NeedsAttention(p, today)
  BY <1>3, ProjectionShows
<1> HIDE DEF Shown
<1>8. ASSUME NEW T \in SUBSET M
      PROVE  Cardinality({Shown(p) : p \in T}) = Cardinality(T)
  BY <1>3, ProjectedSize DEF Shown
<1>9. counts.total = Cardinality(page)
  BY <1>5, <1>6, <1>8
<1>10. counts.withheld = Count(page, LAMBDA e : e.status = Null)
  <2>1. {e \in page : e.status = Null} = {Shown(p) : p \in {q \in M : ~Shared(q)}}
    BY <1>5, <1>7
  <2> QED
    BY <1>6, <1>8, <2>1 DEF Count
<1>11. counts.needs = Count(page, LAMBDA e : e.needs = TRUE)
  <2>1. {e \in page : e.needs = TRUE}
           = {Shown(p) : p \in {q \in M : Shared(q) /\ NeedsAttention(q, today)}}
    BY <1>5, <1>7
  <2> QED
    BY <1>6, <1>8, <2>1 DEF Count
<1>12. ASSUME NEW s \in Statuses
       PROVE  counts.status[s] = Count(page, LAMBDA e : e.status = s)
  <2>1. {e \in page : e.status = s}
           = {Shown(p) : p \in {q \in M : Shared(q) /\ table[q].status = s}}
    BY <1>5, <1>7
  <2> QED
    BY <1>6, <1>8, <2>1 DEF Count
<1> QED
  BY <1>9, <1>10, <1>11, <1>12

\* learners: so are those of a page of learners, whose enrollments in a
\* contract are all under one decision.
LEMMA LearnersAgree ==
    ASSUME TypeOK, req.endpoint = "learners", Cardinality(page) < req.limit,
           page = PageOf(req, today, 0), counts = CountsOf(req, today)
    PROVE  /\ counts.total = Cardinality(page)
           /\ counts.withheld = Count(page, LAMBDA e : \A x \in e.enrollments : ~x.shared)
<1> DEFINE M == Matched(req.filter, today)
           L == ListedLearners(req.filter, today)
           R == Records(req.filter.contract, FALSE)
           Shown(i) == WithEnrollments(i, R, today)
           W == {Learner[p] : p \in {q \in M : ~Shared(q)}}
<1>1. /\ req.endpoint \in Listing /\ req.limit \in Nat /\ Selected(req, today) = L
      /\ ~req.filter.inactive
  BY ReqType DEF Listing, Dated, Selected
<1>2. L \subseteq Nat /\ IsFiniteSet(L)
  BY <1>1, SelectedType
<1>3. L = {Learner[p] : p \in M} /\ W \in SUBSET L
  BY DEF ListedLearners
<1>4. Slice(L, req.limit, 0) = L
  <2>1. Cardinality(page) = Cardinality(Slice(L, req.limit, 0))
    BY <1>1, PageKeys
  <2> HIDE DEF L
  <2> QED
    BY <1>1, <1>2, <2>1, FirstPageFull
<1>5. page = {Shown(i) : i \in L}
  BY <1>1, <1>4 DEF PageOf, LearnersPage
<1>6. counts.total = Cardinality(L) /\ counts.withheld = Cardinality(W)
  BY DEF CountsOf, LearnersCount
<1>7. ASSUME NEW T \in SUBSET L
      PROVE  Cardinality({Shown(i) : i \in T}) = Cardinality(T)
  <2>1. IsFiniteSet(T)
    BY <1>2, FS_Subset
  <2> DEFINE f == [i \in T |-> Shown(i)]
  <2>2. \A i \in T : f[i].learner = i
    BY DEF WithEnrollments
  <2>3. {f[i] : i \in T} = {Shown(i) : i \in T}
    OBVIOUS
  <2> HIDE DEF f
  <2>4. \A i, j \in T : f[i] = f[j] => i = j
    BY <2>2, Zenon
  <2>5. Cardinality({f[i] : i \in T}) = Cardinality(T)
    BY <2>1, <2>4, OneToOne
  <2> QED
    BY <2>3, <2>5
<1>8. ASSUME NEW i \in L
      PROVE  (\A x \in Shown(i).enrollments : ~x.shared) <=> i \in W
  <2>1. \A p \in R : p \in Rows /\ Contract[p] = req.filter.contract /\ table[p].status # Absent
    BY DEF Records
  <2>2. M \subseteq R
    BY <1>1 DEF Matched, Records
  <2>3. PICK p \in M : Learner[p] = i
    BY <1>3
  <2>4. \A q \in R : Learner[q] = i => Shared(q) = Shared(p)
    BY <2>1, <2>2, <2>3 DEF Shared, Decision
  <2>5. Shown(i).enrollments = {Projection(q, today) : q \in {r \in R : Learner[r] = i}}
    BY DEF WithEnrollments
  <2>6. \A q \in R : Projection(q, today).shared = Shared(q)
    BY DEF Projection
  <2>7. (\A x \in Shown(i).enrollments : ~x.shared) <=> ~Shared(p)
    <3>1. (\A x \in Shown(i).enrollments : ~x.shared)
             <=> \A q \in {r \in R : Learner[r] = i} : ~Projection(q, today).shared
      BY <2>5
    <3> HIDE DEF Shown, R, M
    <3>2. p \in {r \in R : Learner[r] = i}
      BY <2>2, <2>3
    <3> QED
      BY <2>4, <2>6, <3>1, <3>2
  <2>8. i \in W <=> ~Shared(p)
    <3>1. \A q \in M : Learner[q] = i => Shared(q) = Shared(p)
      BY <2>2, <2>4
    <3> QED
      BY <2>3, <3>1
  <2> QED
    BY <2>7, <2>8
<1> HIDE DEF Shown, L, W
<1>9. {e \in page : \A x \in e.enrollments : ~x.shared} = {Shown(i) : i \in W}
  BY <1>3, <1>5, <1>8
<1>10. counts.total = Cardinality(page)
  BY <1>5, <1>6, <1>7
<1>11. counts.withheld = Count(page, LAMBDA e : \A x \in e.enrollments : ~x.shared)
  BY <1>3, <1>6, <1>7, <1>9 DEF Count
<1> QED
  BY <1>10, <1>11

\* A page and the counts beside it describe the same rows on the same date,
\* though midnight may fall between the two statements.
THEOREM CountsAgree == Spec => []CountsAgreeWithRows
<1>1. WalkInv => CountsAgreeWithRows
  <2> SUFFICES ASSUME WalkInv, Answered, offset = 0, Cardinality(page) < req.limit
               PROVE  CASE req.endpoint = "learner-progress" ->
                             /\ counts.total = Cardinality(page)
                             /\ counts.withheld = Count(page, LAMBDA e : e.status = Null)
                             /\ counts.needs = Count(page, LAMBDA e : e.needs = TRUE)
                             /\ \A s \in Statuses :
                                   counts.status[s] = Count(page, LAMBDA e : e.status = s)
                        [] req.endpoint = "learners" ->
                             /\ counts.total = Cardinality(page)
                             /\ counts.withheld =
                                   Count(page, LAMBDA e : \A x \in e.enrollments : ~x.shared)
                        [] OTHER -> TRUE
    BY DEF CountsAgreeWithRows
  <2>1. TypeOK /\ counts = CountsOf(req, today)
    BY DEF WalkInv, Answered
  <2>2. ASSUME req.endpoint \in {"learner-progress", "learners"}
        PROVE  page = PageOf(req, today, 0)
    BY <2>2 DEF WalkInv, Answered, Panels
  <2>3. CASE req.endpoint = "learner-progress"
    BY <2>1, <2>2, <2>3, ProgressAgrees
  <2>4. CASE req.endpoint = "learners"
    BY <2>1, <2>2, <2>4, LearnersAgree
  <2> QED
    BY <2>3, <2>4
<1> QED
  BY <1>1, WalkInvHolds, PTL
=============================================================================
