------------------------ MODULE AsOfFreshnessProofs ------------------------
(***************************************************************************)
(* Proofs about AsOfFreshness, for any number of requests, views and       *)
(* refreshes, any cache TTL and any query timeout.  IndInv is inductive.   *)
(* Its parts: a query in flight has its view's lock and finds nothing in   *)
(* the cache (QueryHasLock); no cached, answered or reported time is ahead *)
(* of its view (NothingAhead); what is behind is behind by no more than    *)
(* its own age plus one query (BehindBriefly).                             *)
(***************************************************************************)
EXTENDS AsOfFreshness, WellFoundedInduction, NaturalsInduction, TLAPS

QueryHasLock ==
    /\ \A r \in Requests : pc[r] \in {"get", "wait"} \cup Querying => cur[r] \in Views
    /\ \A r \in Requests : pc[r] \in Querying => lock[cur[r]] = r /\ ~Live(cur[r])

NothingAhead ==
    /\ \A v \in Views : entry[v] # None => entry[v].val <= refreshed[v]
    /\ \A r \in Requests : pc[r] = "answer" => asked[r] <= refreshed[cur[r]]
    /\ \A r \in Requests, v \in Views : label[r][v] # None => label[r][v] <= refreshed[v]

\* A record response is built after every source has its as_of.
RowsAfterLabels ==
    \A r \in Requests : ~panel[r] =>
        /\ pc[r] \in {"rows", "done"} => Unread(r) = {}
        /\ pc[r] = "done" => \A v \in sources[r] :
                               snap[r][v] \in Stamps /\ label[r][v] <= snap[r][v]

BehindBriefly ==
    /\ \A v \in Views : Live(v) /\ entry[v].val # refreshed[v] =>
          lag[v] + entry[v].left <= MaxQuery + TTL
    /\ \A r \in Requests : pc[r] = "answer" /\ asked[r] # refreshed[cur[r]] =>
          lag[cur[r]] + patience[r] <= MaxQuery

IndInv ==
    /\ TypeOK
    /\ QueryHasLock
    /\ NothingAhead
    /\ RowsAfterLabels
    /\ BehindBriefly
-----------------------------------------------------------------------------
(* Minimum and maximum                                                     *)

\* A set of naturals that is not empty has a least member.
LEMMA MinExists ==
    ASSUME NEW S, S \subseteq Nat, S # {}
    PROVE  Min(S) \in S /\ \A y \in S : Min(S) <= y
  <1>1. PICK x \in S : \A y \in S : ~(<<y, x>> \in OpToRel(<, Nat))
    BY NatLessThanWellFounded, WFMin
  <1>2. \A y \in S : x =< y
    <2> SUFFICES ASSUME NEW y \in S, ~(x =< y) PROVE FALSE
      OBVIOUS
    <2>1. y < x /\ <<y, x>> \in Nat \X Nat
      OBVIOUS
    <2>2. <<y, x>>[1] = y /\ <<y, x>>[2] = x
      OBVIOUS
    <2>3. <<y, x>> \in OpToRel(<, Nat)
      BY <2>1, <2>2, Zenon DEF OpToRel
    <2>. QED
      BY <1>1, <2>3, Zenon
  <1>. QED
    BY <1>2 DEF Min

\* A set of naturals below a bound that is not empty has a greatest member.
LEMMA MaxExists ==
    ASSUME NEW N \in Nat, NEW S, S \subseteq 0..N, S # {}
    PROVE  Max(S) \in S /\ \A y \in S : Max(S) >= y
  <1> DEFINE T == {N - x : x \in S}
  <1>1. T \subseteq Nat /\ T # {}
    <2>1. T \subseteq Nat
      OBVIOUS
    <2>2. PICK x : x \in S
      OBVIOUS
    <2>3. N - x \in T
      BY <2>2
    <2>. QED
      BY <2>1, <2>3
  <1>2. Min(T) \in T /\ \A y \in T : Min(T) <= y
    BY <1>1, MinExists
  <1>3. PICK x \in S : Min(T) = N - x
    BY <1>2
  <1>4. \A y \in S : N - y \in T
    OBVIOUS
  <1>5. \A y \in S : N - x <= N - y
    BY <1>2, <1>3, <1>4
  <1>6. \A y \in S : x >= y
    BY <1>5
  <1>. QED
    BY <1>6 DEF Max

\* Time since a refresh, capped.
LEMMA MinOfTwo ==
    ASSUME NEW a \in Nat, NEW b \in Nat
    PROVE  Min({a, b}) = IF a <= b THEN a ELSE b
  <1>1. Min({a, b}) \in {a, b} /\ \A y \in {a, b} : Min({a, b}) <= y
    BY MinExists
  <1>. QED
    BY <1>1


-----------------------------------------------------------------------------
(* The steps                                                               *)

PCs == {"idle", "asof", "get", "wait", "rows"} \cup Querying \cup Ended

\* None is no refresh time.
LEMMA NoneIsNoStamp == None \notin Stamps
  BY FreshnessAssumption DEF Stamps

\* latest_refresh_timestamp() returns: the last source to be labelled sends
\* a record list on to its rows.
LEMMA LabelledKeeps ==
    ASSUME TypeOK, RowsAfterLabels,
           \A s \in Requests, v \in Views : label[s][v] # None => label[s][v] <= refreshed[v],
           NEW r \in Requests, NEW v \in Views, NEW value \in Stamps,
           value <= refreshed[v], Labelled(r, v, value),
           UNCHANGED <<refreshed, sources, panel, snap>>
    PROVE  /\ \E w \in {"asof", "rows", "done"} : pc' = [pc EXCEPT ![r] = w]
           /\ cur' = [cur EXCEPT ![r] = None]
           /\ label' \in [Requests -> [Views -> Stamps \cup {None}]]
           /\ pc' \in [Requests -> PCs]
           /\ RowsAfterLabels'
           /\ \A s \in Requests, u \in Views :
                 label'[s][u] # None => label'[s][u] <= refreshed'[u]
  <1>1. /\ label' = [label EXCEPT ![r][v] = value]
        /\ cur' = [cur EXCEPT ![r] = None]
        /\ pc' = [pc EXCEPT ![r] = IF Unread(r) # {v} THEN "asof"
                                  ELSE IF panel[r] THEN "done" ELSE "rows"]
    BY DEF Labelled, Goto
  <1>2. PICK w \in {"asof", "rows", "done"} :
           /\ pc' = [pc EXCEPT ![r] = w]
           /\ ~panel[r] => w # "done"
           /\ ~panel[r] /\ w = "rows" => Unread(r) = {v}
    BY <1>1
  <1>3. /\ label' \in [Requests -> [Views -> Stamps \cup {None}]]
        /\ label'[r][v] = value
        /\ \A s \in Requests, u \in Views : s # r \/ u # v => label'[s][u] = label[s][u]
    BY <1>1 DEF TypeOK
  <1>4. pc' \in [Requests -> PCs]
    BY <1>2 DEF TypeOK, PCs, Ended
  <1>5. ASSUME NEW s \in Requests, ~panel'[s]
        PROVE  /\ pc'[s] \in {"rows", "done"} => Unread(s)' = {}
               /\ pc'[s] = "done" => \A u \in sources'[s] :
                     snap'[s][u] \in Stamps /\ label'[s][u] <= snap'[s][u]
    <2>1. CASE s = r
      <3>1. pc'[s] = w /\ w # "done"
        BY <1>2, <1>5, <2>1 DEF TypeOK
      <3>2. w = "rows" => Unread(s)' = {}
        <4> SUFFICES ASSUME w = "rows", NEW u \in sources[r], label'[r][u] = None PROVE FALSE
          BY <2>1 DEF Unread
        <4>1. Unread(r) = {v} /\ u \in Views
          BY <1>2, <1>5, <2>1 DEF TypeOK
        <4>2. u # v
          BY <1>3, NoneIsNoStamp
        <4>. QED
          BY <1>3, <4>1, <4>2 DEF Unread
      <3>. QED
        BY <3>1, <3>2
    <2>2. CASE s # r
      <3>1. pc'[s] = pc[s] /\ \A u \in Views : label'[s][u] = label[s][u]
        BY <1>2, <1>3, <2>2 DEF TypeOK
      <3>2. sources[s] \subseteq Views
        BY DEF TypeOK
      <3>. QED
        BY <1>5, <3>1, <3>2 DEF RowsAfterLabels, Unread
    <2>. QED
      BY <2>1, <2>2
  <1>6. ASSUME NEW s \in Requests, NEW u \in Views, label'[s][u] # None
        PROVE  label'[s][u] <= refreshed'[u]
    BY <1>3, <1>6
  <1>7. RowsAfterLabels'
    BY <1>5 DEF RowsAfterLabels
  <1>. QED
    BY <1>1, <1>2, <1>3, <1>4, <1>6, <1>7

\* Begin, FetchRows and Check touch no lock, no entry and no label but the
\* blank one of a new request.
LEMMA EndpointInv ==
    ASSUME IndInv, NEW r \in Requests,
           \/ \E S \in SUBSET Views \ {{}}, isPanel \in BOOLEAN : Begin(r, S, isPanel)
           \/ FetchRows(r)
           \/ \E v \in Views : Check(r, v)
    PROVE  IndInv'
  <1>0. TypeOK /\ QueryHasLock /\ NothingAhead /\ RowsAfterLabels /\ BehindBriefly
    BY DEF IndInv
  <1>1. ASSUME NEW S \in SUBSET Views \ {{}}, NEW isPanel \in BOOLEAN, Begin(r, S, isPanel)
        PROVE  IndInv'
    <2>1. /\ sources' = [sources EXCEPT ![r] = S] /\ panel' = [panel EXCEPT ![r] = isPanel]
          /\ label' = [label EXCEPT ![r] = Blank] /\ snap' = [snap EXCEPT ![r] = Blank]
          /\ UNCHANGED <<refreshed, lag, entry, lock, cur, asked, patience>>
      BY <1>1 DEF Begin
    <2>2. PICK w \in {"rows", "asof"} : pc' = [pc EXCEPT ![r] = w] /\ (~isPanel => w = "asof")
      BY <1>1 DEF Begin, Goto
    <2>3. TypeOK'
      BY <1>0, <2>1, <2>2 DEF TypeOK, Blank
    <2>4. QueryHasLock' /\ BehindBriefly'
      BY <1>0, <2>1, <2>2 DEF QueryHasLock, BehindBriefly, Live, Querying, TypeOK
    <2>5. NothingAhead'
      BY <1>0, <2>1, <2>2 DEF NothingAhead, Blank, TypeOK
    <2>6. RowsAfterLabels'
      <3>1. ASSUME NEW s \in Requests, ~panel'[s], pc'[s] \in {"rows", "done"} PROVE s # r
        BY <1>0, <2>1, <2>2, <3>1 DEF TypeOK
      <3>2. ASSUME NEW s \in Requests, s # r
            PROVE  /\ panel'[s] = panel[s] /\ pc'[s] = pc[s] /\ label'[s] = label[s]
                   /\ snap'[s] = snap[s] /\ sources'[s] = sources[s]
        BY <1>0, <2>1, <2>2, <3>2 DEF TypeOK
      <3>. QED
        BY <1>0, <3>1, <3>2 DEF RowsAfterLabels, Unread
    <2>. QED
      BY <2>3, <2>4, <2>5, <2>6 DEF IndInv
  <1>2. CASE FetchRows(r)
    <2>1. /\ pc[r] = "rows"
          /\ snap' = [snap EXCEPT ![r] =
                [v \in Views |-> IF v \in sources[r] THEN refreshed[v] ELSE None]]
          /\ UNCHANGED <<refreshed, lag, entry, lock, sources, panel, cur, asked, patience, label>>
      BY <1>2 DEF FetchRows
    <2>2. PICK w \in {"asof", "done"} : pc' = [pc EXCEPT ![r] = w]
      BY <1>2 DEF FetchRows, Goto
    <2>3. TypeOK'
      BY <1>0, <2>1, <2>2 DEF TypeOK, Ended
    <2>4. QueryHasLock' /\ BehindBriefly'
      BY <1>0, <2>1, <2>2 DEF QueryHasLock, BehindBriefly, Live, Querying, TypeOK
    <2>5. NothingAhead'
      BY <1>0, <2>1, <2>2 DEF NothingAhead, TypeOK
    <2>6. RowsAfterLabels'
      <3>1. ASSUME ~panel[r]
            PROVE  /\ Unread(r) = {}
                   /\ \A v \in sources[r] :
                         snap'[r][v] \in Stamps /\ label[r][v] <= snap'[r][v]
        <4>1. Unread(r) = {}
          BY <1>0, <2>1, <3>1 DEF RowsAfterLabels
        <4>2. ASSUME NEW v \in sources[r]
              PROVE  snap'[r][v] \in Stamps /\ label[r][v] <= snap'[r][v]
          <5>1. v \in Views /\ label[r][v] # None
            BY <1>0, <4>1 DEF TypeOK, Unread
          <5>2. snap'[r][v] = refreshed[v]
            BY <1>0, <2>1, <5>1 DEF TypeOK
          <5>. QED
            BY <1>0, <5>1, <5>2 DEF NothingAhead, TypeOK
        <4>. QED
          BY <4>1, <4>2
      <3>2. ASSUME NEW s \in Requests, s # r
            PROVE  pc'[s] = pc[s] /\ snap'[s] = snap[s]
        BY <1>0, <2>1, <2>2, <3>2 DEF TypeOK
      <3>. QED
        BY <1>0, <2>1, <3>1, <3>2 DEF RowsAfterLabels, Unread
    <2>. QED
      BY <2>3, <2>4, <2>5, <2>6 DEF IndInv
  <1>3. ASSUME NEW v \in Views, Check(r, v) PROVE IndInv'
    <2>1. /\ cur' = [cur EXCEPT ![r] = v]
          /\ UNCHANGED <<refreshed, lag, entry, lock, sources, panel, asked, patience, label, snap>>
      BY <1>3 DEF Check
    <2>2. PICK w \in {"get", "wait"} : pc' = [pc EXCEPT ![r] = w]
      BY <1>3 DEF Check, Goto
    <2>3. TypeOK'
      BY <1>0, <2>1, <2>2 DEF TypeOK
    <2>4. QueryHasLock' /\ BehindBriefly'
      BY <1>0, <2>1, <2>2 DEF QueryHasLock, BehindBriefly, Live, Querying, TypeOK
    <2>5. NothingAhead' /\ RowsAfterLabels'
      BY <1>0, <2>1, <2>2 DEF NothingAhead, RowsAfterLabels, Unread, TypeOK
    <2>. QED
      BY <2>3, <2>4, <2>5 DEF IndInv
  <1>. QED
    BY <1>1, <1>2, <1>3

\* Two queries in flight are about two views.
LEMMA QueriesApart ==
    ASSUME QueryHasLock, NEW r \in Requests, NEW s \in Requests, s # r,
           pc[r] \in Querying, pc[s] \in Querying
    PROVE  cur[s] # cur[r]
  BY DEF QueryHasLock

\* The steps of latest_refresh_timestamp() after the first cache test.
LEMMA LookupInv ==
    ASSUME IndInv, NEW r \in Requests,
           Get(r) \/ Enter(r) \/ Answer(r) \/ Store(r) \/ Fails(r)
    PROVE  IndInv'
  <1>0. TypeOK /\ QueryHasLock /\ NothingAhead /\ RowsAfterLabels /\ BehindBriefly
    BY DEF IndInv
  <1>1. CASE Get(r)
    <2>1. /\ pc[r] = "get" /\ cur[r] \in Views
          /\ UNCHANGED <<refreshed, lag, entry, lock, sources, panel, asked, patience, snap>>
      BY <1>0, <1>1 DEF Get, QueryHasLock
    <2>2. CASE Live(cur[r]) /\ Labelled(r, cur[r], entry[cur[r]].val)
      <3>1. entry[cur[r]].val \in Stamps /\ entry[cur[r]].val <= refreshed[cur[r]]
        BY <1>0, <2>1, <2>2 DEF Live, TypeOK, NothingAhead
      <3>2. /\ \E w \in {"asof", "rows", "done"} : pc' = [pc EXCEPT ![r] = w]
            /\ cur' = [cur EXCEPT ![r] = None]
            /\ label' \in [Requests -> [Views -> Stamps \cup {None}]]
            /\ pc' \in [Requests -> PCs]
            /\ RowsAfterLabels'
            /\ \A s \in Requests, u \in Views :
                  label'[s][u] # None => label'[s][u] <= refreshed'[u]
        BY <1>0, <2>1, <2>2, <3>1, LabelledKeeps DEF NothingAhead
      <3>3. TypeOK'
        BY <1>0, <2>1, <3>2 DEF TypeOK, PCs
      <3>4. QueryHasLock' /\ BehindBriefly'
        BY <1>0, <2>1, <3>2 DEF QueryHasLock, BehindBriefly, Live, Querying, TypeOK
      <3>5. NothingAhead'
        BY <1>0, <2>1, <3>2 DEF NothingAhead, TypeOK
      <3>. QED
        BY <3>2, <3>3, <3>4, <3>5 DEF IndInv
    <2>3. CASE Goto(r, "keyerror") /\ cur' = [cur EXCEPT ![r] = None] /\ UNCHANGED label
      <3>1. pc' = [pc EXCEPT ![r] = "keyerror"]
        BY <2>3 DEF Goto
      <3>2. TypeOK'
        BY <1>0, <2>1, <2>3, <3>1 DEF TypeOK, Ended
      <3>3. QueryHasLock' /\ BehindBriefly'
        BY <1>0, <2>1, <2>3, <3>1 DEF QueryHasLock, BehindBriefly, Live, Querying, TypeOK
      <3>4. NothingAhead' /\ RowsAfterLabels'
        BY <1>0, <2>1, <2>3, <3>1 DEF NothingAhead, RowsAfterLabels, Unread, TypeOK
      <3>. QED
        BY <3>2, <3>3, <3>4 DEF IndInv
    <2>. QED
      BY <1>1, <2>2, <2>3 DEF Get
  <1>2. CASE Enter(r)
    <2>1. /\ pc[r] = "wait" /\ cur[r] \in Views /\ lock[cur[r]] = None
          /\ UNCHANGED <<refreshed, lag, entry, sources, panel, cur, asked, label, snap>>
      BY <1>0, <1>2 DEF Enter, QueryHasLock
    <2>2. CASE Goto(r, "get") /\ UNCHANGED <<lock, patience>>
      <3>1. pc' = [pc EXCEPT ![r] = "get"]
        BY <2>2 DEF Goto
      <3>2. TypeOK'
        BY <1>0, <2>1, <2>2, <3>1 DEF TypeOK
      <3>3. QueryHasLock' /\ BehindBriefly'
        BY <1>0, <2>1, <2>2, <3>1 DEF QueryHasLock, BehindBriefly, Live, Querying, TypeOK
      <3>4. NothingAhead' /\ RowsAfterLabels'
        BY <1>0, <2>1, <2>2, <3>1 DEF NothingAhead, RowsAfterLabels, Unread, TypeOK
      <3>. QED
        BY <3>2, <3>3, <3>4 DEF IndInv
    <2>3. CASE /\ ~Live(cur[r]) /\ Goto(r, "query")
               /\ lock' = [lock EXCEPT ![cur[r]] = r]
               /\ patience' = [patience EXCEPT ![r] = MaxQuery]
      <3>1. pc' = [pc EXCEPT ![r] = "query"]
        BY <2>3 DEF Goto
      <3>2. TypeOK'
        BY <1>0, <2>1, <2>3, <3>1, FreshnessAssumption DEF TypeOK, Querying
      <3>3. QueryHasLock'
        <4>1. \A v \in Views : Live(v)' <=> Live(v)
          BY <2>1 DEF Live
        <4>2. ASSUME NEW s \in Requests, pc'[s] \in Querying
              PROVE  lock'[cur'[s]] = s /\ ~Live(cur[s])
          <5>1. CASE s = r
            BY <1>0, <2>1, <2>3, <5>1 DEF TypeOK
          <5>2. CASE s # r
            <6>1. pc[s] \in Querying /\ cur[s] \in Views /\ lock[cur[s]] = s /\ ~Live(cur[s])
              BY <1>0, <3>1, <4>2, <5>2 DEF TypeOK, QueryHasLock
            <6>2. cur[s] # cur[r]
              BY <2>1, <6>1, FreshnessAssumption
            <6>. QED
              BY <1>0, <2>1, <2>3, <6>1, <6>2 DEF TypeOK
          <5>. QED
            BY <5>1, <5>2
        <4>3. \A s \in Requests : pc'[s] \in {"get", "wait"} \cup Querying => cur'[s] \in Views
          BY <1>0, <2>1, <3>1 DEF QueryHasLock, TypeOK
        <4>. QED
          BY <2>1, <4>1, <4>2, <4>3 DEF QueryHasLock
      <3>4. BehindBriefly'
        BY <1>0, <2>1, <2>3, <3>1 DEF BehindBriefly, Live, TypeOK
      <3>5. NothingAhead' /\ RowsAfterLabels'
        BY <1>0, <2>1, <2>3, <3>1 DEF NothingAhead, RowsAfterLabels, Unread, TypeOK
      <3>. QED
        BY <3>2, <3>3, <3>4, <3>5 DEF IndInv
    <2>. QED
      BY <1>2, <2>2, <2>3 DEF Enter
  <1>3. CASE Answer(r)
    <2>1. /\ pc[r] = "query" /\ pc' = [pc EXCEPT ![r] = "answer"]
          /\ asked' = [asked EXCEPT ![r] = refreshed[cur[r]]]
          /\ UNCHANGED <<refreshed, lag, entry, lock, sources, panel, cur, patience, label, snap>>
      BY <1>3 DEF Answer, Goto
    <2>2. cur[r] \in Views /\ refreshed[cur[r]] \in Stamps
      BY <1>0, <2>1 DEF QueryHasLock, Querying, TypeOK
    <2>3. TypeOK'
      BY <1>0, <2>1, <2>2 DEF TypeOK, Querying
    <2>4. QueryHasLock'
      BY <1>0, <2>1 DEF QueryHasLock, Live, Querying, TypeOK
    <2>5. BehindBriefly'
      BY <1>0, <2>1, <2>2 DEF BehindBriefly, Live, TypeOK
    <2>6. NothingAhead'
      BY <1>0, <2>1, <2>2 DEF NothingAhead, TypeOK, Stamps
    <2>7. RowsAfterLabels'
      BY <1>0, <2>1 DEF RowsAfterLabels, Unread, TypeOK
    <2>. QED
      BY <2>3, <2>4, <2>5, <2>6, <2>7 DEF IndInv
  <1>4. CASE Store(r)
    <2>1. /\ pc[r] = "answer" /\ Labelled(r, cur[r], asked[r])
          /\ entry' = [entry EXCEPT ![cur[r]] = [val |-> asked[r], left |-> TTL]]
          /\ lock' = [lock EXCEPT ![cur[r]] = None]
          /\ asked' = [asked EXCEPT ![r] = 0] /\ patience' = [patience EXCEPT ![r] = 0]
          /\ UNCHANGED <<refreshed, lag, sources, panel, snap>>
      BY <1>4 DEF Store
    <2>2. /\ cur[r] \in Views /\ asked[r] \in Stamps /\ asked[r] <= refreshed[cur[r]]
          /\ asked[r] # refreshed[cur[r]] => lag[cur[r]] + patience[r] <= MaxQuery
      BY <1>0, <2>1 DEF QueryHasLock, Querying, TypeOK, NothingAhead, BehindBriefly
    <2>3. /\ \E w \in {"asof", "rows", "done"} : pc' = [pc EXCEPT ![r] = w]
          /\ cur' = [cur EXCEPT ![r] = None]
          /\ label' \in [Requests -> [Views -> Stamps \cup {None}]]
          /\ pc' \in [Requests -> PCs]
          /\ RowsAfterLabels'
          /\ \A s \in Requests, u \in Views :
                label'[s][u] # None => label'[s][u] <= refreshed'[u]
      BY <1>0, <2>1, <2>2, LabelledKeeps DEF NothingAhead
    <2>4. TypeOK'
      <3>1. entry' \in [Views -> [val : Stamps, left : 0..TTL] \cup {None}]
        BY <1>0, <2>1, <2>2, FreshnessAssumption DEF TypeOK
      <3>2. /\ lock' \in [Views -> Requests \cup {None}]
            /\ cur' \in [Requests -> Views \cup {None}]
        BY <1>0, <2>1, <2>3 DEF TypeOK
      <3>3. asked' \in [Requests -> Stamps] /\ patience' \in [Requests -> 0..MaxQuery]
        BY <1>0, <2>1, FreshnessAssumption DEF TypeOK, Stamps
      <3>. QED
        BY <1>0, <2>1, <2>3, <3>1, <3>2, <3>3 DEF TypeOK, PCs
    <2>5. ASSUME NEW s \in Requests, s # r
          PROVE  /\ pc'[s] = pc[s] /\ cur'[s] = cur[s] /\ asked'[s] = asked[s]
                 /\ patience'[s] = patience[s]
                 /\ pc[s] \in Querying => cur[s] # cur[r]
      <3>1. pc[s] \in Querying => cur[s] # cur[r]
        BY <1>0, <2>1, <2>5, QueriesApart DEF Querying
      <3>. QED
        BY <1>0, <2>1, <2>3, <2>5, <3>1 DEF TypeOK
    <2>6. pc'[r] \notin {"get", "wait"} \cup Querying
      BY <1>0, <2>3 DEF TypeOK, Querying
    <2>7. \A v \in Views : v # cur[r] => entry'[v] = entry[v] /\ lock'[v] = lock[v]
      BY <1>0, <2>1 DEF TypeOK
    <2>8. QueryHasLock'
      BY <1>0, <2>5, <2>6, <2>7 DEF QueryHasLock, Live
    <2>9. entry'[cur[r]].val = asked[r] /\ entry'[cur[r]].left = TTL
      BY <1>0, <2>1, <2>2 DEF TypeOK
    <2>10. NothingAhead'
      BY <1>0, <2>1, <2>2, <2>3, <2>5, <2>6, <2>7, <2>9 DEF NothingAhead, Querying
    <2>11. BehindBriefly'
      <3>1. ASSUME NEW v \in Views, Live(v)', entry'[v].val # refreshed'[v]
            PROVE  lag'[v] + entry'[v].left <= MaxQuery + TTL
        <4>1. CASE v = cur[r]
          BY <1>0, <2>1, <2>2, <2>9, <3>1, <4>1, FreshnessAssumption DEF TypeOK, Overdue
        <4>2. CASE v # cur[r]
          BY <1>0, <2>1, <2>7, <3>1, <4>2 DEF BehindBriefly, Live
        <4>. QED
          BY <4>1, <4>2
      <3>2. ASSUME NEW s \in Requests, pc'[s] = "answer", asked'[s] # refreshed'[cur'[s]]
            PROVE  lag'[cur'[s]] + patience'[s] <= MaxQuery
        <4>1. s # r
          BY <2>6, <3>2 DEF Querying
        <4>. QED
          BY <1>0, <2>1, <2>5, <3>2, <4>1 DEF BehindBriefly
      <3>. QED
        BY <3>1, <3>2 DEF BehindBriefly
    <2>. QED
      BY <2>3, <2>4, <2>8, <2>10, <2>11 DEF IndInv
  <1>5. CASE Fails(r)
    <2>1. /\ pc' = [pc EXCEPT ![r] = "failed"]
          /\ lock' = [v \in Views |-> IF lock[v] = r THEN None ELSE lock[v]]
          /\ cur' = [cur EXCEPT ![r] = None]
          /\ asked' = [asked EXCEPT ![r] = 0] /\ patience' = [patience EXCEPT ![r] = 0]
          /\ UNCHANGED <<refreshed, lag, entry, sources, panel, label, snap>>
      BY <1>5 DEF Fails, Goto
    <2>2. TypeOK'
      BY <1>0, <2>1, FreshnessAssumption DEF TypeOK, Ended, Stamps
    <2>3. QueryHasLock'
      BY <1>0, <2>1 DEF QueryHasLock, Live, Querying, TypeOK
    <2>4. BehindBriefly' /\ NothingAhead'
      BY <1>0, <2>1 DEF BehindBriefly, NothingAhead, Live, TypeOK
    <2>5. RowsAfterLabels'
      BY <1>0, <2>1 DEF RowsAfterLabels, Unread, TypeOK
    <2>. QED
      BY <2>2, <2>3, <2>4, <2>5 DEF IndInv
  <1>. QED
    BY <1>1, <1>2, <1>3, <1>4, <1>5

\* A view is refreshed: its time only grows, and its lag starts over.
LEMMA RefreshInv ==
    ASSUME IndInv, NEW v \in Views, Refresh(v)
    PROVE  IndInv'
  <1>0. TypeOK /\ QueryHasLock /\ NothingAhead /\ RowsAfterLabels /\ BehindBriefly
    BY DEF IndInv
  <1>1. /\ Latest < MaxRefreshes
        /\ refreshed' = [refreshed EXCEPT ![v] = Latest + 1] /\ lag' = [lag EXCEPT ![v] = 0]
        /\ UNCHANGED <<entry, lock, pc, sources, panel, cur, asked, patience, label, snap>>
    BY DEF Refresh, reqVars
  <1>2. Latest \in Stamps /\ refreshed[v] <= Latest
    <2>1. {refreshed[u] : u \in Views} \subseteq 0..MaxRefreshes
      BY <1>0 DEF TypeOK, Stamps
    <2>2. refreshed[v] \in {refreshed[u] : u \in Views}
      OBVIOUS
    <2>3. /\ Latest \in {refreshed[u] : u \in Views}
          /\ \A y \in {refreshed[u] : u \in Views} : Latest >= y
      BY <2>1, <2>2, MaxExists, FreshnessAssumption DEF Latest
    <2>. QED
      BY <1>0, <2>1, <2>2, <2>3, FreshnessAssumption DEF Stamps
  <1>3. /\ refreshed' \in [Views -> Stamps] /\ lag' \in [Views -> 0..Overdue]
        /\ \A u \in Views : refreshed[u] <= refreshed'[u] /\ lag'[u] <= lag[u]
        /\ lag'[v] = 0 /\ \A u \in Views : u # v => refreshed'[u] = refreshed[u]
    BY <1>0, <1>1, <1>2, FreshnessAssumption DEF TypeOK, Stamps, Overdue
  <1>4. TypeOK'
    BY <1>0, <1>1, <1>3 DEF TypeOK
  <1>5. QueryHasLock' /\ RowsAfterLabels'
    BY <1>0, <1>1 DEF QueryHasLock, RowsAfterLabels, Live, Unread
  <1>6. NothingAhead'
    <2>1. \A u \in Views : entry[u] # None => entry[u].val <= refreshed'[u]
      BY <1>0, <1>3 DEF NothingAhead, TypeOK, Stamps
    <2>2. \A s \in Requests : pc[s] = "answer" => asked[s] <= refreshed'[cur[s]]
      BY <1>0, <1>3 DEF NothingAhead, QueryHasLock, Querying, TypeOK, Stamps
    <2>3. \A s \in Requests, u \in Views : label[s][u] # None => label[s][u] <= refreshed'[u]
      <3> SUFFICES ASSUME NEW s \in Requests, NEW u \in Views, label[s][u] # None
                   PROVE  label[s][u] <= refreshed'[u]
        OBVIOUS
      <3>1. label[s][u] \in Stamps /\ label[s][u] <= refreshed[u]
        BY <1>0 DEF TypeOK, NothingAhead
      <3>. QED
        BY <1>0, <1>3, <3>1 DEF TypeOK, Stamps
    <2>. QED
      BY <1>1, <2>1, <2>2, <2>3 DEF NothingAhead
  <1>7. BehindBriefly'
    <2>1. ASSUME NEW u \in Views, Live(u), entry[u].val # refreshed'[u]
          PROVE  lag'[u] + entry[u].left <= MaxQuery + TTL
      <3>1. entry[u].left \in 0..TTL
        BY <1>0, <2>1 DEF Live, TypeOK
      <3>2. CASE u = v
        BY <1>3, <3>1, <3>2, FreshnessAssumption
      <3>3. CASE u # v
        BY <1>0, <1>3, <2>1, <3>1, <3>3, FreshnessAssumption
           DEF BehindBriefly, TypeOK, Overdue
      <3>. QED
        BY <3>2, <3>3
    <2>2. ASSUME NEW s \in Requests, pc[s] = "answer", asked[s] # refreshed'[cur[s]]
          PROVE  lag'[cur[s]] + patience[s] <= MaxQuery
      <3>1. cur[s] \in Views /\ patience[s] \in 0..MaxQuery
        BY <1>0, <2>2 DEF QueryHasLock, Querying, TypeOK
      <3>2. CASE cur[s] = v
        BY <1>3, <3>1, <3>2, FreshnessAssumption
      <3>3. CASE cur[s] # v
        BY <1>0, <1>3, <2>2, <3>1, <3>3, FreshnessAssumption
           DEF BehindBriefly, TypeOK, Overdue
      <3>. QED
        BY <3>2, <3>3
    <2>. QED
      BY <1>1, <2>1, <2>2 DEF BehindBriefly, Live
  <1>. QED
    BY <1>4, <1>5, <1>6, <1>7 DEF IndInv

\* Time passes: an entry loses a unit of its life for each unit of lag it
\* may have gained, and a query a unit of its patience.
LEMMA TickInv ==
    ASSUME IndInv, Tick
    PROVE  IndInv'
  <1>0. TypeOK /\ QueryHasLock /\ NothingAhead /\ RowsAfterLabels /\ BehindBriefly
    BY DEF IndInv
  <1>1. /\ \A r \in Requests : pc[r] \in Querying => patience[r] > 0
        /\ patience' = [r \in Requests |-> Less(patience[r])]
        /\ entry' = [v \in Views |-> IF Live(v) /\ entry[v].left > 1
                                    THEN [entry[v] EXCEPT !.left = @ - 1] ELSE None]
        /\ UNCHANGED <<refreshed, lock, pc, sources, panel, cur, asked, label, snap>>
    BY DEF Tick
  <1>2. /\ lag' \in [Views -> 0..Overdue]
        /\ \A v \in Views : lag'[v] <= lag[v] + 1
    <2>1. lag' = [v \in Views |-> Min({lag[v] + 1, Overdue})]
      BY DEF Tick
    <2>2. ASSUME NEW v \in Views
          PROVE  lag'[v] \in 0..Overdue /\ lag'[v] <= lag[v] + 1
      <3>1. lag[v] + 1 \in Nat /\ Overdue \in Nat
        BY <1>0, FreshnessAssumption DEF TypeOK, Overdue
      <3>2. lag'[v] = IF lag[v] + 1 <= Overdue THEN lag[v] + 1 ELSE Overdue
        BY <2>1, <3>1, MinOfTwo
      <3>. QED
        BY <3>1, <3>2
    <2>. QED
      BY <2>1, <2>2
  <1>3. ASSUME NEW v \in Views, entry'[v] # None
        PROVE  /\ Live(v) /\ entry'[v].val = entry[v].val
               /\ entry[v] \in [val : Stamps, left : 0..TTL]
               /\ entry'[v].left = entry[v].left - 1 /\ entry[v].left > 1
               /\ entry'[v] \in [val : Stamps, left : 0..TTL]
    <2>1. /\ Live(v) /\ entry[v].left > 1
          /\ entry'[v] = [entry[v] EXCEPT !.left = @ - 1]
      BY <1>1, <1>3
    <2>2. entry[v] \in [val : Stamps, left : 0..TTL]
      BY <1>0, <2>1 DEF Live, TypeOK
    <2>. QED
      BY <2>1, <2>2, FreshnessAssumption
  <1>4. entry' \in [Views -> [val : Stamps, left : 0..TTL] \cup {None}]
    BY <1>1, <1>3
  <1>5. patience' \in [Requests -> 0..MaxQuery]
    <2>1. ASSUME NEW r \in Requests PROVE Less(patience[r]) \in 0..MaxQuery
      <3>1. patience[r] \in 0..MaxQuery
        BY <1>0 DEF TypeOK
      <3>. QED
        BY <3>1, FreshnessAssumption DEF Less
    <2>. QED
      BY <1>1, <2>1
  <1>6. TypeOK'
    BY <1>0, <1>1, <1>2, <1>4, <1>5 DEF TypeOK
  <1>7. QueryHasLock'
    <2>1. \A v \in Views : Live(v)' => Live(v)
      BY <1>3 DEF Live
    <2>. QED
      BY <1>0, <1>1, <2>1 DEF QueryHasLock
  <1>8. NothingAhead' /\ RowsAfterLabels'
    BY <1>0, <1>1, <1>3 DEF NothingAhead, RowsAfterLabels, Live, Unread
  <1>9. BehindBriefly'
    <2>1. ASSUME NEW v \in Views, Live(v)', entry'[v].val # refreshed'[v]
          PROVE  lag'[v] + entry'[v].left <= MaxQuery + TTL
      <3>1. /\ Live(v) /\ entry[v].val # refreshed[v] /\ entry[v].left \in 0..TTL
            /\ entry'[v].left = entry[v].left - 1
        BY <1>1, <1>3, <2>1 DEF Live
      <3>2. lag[v] + entry[v].left <= MaxQuery + TTL
        BY <1>0, <3>1 DEF BehindBriefly
      <3>. QED
        BY <1>0, <1>2, <3>1, <3>2, FreshnessAssumption DEF TypeOK, Overdue
    <2>2. ASSUME NEW s \in Requests, pc'[s] = "answer", asked'[s] # refreshed'[cur'[s]]
          PROVE  lag'[cur'[s]] + patience'[s] <= MaxQuery
      <3>1. /\ cur[s] \in Views /\ patience[s] \in 0..MaxQuery /\ patience[s] > 0
            /\ lag[cur[s]] + patience[s] <= MaxQuery
        BY <1>0, <1>1, <2>2 DEF QueryHasLock, Querying, TypeOK, BehindBriefly
      <3>2. patience'[s] = patience[s] - 1
        BY <1>1, <3>1 DEF Less
      <3>. QED
        BY <1>0, <1>1, <1>2, <3>1, <3>2, FreshnessAssumption DEF TypeOK, Overdue
    <2>. QED
      BY <2>1, <2>2 DEF BehindBriefly
  <1>. QED
    BY <1>6, <1>7, <1>8, <1>9 DEF IndInv

-----------------------------------------------------------------------------
(* The theorems                                                            *)

\* IndInv holds at the start and after every step.
THEOREM IndInvHolds == Spec => []IndInv
  <1>1. Init => IndInv
    <2> SUFFICES ASSUME Init PROVE IndInv
      OBVIOUS
    <2>1. TypeOK
      BY FreshnessAssumption DEF Init, TypeOK, Blank, Stamps, Overdue
    <2>2. QueryHasLock /\ NothingAhead /\ RowsAfterLabels /\ BehindBriefly
      BY DEF Init, QueryHasLock, NothingAhead, RowsAfterLabels, BehindBriefly, Live, Blank,
             Querying
    <2>. QED
      BY <2>1, <2>2 DEF IndInv
  <1>2. IndInv /\ [Next]_vars => IndInv'
    <2> SUFFICES ASSUME IndInv, [Next]_vars PROVE IndInv'
      OBVIOUS
    <2>1. CASE UNCHANGED vars
      BY <2>1 DEF vars, reqVars, IndInv, TypeOK, QueryHasLock, NothingAhead,
             RowsAfterLabels, BehindBriefly, Live, Unread
    <2>. QED
      BY <2>1, EndpointInv, LookupInv, RefreshInv, TickInv DEF Next, RequestStep
  <1>. QED
    BY <1>1, <1>2, PTL DEF Spec

\* Every variable keeps its type.
THEOREM TypeCorrect == Spec => []TypeOK
  BY IndInvHolds, PTL DEF IndInv

\* However many requests find the cache cold or expired, one of them asks
\* the database about a view at a time, and only while nothing is cached.
THEOREM ColdCacheAsksOnce == Spec => []OneQueryWhenCold
  <1>1. IndInv => OneQueryWhenCold
    BY QueriesApart DEF IndInv, QueryHasLock, OneQueryWhenCold
  <1>. QED
    BY <1>1, IndInvHolds, PTL

\* No refresh that lands during a record request, and no cached refresh time,
\* makes the response claim to be fresher than any view it was read from.
THEOREM RecordsAreHonest == Spec => []RecordsNeverLookFresher
  <1>1. IndInv => RecordsNeverLookFresher
    <2> SUFFICES ASSUME IndInv, NEW r \in Requests, pc[r] = "done", ~panel[r],
                        NEW v \in sources[r]
                 PROVE  AsOf(r) <= snap[r][v]
      BY DEF RecordsNeverLookFresher
    <2>1. /\ Unread(r) = {} /\ snap[r][v] \in Stamps /\ label[r][v] <= snap[r][v]
      BY DEF IndInv, RowsAfterLabels
    <2>2. {label[r][u] : u \in sources[r]} \subseteq Stamps
      BY <2>1 DEF IndInv, TypeOK, Unread
    <2>3. AsOf(r) \in Stamps /\ AsOf(r) <= label[r][v]
      <3>1. label[r][v] \in {label[r][u] : u \in sources[r]}
        OBVIOUS
      <3>2. Stamps \subseteq Nat
        BY FreshnessAssumption DEF Stamps
      <3>3. /\ AsOf(r) \in {label[r][u] : u \in sources[r]}
            /\ \A y \in {label[r][u] : u \in sources[r]} : AsOf(r) <= y
        BY <2>2, <3>1, <3>2, MinExists DEF AsOf
      <3>. QED
        BY <2>2, <3>1, <3>3
    <2>4. label[r][v] \in Stamps
      BY <2>2
    <2>. QED
      BY <2>1, <2>3, <2>4, FreshnessAssumption DEF Stamps
  <1>. QED
    BY <1>1, IndInvHolds, PTL

\* A refresh time that is out of date is reported for no longer than the
\* cache's TTL plus one query after the refresh it misses.
THEOREM StalenessIsBounded == Spec => StalenessBounded
  <1>1. IndInv /\ [Next]_vars => [StaleStep]_vars
    <2> SUFFICES ASSUME IndInv, Next, NEW r \in Requests, NEW v \in Views,
                        label'[r][v] # label[r][v],
                        label'[r][v] # None, label'[r][v] # refreshed[v]
                 PROVE  lag[v] <= TTL + MaxQuery
      BY DEF StaleStep
    <2>0. TypeOK /\ QueryHasLock /\ BehindBriefly
      BY DEF IndInv
    <2>1. ASSUME NEW s \in Requests, NEW u \in Views, NEW value, Labelled(s, u, value)
          PROVE  s = r /\ u = v /\ value = label'[r][v]
      BY <2>0, <2>1 DEF Labelled, TypeOK
    <2>2. ASSUME NEW s \in Requests, Get(s) PROVE lag[v] <= TTL + MaxQuery
      <3>1. cur[s] \in Views /\ Live(cur[s]) /\ Labelled(s, cur[s], entry[cur[s]].val)
        BY <2>0, <2>2 DEF Get, QueryHasLock
      <3>2. s = r /\ cur[s] = v /\ entry[v].val = label'[r][v]
        BY <2>1, <3>1
      <3>3. lag[v] + entry[v].left <= MaxQuery + TTL /\ entry[v].left \in 0..TTL
        BY <2>0, <3>1, <3>2 DEF BehindBriefly, Live, TypeOK
      <3>. QED
        BY <2>0, <3>3, FreshnessAssumption DEF TypeOK, Overdue
    <2>3. ASSUME NEW s \in Requests, Store(s) PROVE lag[v] <= TTL + MaxQuery
      <3>1. /\ pc[s] = "answer" /\ cur[s] \in Views /\ Labelled(s, cur[s], asked[s])
            /\ patience[s] \in 0..MaxQuery
        BY <2>0, <2>3 DEF Store, QueryHasLock, Querying, TypeOK
      <3>2. s = r /\ cur[s] = v /\ asked[s] = label'[r][v]
        BY <2>1, <3>1
      <3>3. lag[v] + patience[s] <= MaxQuery
        BY <2>0, <3>1, <3>2 DEF BehindBriefly
      <3>. QED
        BY <2>0, <3>1, <3>3, FreshnessAssumption DEF TypeOK, Overdue
    <2>4. ASSUME NEW s \in Requests, NEW S, NEW isPanel, Begin(s, S, isPanel)
          PROVE  lag[v] <= TTL + MaxQuery
      BY <2>0, <2>4 DEF Begin, Blank, TypeOK
    <2>5. CASE UNCHANGED label
      BY <2>5
    <2>. QED
      BY <2>2, <2>3, <2>4, <2>5
         DEF Next, RequestStep, Check, FetchRows, Enter, Answer, Fails, Refresh, Tick, reqVars
  <1>. QED
    BY <1>1, IndInvHolds, PTL DEF Spec, StalenessBounded
=============================================================================
