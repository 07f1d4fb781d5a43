---------------------- MODULE LearnerRecordsSyncProofs ----------------------
(***************************************************************************)
(* Proofs about LearnerRecordsSync, for any rows, records and bounds, any  *)
(* clock resolution, retention, cache TTL and request time: the windows of *)
(* _window_predicates; how long a log that was recreated can be read under *)
(* its old start; that no record of the copy is silently wrong; and that   *)
(* the sync implements PartnerReplica.  The invariant grows in layers:     *)
(* IndInv (what a request has established, and how old the starts are),    *)
(* TimesLegit (no as_of is ahead of its views), LogsOrdered (stamps come   *)
(* in the order of the refreshes), CopyRight (what the client has is right *)
(* for the cursor it has or will have).                                    *)
(***************************************************************************)
EXTENDS LearnerRecordsSync, FiniteSetTheorems, WellFoundedInduction, NaturalsInduction, TLAPS

\* Where a request is, and what it has by then.
Working ==
    /\ pc \in {"coverage", "start", "asof"} => todo \in {Sources, Tail(Sources)} \ {<<>>}
    /\ pc \in {"coverage", "start"} => since # None
    /\ pc \in {"page", "count"} => labels # {}
    /\ pc \notin {"idle", "more"} => began <= now /\ now <= began + MaxRequest

\* A log's stamps, those to come included, are no older than its seed.
LogsSeeded ==
    /\ \A v \in Views : created[v] # None =>
          created[v] <= now /\ created[v] = UtcTimestamp(created[v])
    /\ \A p \in Rows : log[p] # None =>
          created[ViewOf(p)] # None /\ created[ViewOf(p)] <= log[p].on
    /\ \A v \in Views : \A p \in RowsOf(v) : created[v] # None /\ Unstamped(p) =>
          finished[v] # None /\ created[v] <= finished[v]

\* A start that the log has outgrown was read before the log's recreation:
\* by the query just answered ...
AnswerKnown ==
    pc = "start" /\ answer # None =>
        /\ created[Head(todo)] # None
        /\ created[Head(todo)] <= answer \/ began < created[Head(todo)] + Second

\* ... or by the one that filled the cache.
CacheKnown ==
    \A v \in Views : StartCached(v) =>
        /\ now < startCache[v].until /\ startCache[v].until <= now + StartTTL
        /\ startCache[v].val # None =>
              /\ created[v] # None
              /\ \/ created[v] <= startCache[v].val
                 \/ startCache[v].until < created[v] + StartTTL + MaxRequest + Second

\* The logs whose start the request has compared with its cursor.
Judged ==
    CASE pc \in {"coverage", "start"} -> IF todo = Sources THEN {} ELSE {Head(Sources)}
      [] pc \in {"asof", "page"} -> IF since = None THEN {} ELSE SourceViews
      [] OTHER -> {}

Lately(v) ==
    /\ created[v] # None
    /\ created[v] <= since \/ began < created[v] + StartTTL + MaxRequest + Second - 1

JudgedLately == \A v \in Judged : Lately(v)

IndInv ==
    /\ TypeOK
    /\ Working
    /\ LogsSeeded
    /\ AnswerKnown
    /\ CacheKnown
    /\ JudgedLately

-----------------------------------------------------------------------------
(* Windows                                                                 *)

\* Both roundings stay within their second (_whole_second).
LEMMA Rounding ==
    ASSUME NEW t \in Nat
    PROVE  /\ WholeSecond(t) \in Int /\ RoundUp(t) \in Int
           /\ WholeSecond(t) <= t /\ t <= RoundUp(t)
<1>1. Second \in Nat /\ Second > 0
  BY SyncAssumption DEF SyncAssumption
<1>2. t % Second \in 0..(Second - 1)
  BY <1>1
<1>3. WholeSecond(t) \in Int /\ WholeSecond(t) <= t /\ t <= WholeSecond(t) + Second
  BY <1>1, <1>2 DEF WholeSecond
<1> QED
  BY <1>1, <1>3 DEF RoundUp

\* "paired with a later window whose since is this before, ... no row is
\* dropped between them": a record in the window from one bound to another is
\* in one of the two windows that any instant splits it into, whatever
\* fraction of a second the instant has.
THEOREM WindowsMeet ==
    ASSUME NEW on \in Nat \cup {None},
           NEW from \in Nat \cup {None}, NEW split \in Nat, NEW before \in Nat \cup {None},
           on # None,
           InWindow(on, from, before)
    PROVE  InWindow(on, from, split) \/ InWindow(on, split, before)
<1>1. split # None /\ on \in Nat
  BY SyncAssumption DEF SyncAssumption
<1>2. /\ WholeSecond(split) \in Int /\ RoundUp(split) \in Int
      /\ WholeSecond(split) <= RoundUp(split)
  <2>1. WholeSecond(split) <= split /\ split <= RoundUp(split)
    BY Rounding
  <2> QED
    BY <2>1, Rounding
<1>3. CASE on >= WholeSecond(split)
  BY <1>1, <1>3 DEF InWindow
<1>4. CASE on < WholeSecond(split)
  <2>1. on < RoundUp(split)
    BY <1>1, <1>2, <1>4
  <2> QED
    BY <1>1, <2>1 DEF InWindow
<1> QED
  BY <1>1, <1>2, <1>3, <1>4
-----------------------------------------------------------------------------
(* The operators                                                           *)

\* utc_timestamp() is less than a second behind.
LEMMA Utc ==
    ASSUME NEW t \in Nat
    PROVE  UtcTimestamp(t) \in Nat /\ UtcTimestamp(t) <= t /\ t < UtcTimestamp(t) + Second
<1>1. Second \in Nat \ {0}
  BY SyncAssumption DEF SyncAssumption
<1>2. /\ (t % Second) \in 0..(Second - 1) /\ (t \div Second) \in Nat
      /\ t = Second * (t \div Second) + (t % Second)
  BY <1>1
<1>3. Second * (t \div Second) \in Nat
  BY <1>1, <1>2
<1> QED
  BY <1>1, <1>2, <1>3 DEF UtcTimestamp

\* Whole seconds are compared as their multiples.
LEMMA Multiples ==
    ASSUME NEW k \in Int, NEW l \in Int, Second * k <= Second * l + (Second - 1)
    PROVE  Second * k <= Second * l
<1>1. Second \in Int /\ Second > 0
  BY SyncAssumption DEF SyncAssumption
<1>2. CASE k <= l
  BY <1>1, <1>2
<1>3. CASE k >= l + 1
  <2>1. Second * k >= Second * (l + 1)
    BY <1>1, <1>3
  <2>2. Second * (l + 1) = Second * l + Second
    BY <1>1
  <2> QED
    BY <1>1, <2>1, <2>2
<1> QED
  BY <1>2, <1>3

\* A whole second that has come is not after the current one.
LEMMA UtcMonotone ==
    ASSUME NEW m \in Nat, NEW t \in Nat, UtcTimestamp(m) <= t
    PROVE  UtcTimestamp(m) <= UtcTimestamp(t)
<1>0. Second \in Nat \ {0}
  BY SyncAssumption DEF SyncAssumption
<1>1. m \div Second \in Int /\ t \div Second \in Int /\ (t % Second) \in 0..(Second - 1)
  BY <1>0
<1>2. /\ UtcTimestamp(m) = Second * (m \div Second)
      /\ UtcTimestamp(t) = Second * (t \div Second)
      /\ t = Second * (t \div Second) + (t % Second)
  BY <1>0 DEF UtcTimestamp
<1>3. Second * (m \div Second) \in Int /\ Second * (t \div Second) \in Int
  BY <1>0, <1>1
<1>4. Second * (m \div Second) <= Second * (t \div Second) + (Second - 1)
  BY <1>0, <1>1, <1>2, <1>3
<1>5. Second * (m \div Second) <= Second * (t \div Second)
  BY <1>1, <1>4, Multiples
<1> QED
  BY <1>2, <1>5

\* A whole second is its own timestamp.
LEMMA UtcWhole ==
    ASSUME NEW t \in Nat
    PROVE  UtcTimestamp(UtcTimestamp(t)) = UtcTimestamp(t)
<1>1. UtcTimestamp(t) \in Nat
  BY Utc
<1>2. UtcTimestamp(t) <= UtcTimestamp(UtcTimestamp(t))
  BY <1>1, UtcMonotone
<1>3. UtcTimestamp(UtcTimestamp(t)) \in Nat /\ UtcTimestamp(UtcTimestamp(t)) <= UtcTimestamp(t)
  BY <1>1, Utc
<1> QED
  BY <1>1, <1>2, <1>3

\* A set of times that is not empty has an earliest one.
LEMMA MinimumExists ==
    ASSUME NEW S, S \subseteq Nat, S # {}
    PROVE  Minimum(S) \in S /\ \A y \in S : Minimum(S) <= y
<1>1. PICK x \in S : \A y \in S : ~(<<y, x>> \in OpToRel(<, Nat))
  BY NatLessThanWellFounded, WFMin
<1>2. \A y \in S : x <= y
  <2> SUFFICES ASSUME NEW y \in S, ~(x <= y) PROVE FALSE
    OBVIOUS
  <2>1. y < x /\ <<y, x>> \in Nat \X Nat
    OBVIOUS
  <2>2. <<y, x>>[1] = y /\ <<y, x>>[2] = x
    OBVIOUS
  <2>3. <<y, x>> \in OpToRel(<, Nat)
    BY <2>1, <2>2, Zenon DEF OpToRel
  <2> QED
    BY <1>1, <2>3, Zenon
<1> QED
  BY <1>2, Zenon DEF Minimum

\* RecordQuery.sources: one view or two.
LEMMA SourcesShape ==
    /\ Sources # <<>> /\ Head(Sources) \in Views /\ SourceViews \subseteq Views
    /\ Tail(Sources) = <<>> => SourceViews = {Head(Sources)}
    /\ Tail(Sources) # <<>> =>
          /\ Tail(Sources) # Sources /\ Tail(Tail(Sources)) = <<>>
          /\ Head(Tail(Sources)) \in Views
          /\ SourceViews = {Head(Sources), Head(Tail(Sources))}
<1>1. Sources \in {<<"enrollment">>, <<"learner">>, <<"learner", "enrollment">>}
  BY DEF Sources
<1>2. ASSUME NEW v \in Views, Sources = <<v>>
      PROVE  /\ Sources # <<>> /\ Head(Sources) = v /\ Tail(Sources) = <<>>
             /\ SourceViews = {v}
  BY <1>2 DEF SourceViews
<1>3. CASE Sources = <<"learner", "enrollment">>
  <2>1. Sources # <<>> /\ Head(Sources) = "learner" /\ Tail(Sources) = <<"enrollment">>
    BY <1>3
  <2>2. /\ <<"enrollment">> # <<>> /\ <<"enrollment">> # <<"learner", "enrollment">>
        /\ Head(<<"enrollment">>) = "enrollment" /\ Tail(<<"enrollment">>) = <<>>
    OBVIOUS
  <2>3. SourceViews = {"learner", "enrollment"}
    BY <1>3 DEF SourceViews
  <2> QED
    BY <1>3, <2>1, <2>2, <2>3, Zenon DEF Views
<1>4. {"learner", "enrollment"} = Views
  BY DEF Views
<1> QED
  BY <1>1, <1>2, <1>3, <1>4, Zenon

\* "only as fresh as the staler one": as_of is a time, or unknown.
LEMMA AsOfType ==
    ASSUME labels \subseteq Nat \cup {None}, labels # {}
    PROVE  AsOf \in Nat \cup {None}
<1>1. CASE None \notin labels
  BY <1>1, MinimumExists DEF AsOf
<1> QED
  BY <1>1 DEF AsOf

\* A record's body is made of what the views hold.
LEMMA BodyType ==
    ASSUME TypeOK, NEW i \in Records
    PROVE  Body(i) \in Bodies \cup {None}
<1>1. Reads \subseteq Rows
  BY SyncAssumption DEF Reads, Rows, SyncAssumption
<1>2. \A p \in Rows : mv[p] # Absent => mv[p] \in Values /\ ViewOf(p) \in Views
  BY DEF TypeOK, ViewOf, Views
<1>3. {<<ViewOf(p), mv[p]>> : p \in {q \in Built(i) : mv[q] # Absent}} \subseteq Views \X Values
  BY <1>1, <1>2 DEF Built
<1> QED
  BY <1>3 DEF Body, Bodies

\* change_log_start finds nothing in a log that was never created, and
\* nothing older than the seed in any other.
LEMMA LogStartType ==
    ASSUME TypeOK, LogsSeeded, NEW v \in Views
    PROVE  /\ LogStart(v) \in Nat \cup {None}
           /\ LogStart(v) # None => created[v] # None /\ created[v] <= LogStart(v)
<1> DEFINE S == Stamps(RowsOf(v)) \cup (IF foreign /\ created[v] # None THEN {created[v]} ELSE {})
<1>1. \A p \in RowsOf(v) : p \in Rows /\ ViewOf(p) = v
  BY SyncAssumption DEF RowsOf, Rows, ViewOf, Views, SyncAssumption
<1>2. \A s \in S : s \in Nat /\ created[v] # None /\ created[v] <= s
  <2> SUFFICES ASSUME NEW s \in S PROVE s \in Nat /\ created[v] # None /\ created[v] <= s
    OBVIOUS
  <2>1. CASE s \in Stamps(RowsOf(v))
    <3>1. PICK p \in RowsOf(v) : log[p] # None /\ s = log[p].on
      BY <2>1 DEF Stamps, Logged
    <3> QED
      BY <1>1, <3>1 DEF TypeOK, LogsSeeded
  <2>2. CASE s = created[v] /\ created[v] # None
    BY <2>2 DEF TypeOK
  <2> QED
    BY <2>1, <2>2
<1>3. CASE S = {}
  BY <1>3 DEF LogStart, Earliest
<1>4. CASE S # {}
  <2>1. Minimum(S) \in S
    BY <1>2, <1>4, MinimumExists
  <2>2. LogStart(v) = Minimum(S)
    BY <1>4 DEF LogStart, Earliest
  <2> QED
    BY <1>2, <2>1, <2>2
<1> QED
  BY <1>3, <1>4
-----------------------------------------------------------------------------
(* Steps of a request                                                      *)

\* The collection decides the sources.
LEMMA SameSources ==
    ASSUME collection' = collection
    PROVE  Sources' = Sources /\ SourceViews' = SourceViews
  BY Zenon DEF Sources, SourceViews

\* A sync that ends, in whatever way, leaves nothing of its request behind.
LEMMA DropInv ==
    ASSUME IndInv, Drop, cursor' \in Nat \cup {None}, failures' \in Nat,
           held' \in [Records -> Bodies \cup {None}], taint' \subseteq Flaws,
           startCache' \in [Views -> [val : Nat \cup {None}, until : Nat] \cup {Cold}],
           CacheKnown',
           UNCHANGED <<collection, now, world, asOfCache>>
    PROVE  IndInv'
<1>1. Sources' = Sources /\ SourceViews' = SourceViews
  BY SameSources
<1>2. Blank \in [Records -> Bodies \cup {None, Unsent}]
  BY DEF Blank
<1>3. TypeOK'
  BY <1>1, <1>2 DEF Drop, IndInv, TypeOK, world
<1>4. Working' /\ AnswerKnown' /\ JudgedLately'
  <2>1. pc' = "idle"
    BY DEF Drop
  <2>2. Judged' = {}
    BY <2>1, Zenon DEF Judged
  <2> QED
    BY <2>1, <2>2 DEF Working, AnswerKnown, JudgedLately
<1>5. LogsSeeded'
  BY DEF IndInv, LogsSeeded, Unstamped, world
<1> QED
  BY <1>3, <1>4, <1>5 DEF IndInv

\* A refused cursor ends the sync.
LEMMA RefuseInv ==
    ASSUME IndInv, Refuse, failures' \in Nat,
           startCache' \in [Views -> [val : Nat \cup {None}, until : Nat] \cup {Cold}],
           CacheKnown',
           UNCHANGED <<collection, now, world, asOfCache>>
    PROVE  IndInv'
<1>1. /\ cursor' \in Nat \cup {None} /\ held' \in [Records -> Bodies \cup {None}]
      /\ taint' \subseteq Flaws /\ Drop
  BY DEF Refuse, IndInv, TypeOK
<1> QED
  BY <1>1, DropInv

\* A request arrives: all its logs are still to be judged.
LEMMA ArriveInv ==
    ASSUME IndInv, NEW from \in Nat \cup {None}, NEW skip \in Nat,
           NEW sofar \in [Records -> Bodies \cup {None, Unsent}],
           Arrive(from, skip, sofar),
           UNCHANGED <<collection, now, world, failures, caches>>
    PROVE  IndInv'
<1>1. Sources' = Sources /\ SourceViews' = SourceViews
  BY SameSources
<1>2. /\ startCache' \in [Views -> [val : Nat \cup {None}, until : Nat] \cup {Cold}]
      /\ CacheKnown' /\ failures' \in Nat
  BY DEF IndInv, TypeOK, CacheKnown, StartCached, caches, world
<1>3. CASE Refuse
  BY <1>2, <1>3, RefuseInv DEF caches
<1>4. CASE ~Refuse
  <2>1. /\ pc' = IF from = None THEN "asof" ELSE "coverage"
        /\ since' = from /\ offset' = skip /\ got' = sofar
        /\ todo' = Sources /\ began' = now /\ answer' = None /\ labels' = {}
        /\ UNCHANGED <<held, cursor, firstAsOf, listing, flaws, taint>>
    BY <1>4 DEF Arrive
  <2>2. TypeOK'
    BY <1>1, <2>1 DEF IndInv, TypeOK, world, caches
  <2>3. Working'
    <3>1. MaxRequest \in Nat /\ now \in Nat
      BY SyncAssumption DEF IndInv, TypeOK, SyncAssumption
    <3> QED
      BY <1>1, <2>1, <3>1, SourcesShape DEF Working
  <2>4. LogsSeeded'
    BY DEF IndInv, LogsSeeded, Unstamped, world
  <2>5. AnswerKnown'
    BY <2>1 DEF AnswerKnown
  <2>6. JudgedLately'
    <3>1. CASE from = None
      <4>1. pc' = "asof" /\ since' = None
        BY <2>1, <3>1
      <4>2. Judged' = {}
        BY <4>1, Zenon DEF Judged
      <4> QED
        BY <4>2 DEF JudgedLately
    <3>2. CASE from # None
      <4>1. pc' = "coverage" /\ todo' = Sources'
        BY <1>1, <2>1, <3>2
      <4>2. Judged' = {}
        BY <4>1, Zenon DEF Judged
      <4> QED
        BY <4>2 DEF JudgedLately
    <3> QED
      BY <3>1, <3>2
  <2> QED
    BY <1>2, <2>2, <2>3, <2>4, <2>5, <2>6 DEF IndInv
<1> QED
  BY <1>3, <1>4

\* _require_change_log_coverage goes on to the next log, or to as_of, when it
\* knows a start that covers the cursor.
LEMMA JudgeInv ==
    ASSUME IndInv, pc \in {"coverage", "start"}, NEW start \in Nat \cup {None},
           start # None =>
              /\ created[Head(todo)] # None
              /\ \/ created[Head(todo)] <= start
                 \/ began < created[Head(todo)] + StartTTL + MaxRequest + Second - 1,
           Judge(start),
           startCache' \in [Views -> [val : Nat \cup {None}, until : Nat] \cup {Cold}],
           CacheKnown',
           UNCHANGED <<collection, now, world, failures, asOfCache>>
    PROVE  IndInv'
<1>1. Sources' = Sources /\ SourceViews' = SourceViews
  BY SameSources
<1>2. CASE ~Covered(start)
  <2>1. Refuse /\ failures' \in Nat
    BY <1>2 DEF Judge, IndInv, TypeOK
  <2> QED
    BY <2>1, RefuseInv
<1>3. CASE Covered(start)
  <2>1. /\ pc' = IF Tail(todo) = <<>> THEN "asof" ELSE "coverage"
        /\ todo' = IF Tail(todo) = <<>> THEN Sources ELSE Tail(todo)
        /\ answer' = None
        /\ UNCHANGED <<since, began, labels, offset, client>>
    BY <1>3 DEF Judge
  <2>2. todo \in {Sources, Tail(Sources)} \ {<<>>} /\ since # None
    BY DEF IndInv, Working
  <2>3. TypeOK'
    <3>1. todo' \in {Sources, Tail(Sources), <<>>}
      BY <2>1, <2>2, SourcesShape
    <3> QED
      BY <1>1, <2>1, <3>1 DEF IndInv, TypeOK, world, client
  <2>4. Working'
    <3>1. todo' \in {Sources, Tail(Sources)} \ {<<>>}
      BY <2>1, <2>2, SourcesShape
    <3> QED
      BY <1>1, <2>1, <2>2, <3>1 DEF IndInv, Working
  <2>5. LogsSeeded'
    BY DEF IndInv, LogsSeeded, Unstamped, world
  <2>6. AnswerKnown'
    BY <2>1 DEF AnswerKnown
  <2>7. Lately(Head(todo))
    <3>1. start \in Nat /\ since \in Nat /\ start <= since
      BY <1>3, <2>2 DEF Covered, IndInv, TypeOK
    <3>2. Head(todo) \in Views
      BY <2>2, SourcesShape
    <3>3. created[Head(todo)] # None /\ created[Head(todo)] \in Nat
      BY <1>3, <3>2 DEF Covered, IndInv, TypeOK
    <3> QED
      BY <1>3, <3>1, <3>3 DEF Covered, Lately
  <2>8. JudgedLately'
    <3>1. ASSUME NEW v, Lately(v) PROVE Lately(v)'
      BY <2>1, <3>1 DEF Lately, world
    <3>2. Judged = IF todo = Sources THEN {} ELSE {Head(Sources)}
      BY Zenon DEF Judged
    <3>3. CASE Tail(todo) = <<>>
      <4>1. SourceViews = Judged \cup {Head(todo)}
        BY <2>2, <3>2, <3>3, SourcesShape
      <4>2. Judged' = SourceViews
        <5>1. pc' = "asof" /\ since' # None
          BY <2>1, <2>2, <3>3
        <5> QED
          BY <1>1, <5>1, Zenon DEF Judged
      <4> QED
        BY <2>7, <3>1, <4>1, <4>2 DEF IndInv, JudgedLately
    <3>4. CASE Tail(todo) # <<>>
      <4>1. pc' = "coverage" /\ todo = Sources /\ todo' # Sources'
        BY <1>1, <2>1, <2>2, <3>4, SourcesShape
      <4>2. Judged' = {Head(todo)}
        BY <1>1, <4>1, Zenon DEF Judged
      <4> QED
        BY <2>7, <3>1, <4>2 DEF JudgedLately
    <3> QED
      BY <3>3, <3>4
  <2> QED
    BY <2>3, <2>4, <2>5, <2>6, <2>8 DEF IndInv
<1> QED
  BY <1>2, <1>3

\* The client's first request of a sync, or its next page.
LEMMA SyncInv ==
    ASSUME IndInv, StartSync \/ MorePages
    PROVE  IndInv'
<1>1. Blank \in [Records -> Bodies \cup {None, Unsent}] /\ 0 \in Nat
  BY DEF Blank
<1>2. CASE StartSync
  BY <1>1, <1>2, ArriveInv DEF StartSync, IndInv, TypeOK
<1>3. CASE MorePages
  BY <1>3, ArriveInv DEF MorePages, IndInv, TypeOK
<1> QED
  BY <1>2, <1>3

\* A cached start is used while it lives, so it was read not long ago.
LEMMA CoverageHitInv ==
    ASSUME IndInv, CoverageHit
    PROVE  IndInv'
<1> DEFINE v == Head(todo)
<1>1. v \in Views /\ StartCached(v) /\ pc = "coverage"
  BY SourcesShape DEF CoverageHit, IndInv, Working
<1>2. startCache[v] \in [val : Nat \cup {None}, until : Nat]
  BY <1>1 DEF IndInv, TypeOK, StartCached
<1>3. startCache[v].val # None =>
         /\ created[v] # None
         /\ \/ created[v] <= startCache[v].val
            \/ began < created[v] + StartTTL + MaxRequest + Second - 1
  <2> SUFFICES ASSUME startCache[v].val # None
               PROVE  /\ created[v] # None
                      /\ \/ created[v] <= startCache[v].val
                         \/ began < created[v] + StartTTL + MaxRequest + Second - 1
    OBVIOUS
  <2>1. /\ created[v] # None /\ now < startCache[v].until
        /\ \/ created[v] <= startCache[v].val
           \/ startCache[v].until < created[v] + StartTTL + MaxRequest + Second
    BY <1>1 DEF IndInv, CacheKnown
  <2>2. began \in Nat /\ now \in Nat /\ began <= now /\ created[v] \in Nat
    BY <1>1, <2>1 DEF IndInv, TypeOK, Working
  <2>3. StartTTL \in Nat /\ MaxRequest \in Nat /\ Second \in Nat
    BY SyncAssumption DEF SyncAssumption
  <2> QED
    BY <1>2, <2>1, <2>2, <2>3
<1>4. /\ startCache' \in [Views -> [val : Nat \cup {None}, until : Nat] \cup {Cold}]
      /\ CacheKnown' /\ UNCHANGED <<collection, now, world, failures, asOfCache>>
  BY DEF CoverageHit, IndInv, TypeOK, CacheKnown, StartCached, caches, world
<1>5. Judge(startCache[v].val) /\ startCache[v].val \in Nat \cup {None}
  BY <1>2 DEF CoverageHit
<1> QED
  BY <1>1, <1>3, <1>4, <1>5, JudgeInv

\* The query of the start answers with what the log has now.
LEMMA CoverageQueryInv ==
    ASSUME IndInv, CoverageQuery
    PROVE  IndInv'
<1>1. Sources' = Sources /\ SourceViews' = SourceViews
  BY SameSources DEF CoverageQuery
<1>2. Head(todo) \in Views /\ todo' = todo
  BY SourcesShape DEF CoverageQuery, IndInv, Working
<1>3. /\ LogStart(Head(todo)) \in Nat \cup {None}
      /\ LogStart(Head(todo)) # None =>
            created[Head(todo)] # None /\ created[Head(todo)] <= LogStart(Head(todo))
  BY <1>2, LogStartType DEF IndInv
<1>4. TypeOK'
  BY <1>1, <1>3 DEF CoverageQuery, IndInv, TypeOK, world, caches, client
<1>5. Working'
  BY <1>1 DEF CoverageQuery, IndInv, Working
<1>6. LogsSeeded' /\ CacheKnown'
  BY DEF CoverageQuery, IndInv, LogsSeeded, Unstamped, CacheKnown, StartCached, world, caches
<1>7. AnswerKnown'
  BY <1>2, <1>3 DEF CoverageQuery, AnswerKnown, world
<1>8. JudgedLately'
  <2>1. Judged = (IF todo = Sources THEN {} ELSE {Head(Sources)}) /\ pc' = "start"
    BY Zenon DEF Judged, CoverageQuery
  <2>2. Judged' = Judged
    BY <1>1, <1>2, <2>1, Zenon DEF Judged
  <2> QED
    BY <2>2 DEF CoverageQuery, IndInv, JudgedLately, Lately, world
<1> QED
  BY <1>4, <1>5, <1>6, <1>7, <1>8 DEF IndInv

\* Its answer is cached for StartTTL from now, which the query was within a
\* request's time of.
LEMMA CoverageStoreInv ==
    ASSUME IndInv, CoverageStore
    PROVE  IndInv'
<1> DEFINE v == Head(todo)
<1>1. v \in Views /\ pc = "start" /\ todo \in {Sources, Tail(Sources)} \ {<<>>}
  BY SourcesShape DEF CoverageStore, IndInv, Working
<1>2. /\ StartTTL \in Nat \ {0} /\ MaxRequest \in Nat /\ Second \in Nat \ {0}
      /\ began \in Nat /\ now \in Nat /\ began <= now /\ now <= began + MaxRequest
      /\ answer \in Nat \cup {None}
  BY <1>1, SyncAssumption DEF SyncAssumption, IndInv, TypeOK, Working
<1>3. startCache' = [startCache EXCEPT ![v] = [val |-> answer, until |-> now + StartTTL]]
  BY DEF CoverageStore
<1>4. startCache' \in [Views -> [val : Nat \cup {None}, until : Nat] \cup {Cold}]
  BY <1>1, <1>2, <1>3 DEF IndInv, TypeOK
<1>5. answer # None =>
         /\ created[v] # None /\ created[v] \in Nat
         /\ created[v] <= answer \/ began < created[v] + Second
  BY <1>1 DEF IndInv, TypeOK, AnswerKnown
<1>6. CacheKnown'
  <2> SUFFICES ASSUME NEW w \in Views, startCache'[w] # Cold
               PROVE  /\ now < startCache'[w].until /\ startCache'[w].until <= now + StartTTL
                      /\ startCache'[w].val # None =>
                            /\ created[w] # None
                            /\ \/ created[w] <= startCache'[w].val
                               \/ startCache'[w].until < created[w] + StartTTL + MaxRequest + Second
    BY DEF CacheKnown, StartCached, CoverageStore, world
  <2>1. CASE w = v
    <3>1. startCache'[w].val = answer /\ startCache'[w].until = now + StartTTL
      BY <1>3, <2>1 DEF IndInv, TypeOK
    <3> QED
      BY <1>2, <1>5, <2>1, <3>1
  <2>2. CASE w # v
    <3>1. startCache'[w] = startCache[w]
      BY <1>3, <2>2 DEF IndInv, TypeOK
    <3> QED
      BY <3>1 DEF IndInv, CacheKnown, StartCached
  <2> QED
    BY <2>1, <2>2
<1>7. answer # None =>
         /\ created[v] # None
         /\ \/ created[v] <= answer
            \/ began < created[v] + StartTTL + MaxRequest + Second - 1
  BY <1>2, <1>5
<1>8. Judge(answer) /\ UNCHANGED <<collection, now, world, failures, asOfCache>>
  BY DEF CoverageStore
<1> QED
  BY <1>1, <1>2, <1>4, <1>6, <1>7, <1>8, JudgeInv

\* _as_of reads one source after the other.
LEMMA ReadAsOfInv ==
    ASSUME IndInv, ReadAsOf
    PROVE  IndInv'
<1>1. Sources' = Sources /\ SourceViews' = SourceViews
  BY SameSources DEF ReadAsOf
<1>2. todo \in {Sources, Tail(Sources)} \ {<<>>} /\ Head(todo) \in Views
  BY SourcesShape DEF ReadAsOf, IndInv, Working
<1>3. /\ labels' \subseteq Nat \cup {None} /\ labels' # {}
      /\ asOfCache' \in [Views -> Nat \cup {None, Cold}]
  BY <1>2 DEF ReadAsOf, IndInv, TypeOK
<1>4. todo' = Tail(todo) /\ Tail(todo) \in {Tail(Sources), <<>>}
  BY <1>2, SourcesShape DEF ReadAsOf
<1>5. TypeOK'
  BY <1>1, <1>3, <1>4 DEF ReadAsOf, IndInv, TypeOK, world, client
<1>6. Working'
  BY <1>1, <1>2, <1>3, <1>4 DEF ReadAsOf, IndInv, Working
<1>7. LogsSeeded' /\ AnswerKnown' /\ CacheKnown'
  BY DEF ReadAsOf, IndInv, LogsSeeded, Unstamped, AnswerKnown, CacheKnown, StartCached, world
<1>8. JudgedLately'
  <2>1. pc = "asof" /\ pc' \in {"asof", "page"} /\ since' = since
    BY DEF ReadAsOf
  <2>2. Judged = (IF since = None THEN {} ELSE SourceViews)
    BY <2>1, Zenon DEF Judged
  <2>3. Judged' = (IF since = None THEN {} ELSE SourceViews)
    BY <1>1, <2>1, Zenon DEF Judged
  <2> QED
    BY <2>2, <2>3 DEF ReadAsOf, IndInv, JudgedLately, Lately, world
<1> QED
  BY <1>5, <1>6, <1>7, <1>8 DEF IndInv

\* The page query.
LEMMA FetchPageInv ==
    ASSUME IndInv, FetchPage
    PROVE  IndInv'
<1>1. Sources' = Sources /\ SourceViews' = SourceViews
  BY SameSources DEF FetchPage
<1>2. got' \in [Records -> Bodies \cup {None, Unsent}]
  <2>1. \A i \in Records : Body(i) \in Bodies \cup {None}
    BY BodyType DEF IndInv
  <2> QED
    BY <2>1 DEF FetchPage, IndInv, TypeOK
<1>3. listing' \subseteq Records /\ flaws' \subseteq Flaws
  BY DEF FetchPage, IndInv, TypeOK, Selected, Flaws
<1>4. TypeOK'
  BY <1>1, <1>2, <1>3 DEF FetchPage, IndInv, TypeOK, world, caches
<1>5. Working'
  BY <1>1 DEF FetchPage, IndInv, Working
<1>6. LogsSeeded' /\ AnswerKnown' /\ CacheKnown'
  BY DEF FetchPage, IndInv, LogsSeeded, Unstamped, AnswerKnown, CacheKnown, StartCached, world,
     caches
<1>7. JudgedLately'
  <2>1. pc' = "count"
    BY DEF FetchPage
  <2>2. Judged' = {}
    BY <2>1, Zenon DEF Judged
  <2> QED
    BY <2>2 DEF JudgedLately
<1> QED
  BY <1>4, <1>5, <1>6, <1>7 DEF IndInv

\* The count query and what the client makes of the response.
LEMMA RespondInv ==
    ASSUME IndInv, Respond
    PROVE  IndInv'
<1> DEFINE seen == flaws \cup
              {f \in {"torn"} : PageSize < Cardinality(listing) /\ listing # Selected(since)}
           restart == offset > 0 /\ AsOf # firstAsOf
           more == offset + PageSize < Cardinality(Selected(since))
<1>1. UNCHANGED <<collection, now, world, failures, caches>> /\ pc = "count"
  BY DEF Respond
<1>2. Sources' = Sources /\ SourceViews' = SourceViews
  BY <1>1, SameSources
<1>3. seen \subseteq Flaws /\ AsOf \in Nat \cup {None}
  BY <1>1, AsOfType DEF IndInv, TypeOK, Working, Flaws
<1>4. /\ startCache' \in [Views -> [val : Nat \cup {None}, until : Nat] \cup {Cold}]
      /\ CacheKnown' /\ LogsSeeded' /\ failures' \in Nat
  BY <1>1 DEF IndInv, TypeOK, LogsSeeded, Unstamped, CacheKnown, StartCached, caches, world
<1>5. CASE Apply(seen)
  <2>1. /\ held' \in [Records -> Bodies \cup {None}] /\ cursor' \in Nat \cup {None}
        /\ taint' \subseteq Flaws /\ Drop
    BY <1>3, <1>5 DEF Apply, IndInv, TypeOK
  <2> QED
    BY <1>1, <1>4, <2>1, DropInv DEF caches
<1>6. CASE /\ pc' = "more"
           /\ offset' \in Nat /\ firstAsOf' \in Nat \cup {None} /\ flaws' \subseteq Flaws
           /\ got' \in [Records -> Bodies \cup {None, Unsent}] /\ listing' \subseteq Records
           /\ UNCHANGED <<since, todo, began, answer, labels, held, cursor, taint>>
  <2>1. TypeOK'
    BY <1>1, <1>2, <1>6 DEF IndInv, TypeOK, world, caches
  <2>2. Judged' = {}
    BY <1>6, Zenon DEF Judged
  <2>3. Working' /\ AnswerKnown' /\ JudgedLately'
    BY <1>6, <2>2 DEF Working, AnswerKnown, JudgedLately
  <2> QED
    BY <1>4, <2>1, <2>3 DEF IndInv
<1>7. CASE /\ pc' = "more" /\ offset' = 0 /\ got' = Blank /\ firstAsOf' = None
           /\ listing' = {} /\ flaws' = {}
           /\ UNCHANGED <<since, todo, began, answer, labels, held, cursor, taint>>
  <2>1. Blank \in [Records -> Bodies \cup {None, Unsent}]
    BY DEF Blank
  <2> QED
    BY <1>6, <1>7, <2>1
<1>8. CASE /\ pc' = "more" /\ offset' = offset + PageSize /\ firstAsOf' = AsOf
           /\ flaws' = seen
           /\ UNCHANGED <<since, todo, began, answer, labels, held, cursor, got, listing, taint>>
  <2>1. /\ offset + PageSize \in Nat
        /\ got \in [Records -> Bodies \cup {None, Unsent}] /\ listing \subseteq Records
    BY SyncAssumption DEF SyncAssumption, IndInv, TypeOK
  <2> QED
    BY <1>3, <1>6, <1>8, <2>1
<1> QED
  BY <1>5, <1>7, <1>8 DEF Respond

\* A failed request ends the sync and keeps the cursor.
LEMMA FailInv ==
    ASSUME IndInv, Fail
    PROVE  IndInv'
<1>1. /\ Drop /\ failures' \in Nat /\ cursor' \in Nat \cup {None}
      /\ held' \in [Records -> Bodies \cup {None}] /\ taint' \subseteq Flaws
      /\ startCache' \in [Views -> [val : Nat \cup {None}, until : Nat] \cup {Cold}]
      /\ UNCHANGED <<collection, now, world, asOfCache>>
  BY DEF Fail, IndInv, TypeOK, caches
<1>2. CacheKnown'
  BY DEF Fail, IndInv, CacheKnown, StartCached, caches, world
<1> QED
  BY <1>1, <1>2, DropInv
-----------------------------------------------------------------------------
(* The warehouse and the clock                                             *)

\* A view's rows are its own.
LEMMA RowsOfView ==
    /\ \A v \in Views : \A p \in RowsOf(v) : p \in Rows /\ ViewOf(p) = v
    /\ \A p \in Rows : ViewOf(p) \in Views /\ p \in RowsOf(ViewOf(p))
  BY SyncAssumption DEF RowsOf, Rows, ViewOf, Views, SyncAssumption

\* What leaves the logs' creation alone concerns no request.
LEMMA WarehouseInv ==
    ASSUME IndInv, UNCHANGED <<collection, now, created, foreign, failures, caches, request, client>>,
           refreshes' \in Nat, rebuilds' \in Nat,
           mv' \in [Rows -> Values \cup {Absent}],
           log' \in [Rows -> [val : Values \cup {Absent}, on : Nat] \cup {None}],
           finished' \in [Views -> Nat \cup {None}],
           LogsSeeded'
    PROVE  IndInv'
<1>1. Sources' = Sources /\ SourceViews' = SourceViews
  BY SameSources
<1>2. TypeOK'
  BY <1>1 DEF IndInv, TypeOK, caches, request, client
<1>3. Working' /\ AnswerKnown' /\ CacheKnown'
  BY <1>1 DEF IndInv, Working, AnswerKnown, CacheKnown, StartCached, caches, request
<1>4. JudgedLately'
  <2>1. pc' = pc /\ todo' = todo /\ since' = since /\ began' = began
    BY DEF request
  <2>2. Judged' = Judged
    BY <1>1, <2>1, Zenon DEF Judged
  <2> QED
    BY <2>1, <2>2 DEF IndInv, JudgedLately, Lately
<1> QED
  BY <1>2, <1>3, <1>4 DEF IndInv

\* A refresh publishes its rows with its time, which is later than the seed.
LEMMA RefreshInv ==
    ASSUME IndInv, NEW v \in Views, Refresh(v)
    PROVE  IndInv'
<1>1. PICK f \in Contents(v) : mv' = [p \in Rows |-> IF p \in RowsOf(v) THEN f[p] ELSE mv[p]]
  BY DEF Refresh
<1>2. mv' \in [Rows -> Values \cup {Absent}]
  <2>1. f \in [RowsOf(v) -> Values \cup {Absent}]
    BY DEF Contents
  <2> QED
    BY <1>1, <2>1 DEF IndInv, TypeOK
<1>3. /\ finished' \in [Views -> Nat \cup {None}] /\ refreshes' \in Nat /\ rebuilds' \in Nat
      /\ log' \in [Rows -> [val : Values \cup {Absent}, on : Nat] \cup {None}]
  BY DEF Refresh, IndInv, TypeOK
<1>4. LogsSeeded'
  <2>1. UNCHANGED <<now, created, log>>
    BY DEF Refresh
  <2>2. ASSUME NEW w \in Views, NEW p \in RowsOf(w), created[w] # None, Unstamped(p)'
        PROVE  finished'[w] # None /\ created[w] <= finished'[w]
    <3>1. CASE w = v
      <4>1. finished'[w] = now /\ now \in Nat /\ now # None /\ created[w] <= now
        BY <2>2, <3>1, SyncAssumption DEF Refresh, IndInv, TypeOK, LogsSeeded, SyncAssumption
      <4> QED
        BY <4>1
    <3>2. CASE w # v
      <4>1. p \in Rows /\ p \notin RowsOf(v)
        BY <3>2, RowsOfView
      <4>2. mv'[p] = mv[p] /\ finished'[w] = finished[w]
        BY <1>1, <3>2, <4>1 DEF Refresh, IndInv, TypeOK
      <4>3. Unstamped(p)
        BY <2>1, <2>2, <4>2 DEF Unstamped
      <4> QED
        BY <2>2, <4>2, <4>3 DEF IndInv, LogsSeeded
    <3> QED
      BY <3>1, <3>2
  <2> QED
    BY <2>1, <2>2 DEF IndInv, LogsSeeded
<1> QED
  BY <1>2, <1>3, <1>4, WarehouseInv DEF Refresh

\* A stamp is of a time since the last refresh, which the seed precedes.
LEMMA StampInv ==
    ASSUME IndInv, NEW v \in Views, Stamp(v)
    PROVE  IndInv'
<1>1. PICK time \in {finished[v], now} :
         log' = [p \in Rows |-> IF p \in RowsOf(v) /\ Unstamped(p) THEN Entry(mv[p], time)
                                ELSE log[p]]
  BY DEF Stamp
<1>2. created[v] # None /\ created[v] \in Nat
  BY DEF Stamp, IndInv, TypeOK
<1>3. time \in Nat /\ created[v] <= time
  <2>1. finished[v] \in Nat /\ created[v] <= finished[v]
    BY DEF Stamp, IndInv, TypeOK, LogsSeeded
  <2> QED
    BY <1>2, <2>1 DEF IndInv, TypeOK, LogsSeeded
<1>4. UtcTimestamp(time) \in Nat /\ created[v] <= UtcTimestamp(time)
  BY <1>2, <1>3, Utc, UtcMonotone DEF IndInv, LogsSeeded
<1>5. log' \in [Rows -> [val : Values \cup {Absent}, on : Nat] \cup {None}]
  BY <1>1, <1>4 DEF Entry, IndInv, TypeOK
<1>6. LogsSeeded'
  <2>1. UNCHANGED <<now, created, mv, finished>>
    BY DEF Stamp
  <2>2. ASSUME NEW p \in Rows, log'[p] # None
        PROVE  created[ViewOf(p)] # None /\ created[ViewOf(p)] <= log'[p].on
    <3>1. CASE p \in RowsOf(v) /\ Unstamped(p)
      <4>1. log'[p].on = UtcTimestamp(time) /\ ViewOf(p) = v
        BY <1>1, <3>1, RowsOfView DEF Entry
      <4> QED
        BY <1>2, <1>4, <4>1
    <3>2. CASE ~(p \in RowsOf(v) /\ Unstamped(p))
      <4>1. log'[p] = log[p]
        BY <1>1, <3>2
      <4> QED
        BY <2>2, <4>1 DEF IndInv, LogsSeeded
    <3> QED
      BY <3>1, <3>2
  <2>3. ASSUME NEW w \in Views, NEW p \in RowsOf(w), created[w] # None, Unstamped(p)'
        PROVE  finished[w] # None /\ created[w] <= finished[w]
    <3>1. p \in Rows
      BY RowsOfView
    <3>2. Unstamped(p)
      <4> SUFFICES ASSUME ~Unstamped(p) PROVE FALSE
        OBVIOUS
      <4>1. log'[p] = log[p]
        BY <1>1, <3>1
      <4> QED
        BY <2>1, <2>3, <4>1 DEF Unstamped
    <3> QED
      BY <2>3, <3>2 DEF IndInv, LogsSeeded
  <2> QED
    BY <2>1, <2>2, <2>3 DEF IndInv, LogsSeeded
<1>7. /\ UNCHANGED <<collection, now, created, foreign, failures, caches, request, client>>
      /\ refreshes' \in Nat /\ rebuilds' \in Nat /\ mv' \in [Rows -> Values \cup {Absent}]
      /\ finished' \in [Views -> Nat \cup {None}]
  BY DEF Stamp, IndInv, TypeOK
<1> QED
  BY <1>5, <1>6, <1>7, WarehouseInv

\* A purge only takes stamps away, of rows that are not there.
LEMMA PurgeInv ==
    ASSUME IndInv, NEW v \in Views, Purge(v)
    PROVE  IndInv'
<1> DEFINE old == {p \in Logged(RowsOf(v)) : log[p].val = Absent /\ log[p].on + PurgeAge < now}
<1>1. log' = [p \in Rows |-> IF p \in old THEN None ELSE log[p]]
  BY DEF Purge
<1>2. log' \in [Rows -> [val : Values \cup {Absent}, on : Nat] \cup {None}]
  BY <1>1 DEF IndInv, TypeOK
<1>3. /\ UNCHANGED <<collection, now, created, foreign, failures, caches, request, client>>
      /\ UNCHANGED <<mv, finished>> /\ refreshes' \in Nat /\ rebuilds' \in Nat
      /\ mv' \in [Rows -> Values \cup {Absent}] /\ finished' \in [Views -> Nat \cup {None}]
  BY DEF Purge, IndInv, TypeOK
<1>4. LogsSeeded'
  <2>1. ASSUME NEW p \in Rows, log'[p] # None
        PROVE  log'[p] = log[p]
    BY <1>1, <2>1
  <2>2. ASSUME NEW w \in Views, NEW p \in RowsOf(w), Unstamped(p)'
        PROVE  Unstamped(p)
    <3>1. p \in Rows
      BY RowsOfView
    <3>2. CASE p \in old
      <4>1. log'[p] = None /\ log[p] # None /\ log[p].val = Absent
        BY <1>1, <3>1, <3>2 DEF Logged
      <4> QED
        BY <1>3, <2>2, <4>1 DEF Unstamped
    <3>3. CASE p \notin old
      <4>1. log'[p] = log[p]
        BY <1>1, <3>1, <3>3
      <4> QED
        BY <1>3, <2>2, <4>1 DEF Unstamped
    <3> QED
      BY <3>2, <3>3
  <2> QED
    BY <1>3, <2>1, <2>2 DEF IndInv, LogsSeeded
<1> QED
  BY <1>2, <1>3, <1>4, WarehouseInv

\* A log that is created anew starts in this second: whatever start the
\* service knows of it was read before.
LEMMA RebuildInv ==
    ASSUME IndInv, NEW v \in Views, Rebuild(v)
    PROVE  IndInv'
<1>1. /\ UtcTimestamp(now) \in Nat /\ UtcTimestamp(now) # None
      /\ UtcTimestamp(now) <= now /\ now < UtcTimestamp(now) + Second
      /\ UtcTimestamp(now) = UtcTimestamp(UtcTimestamp(now)) /\ now \in Nat
  <2>1. now \in Nat /\ None \notin Nat
    BY SyncAssumption DEF IndInv, TypeOK, SyncAssumption
  <2> QED
    BY <2>1, Utc, UtcWhole
<1>2. /\ StartTTL \in Nat \ {0} /\ MaxRequest \in Nat /\ Second \in Nat \ {0}
  BY SyncAssumption DEF SyncAssumption
<1>3. Sources' = Sources /\ SourceViews' = SourceViews
  BY SameSources DEF Rebuild
<1>4. /\ created' = [created EXCEPT ![v] = UtcTimestamp(now)]
      /\ created'[v] = UtcTimestamp(now)
      /\ \A w \in Views : w # v => created'[w] = created[w]
  BY DEF Rebuild, IndInv, TypeOK
<1>5. log' = [p \in Rows |-> IF p \notin RowsOf(v) THEN log[p]
                             ELSE IF mv[p] = Absent THEN None ELSE Entry(mv[p], now)]
  BY DEF Rebuild
<1>6. TypeOK'
  <2>1. log' \in [Rows -> [val : Values \cup {Absent}, on : Nat] \cup {None}]
    BY <1>1, <1>5 DEF Entry, IndInv, TypeOK
  <2>2. created' \in [Views -> Nat \cup {None}] /\ rebuilds' \in Nat
    BY <1>1 DEF Rebuild, IndInv, TypeOK
  <2> QED
    BY <1>3, <2>1, <2>2 DEF Rebuild, IndInv, TypeOK, caches, request, client
<1>7. Working'
  BY <1>3 DEF Rebuild, IndInv, Working, request
<1>8. LogsSeeded'
  <2>1. UNCHANGED <<now, mv, finished>>
    BY DEF Rebuild
  <2>2. ASSUME NEW w \in Views, created'[w] # None
        PROVE  created'[w] <= now /\ created'[w] = UtcTimestamp(created'[w])
    BY <1>1, <1>4, <2>2 DEF IndInv, LogsSeeded
  <2>3. ASSUME NEW p \in Rows, log'[p] # None
        PROVE  created'[ViewOf(p)] # None /\ created'[ViewOf(p)] <= log'[p].on
    <3>1. CASE p \in RowsOf(v)
      <4>1. ViewOf(p) = v /\ log'[p].on = UtcTimestamp(now)
        BY <1>5, <2>3, <3>1, RowsOfView DEF Entry
      <4> QED
        BY <1>1, <1>4, <4>1
    <3>2. CASE p \notin RowsOf(v)
      <4>1. ViewOf(p) # v /\ ViewOf(p) \in Views /\ log'[p] = log[p]
        BY <1>5, <3>2, RowsOfView
      <4> QED
        BY <1>4, <2>3, <4>1 DEF IndInv, LogsSeeded
    <3> QED
      BY <3>1, <3>2
  <2>4. ASSUME NEW w \in Views, NEW p \in RowsOf(w), created'[w] # None, Unstamped(p)'
        PROVE  finished[w] # None /\ created'[w] <= finished[w]
    <3>1. p \in Rows /\ ViewOf(p) = w
      BY RowsOfView
    <3>2. p \notin RowsOf(v)
      <4> SUFFICES ASSUME p \in RowsOf(v) PROVE FALSE
        OBVIOUS
      <4>1. log'[p] = IF mv[p] = Absent THEN None ELSE Entry(mv[p], now)
        BY <1>5, <3>1
      <4>2. Entry(mv[p], now).val = mv[p] /\ Entry(mv[p], now) # None
        BY <1>1, <3>1, SyncAssumption DEF Entry, SyncAssumption, IndInv, TypeOK
      <4> QED
        BY <2>1, <2>4, <4>1, <4>2 DEF Unstamped
    <3>3. w # v /\ log'[p] = log[p]
      BY <1>5, <3>1, <3>2
    <3>4. Unstamped(p)
      BY <2>1, <2>4, <3>3 DEF Unstamped
    <3> QED
      BY <1>4, <2>4, <3>3, <3>4 DEF IndInv, LogsSeeded
  <2> QED
    BY <2>1, <2>2, <2>3, <2>4 DEF LogsSeeded
<1>9. AnswerKnown'
  <2> SUFFICES ASSUME pc = "start", answer # None
               PROVE  /\ created'[Head(todo)] # None
                      /\ created'[Head(todo)] <= answer \/ began < created'[Head(todo)] + Second
    BY DEF AnswerKnown, Rebuild, request
  <2>1. Head(todo) \in Views /\ began \in Nat /\ began <= now
    BY SourcesShape DEF IndInv, TypeOK, Working
  <2>2. CASE Head(todo) = v
    BY <1>1, <1>2, <1>4, <2>1, <2>2
  <2>3. CASE Head(todo) # v
    BY <1>4, <2>1, <2>3 DEF IndInv, AnswerKnown
  <2> QED
    BY <2>2, <2>3
<1>10. CacheKnown'
  <2> SUFFICES ASSUME NEW w \in Views, StartCached(w)
               PROVE  /\ now < startCache[w].until /\ startCache[w].until <= now + StartTTL
                      /\ startCache[w].val # None =>
                            /\ created'[w] # None
                            /\ \/ created'[w] <= startCache[w].val
                               \/ startCache[w].until < created'[w] + StartTTL + MaxRequest + Second
    BY DEF CacheKnown, StartCached, Rebuild, caches
  <2>1. /\ now < startCache[w].until /\ startCache[w].until <= now + StartTTL
        /\ startCache[w].until \in Nat
    BY DEF IndInv, CacheKnown, TypeOK, StartCached
  <2>2. CASE w = v
    BY <1>1, <1>2, <1>4, <2>1, <2>2
  <2>3. CASE w # v
    BY <1>4, <2>1, <2>3 DEF IndInv, CacheKnown
  <2> QED
    BY <2>2, <2>3
<1>11. JudgedLately'
  <2>1. pc' = pc /\ todo' = todo /\ since' = since /\ began' = began
    BY DEF Rebuild, request
  <2>2. Judged' = Judged
    BY <1>3, <2>1, Zenon DEF Judged
  <2> SUFFICES ASSUME NEW w \in Judged PROVE Lately(w)'
    BY <2>2 DEF JudgedLately
  <2>3. w \in Views
    <3>1. CASE pc \in {"coverage", "start"}
      <4>1. Judged \subseteq {Head(Sources)}
        BY <3>1, Zenon DEF Judged
      <4> QED
        BY <4>1, SourcesShape
    <3>2. CASE pc \in {"asof", "page"}
      <4>1. pc \notin {"coverage", "start"}
        BY <3>2
      <4>2. Judged \subseteq SourceViews
        BY <3>2, <4>1, Zenon DEF Judged
      <4> QED
        BY <4>2, SourcesShape
    <3>3. CASE pc \notin {"coverage", "start"} /\ pc \notin {"asof", "page"}
      <4>1. Judged = {}
        BY <3>3, Zenon DEF Judged
      <4> QED
        BY <4>1
    <3> QED
      BY <3>1, <3>2, <3>3
  <2>4. CASE w = v
    <3>1. began \in Nat /\ began <= now
      <4>1. pc \notin {"idle", "more"}
        <5> SUFFICES ASSUME pc \in {"idle", "more"} PROVE FALSE
          OBVIOUS
        <5>1. pc \notin {"coverage", "start"} /\ pc \notin {"asof", "page"}
          OBVIOUS
        <5>2. Judged = {}
          BY <5>1, Zenon DEF Judged
        <5> QED
          BY <5>2
      <4> QED
        BY <4>1 DEF IndInv, TypeOK, Working
    <3> QED
      BY <1>1, <1>2, <1>4, <2>1, <2>4, <3>1 DEF Lately
  <2>5. CASE w # v
    BY <1>4, <2>1, <2>3, <2>5 DEF IndInv, JudgedLately, Lately
  <2> QED
    BY <2>4, <2>5
<1> QED
  BY <1>6, <1>7, <1>8, <1>9, <1>10, <1>11 DEF IndInv

\* Time passes: the cache drops what it no longer may answer with.
LEMMA TickInv ==
    ASSUME IndInv, Tick
    PROVE  IndInv'
<1>1. Sources' = Sources /\ SourceViews' = SourceViews
  BY SameSources DEF Tick
<1>2. now \in Nat /\ now' = now + 1 /\ MaxRequest \in Nat /\ began \in Nat /\ StartTTL \in Nat
  BY SyncAssumption DEF Tick, IndInv, TypeOK, SyncAssumption
<1>3. ASSUME NEW v \in Views
      PROVE  startCache'[v] # Cold => startCache'[v] = startCache[v] /\ startCache[v].until > now'
  BY DEF Tick
<1>4. TypeOK'
  <2>1. startCache' \in [Views -> [val : Nat \cup {None}, until : Nat] \cup {Cold}]
    BY DEF Tick, IndInv, TypeOK
  <2> QED
    BY <1>1, <1>2, <2>1 DEF Tick, IndInv, TypeOK, world, request, client
<1>5. Working'
  <2>1. pc \notin {"idle", "more"} => began <= now /\ now < began + MaxRequest
    BY DEF Tick, IndInv, Working
  <2>2. pc \notin {"idle", "more"} => began <= now + 1 /\ now + 1 <= began + MaxRequest
    BY <1>2, <2>1
  <2> QED
    BY <1>1, <1>2, <2>2 DEF Tick, IndInv, Working, request
<1>6. LogsSeeded'
  <2>1. \A v \in Views : created[v] # None => created[v] <= now + 1
    BY <1>2 DEF IndInv, TypeOK, LogsSeeded
  <2> QED
    BY <1>2, <2>1 DEF Tick, IndInv, LogsSeeded, Unstamped, world
<1>7. AnswerKnown'
  BY DEF Tick, IndInv, AnswerKnown, request, world
<1>8. CacheKnown'
  <2> SUFFICES ASSUME NEW v \in Views, startCache'[v] # Cold
               PROVE  /\ now' < startCache'[v].until /\ startCache'[v].until <= now' + StartTTL
                      /\ startCache'[v].val # None =>
                            /\ created[v] # None
                            /\ \/ created[v] <= startCache'[v].val
                               \/ startCache'[v].until < created[v] + StartTTL + MaxRequest + Second
    BY DEF CacheKnown, StartCached, Tick, world
  <2>1. startCache'[v] = startCache[v] /\ startCache[v].until > now' /\ StartCached(v)
    BY <1>3 DEF StartCached
  <2>2. startCache[v].until \in Nat
    BY <2>1 DEF IndInv, TypeOK, StartCached
  <2>3. /\ startCache[v].until <= now + StartTTL
        /\ startCache[v].val # None =>
              /\ created[v] # None
              /\ \/ created[v] <= startCache[v].val
                 \/ startCache[v].until < created[v] + StartTTL + MaxRequest + Second
    BY <2>1 DEF IndInv, CacheKnown
  <2> QED
    BY <1>2, <2>1, <2>2, <2>3
<1>9. JudgedLately'
  <2>1. pc' = pc /\ todo' = todo /\ since' = since /\ began' = began /\ created' = created
    BY DEF Tick, request, world
  <2>2. Judged' = Judged
    BY <1>1, <2>1, Zenon DEF Judged
  <2> QED
    BY <2>1, <2>2 DEF IndInv, JudgedLately, Lately
<1> QED
  BY <1>4, <1>5, <1>6, <1>7, <1>8, <1>9 DEF IndInv

-----------------------------------------------------------------------------
(* Theorems                                                                *)

\* A deployment starts with its logs not created, or seeded at once.
LEMMA InitInv ==
    ASSUME Init
    PROVE  IndInv
<1>1. UtcTimestamp(0) = 0
  BY Utc
<1>2. Blank \in [Records -> Bodies \cup {None, Unsent}]
  BY DEF Blank
<1>3. mv \in [Rows -> Values \cup {Absent}]
  BY DEF Init
<1>4. /\ log \in [Rows -> [val : Values \cup {Absent}, on : Nat] \cup {None}]
      /\ finished \in [Views -> Nat \cup {None}] /\ created \in [Views -> Nat \cup {None}]
  BY <1>1, <1>3 DEF Init, Entry
<1>5. TypeOK
  BY <1>2, <1>3, <1>4 DEF Init, TypeOK
<1>6. LogsSeeded
  <2>1. CASE created = [v \in Views |-> None] /\ log = [p \in Rows |-> None]
    BY <2>1 DEF LogsSeeded
  <2>2. CASE /\ log = [p \in Rows |-> IF mv[p] = Absent THEN None ELSE Entry(mv[p], now)]
             /\ finished = [v \in Views |-> 0] /\ created = [v \in Views |-> 0]
    <3>1. 0 # None /\ now = 0
      BY SyncAssumption DEF SyncAssumption, Init
    <3>2. \A p \in Rows : log[p] # None => log[p].on = 0
      BY <1>1, <2>2, <3>1 DEF Entry
    <3> QED
      BY <1>1, <2>2, <3>1, <3>2, RowsOfView DEF LogsSeeded
  <2> QED
    BY <2>1, <2>2 DEF Init
<1>7. Judged = {}
  <2>1. pc = "idle"
    BY DEF Init
  <2>2. pc \notin {"coverage", "start"} /\ pc \notin {"asof", "page"}
    BY <2>1
  <2> QED
    BY <2>2, Zenon DEF Judged
<1>8. Working /\ AnswerKnown /\ CacheKnown /\ JudgedLately
  BY <1>7 DEF Init, Working, AnswerKnown, CacheKnown, StartCached, JudgedLately
<1> QED
  BY <1>5, <1>6, <1>8 DEF IndInv

\* The inductive invariant holds in every behaviour of service, warehouse and
\* client.
THEOREM IndInvHolds == Spec => []IndInv
<1>1. Init => IndInv
  BY InitInv
<1>2. IndInv /\ [Next]_vars => IndInv'
  <2> SUFFICES ASSUME IndInv, [Next]_vars PROVE IndInv'
    OBVIOUS
  <2>1. CASE StartSync \/ MorePages
    BY <2>1, SyncInv
  <2>2. CASE CoverageHit
    BY <2>2, CoverageHitInv
  <2>3. CASE CoverageQuery
    BY <2>3, CoverageQueryInv
  <2>4. CASE CoverageStore
    BY <2>4, CoverageStoreInv
  <2>5. CASE ReadAsOf
    BY <2>5, ReadAsOfInv
  <2>6. CASE FetchPage
    BY <2>6, FetchPageInv
  <2>7. CASE Respond
    BY <2>7, RespondInv
  <2>8. CASE Fail
    BY <2>8, FailInv
  <2>9. ASSUME NEW v \in Views, Refresh(v) \/ Stamp(v) \/ Rebuild(v) \/ Purge(v)
        PROVE  IndInv'
    BY <2>9, RefreshInv, StampInv, RebuildInv, PurgeInv
  <2>10. CASE Tick
    BY <2>10, TickInv
  <2>11. CASE UNCHANGED vars
    <3>1. UNCHANGED <<collection, now, created, foreign, failures, caches, request, client>>
          /\ UNCHANGED <<mv, log, finished, refreshes, rebuilds>>
      BY <2>11 DEF vars, world
    <3>2. LogsSeeded'
      BY <3>1 DEF IndInv, LogsSeeded, Unstamped
    <3>3. /\ refreshes' \in Nat /\ rebuilds' \in Nat /\ mv' \in [Rows -> Values \cup {Absent}]
          /\ log' \in [Rows -> [val : Values \cup {Absent}, on : Nat] \cup {None}]
          /\ finished' \in [Views -> Nat \cup {None}]
      BY <3>1 DEF IndInv, TypeOK
    <3> QED
      BY <3>1, <3>2, <3>3, WarehouseInv
  <2> QED
    BY <2>1, <2>2, <2>3, <2>4, <2>5, <2>6, <2>7, <2>8, <2>9, <2>10, <2>11
    DEF Next, RequestStep
<1> QED
  BY <1>1, <1>2, PTL DEF Spec

\* Every variable keeps its type: as_of, cursors and stamps are times or
\* unknown, bodies are made of rows the views can hold.
THEOREM TypeCorrect == Spec => []TypeOK
<1>1. IndInv => TypeOK
  BY DEF IndInv
<1> QED
  BY <1>1, IndInvHolds, PTL

\* _log_start_cache: a log that was recreated serves an older cursor for less
\* than the cached start's lifetime, two requests and the stamp's rounding,
\* whatever those are and however the log's recreation falls between the
\* query of its start, the cache and the page.
THEOREM OldStartsPass == Spec => StaleStartBounded
<1>1. IndInv /\ [Next]_vars =>
         [pc = "page" /\ pc' = "count" /\ since # None =>
             \A v \in SourceViews :
                created[v] <= since \/ now - created[v] < StartTTL + 2 * MaxRequest + Second - 1]_vars
  <2> SUFFICES ASSUME IndInv, pc = "page", since # None, NEW v \in SourceViews
               PROVE  created[v] <= since
                      \/ now - created[v] < StartTTL + 2 * MaxRequest + Second - 1
    OBVIOUS
  <2>1. pc \notin {"coverage", "start"} /\ pc \in {"asof", "page"}
    OBVIOUS
  <2>2. Judged = SourceViews
    BY <2>1, Zenon DEF Judged
  <2>3. Lately(v) /\ created[v] \in Nat
    BY <2>2, SourcesShape DEF IndInv, JudgedLately, TypeOK, Lately
  <2>4. began \in Nat /\ now \in Nat /\ now <= began + MaxRequest
    BY DEF IndInv, TypeOK, Working
  <2>5. StartTTL \in Nat /\ MaxRequest \in Nat /\ Second \in Nat
    BY SyncAssumption DEF SyncAssumption
  <2> QED
    BY <2>3, <2>4, <2>5 DEF Lately
<1> QED
  BY <1>1, IndInvHolds, PTL DEF Spec, StaleStartBounded
-----------------------------------------------------------------------------
(* What as_of means                                                        *)

\* A time that claims no more than the views have.
Legit(t) == t = None \/ \A v \in SourceViews : finished[v] # None /\ t <= finished[v]

\* The sources whose as_of the request has read.
Labelled ==
    IF pc = "asof" /\ todo # Sources THEN {Head(Sources)}
    ELSE IF pc \in {"page", "count"} THEN SourceViews ELSE {}

FinishedPast == \A v \in Views : finished[v] # None => finished[v] <= now

CacheNotAhead ==
    \A v \in Views : asOfCache[v] \notin {Cold, None} =>
        finished[v] # None /\ asOfCache[v] <= finished[v]

LabelsNotAhead ==
    \A v \in Labelled : \E t \in labels : t = None \/ (finished[v] # None /\ t <= finished[v])

CursorNotAhead == Legit(cursor) /\ (offset > 0 => Legit(firstAsOf))

\* A sync keeps the cursor it began with, which was young enough then.
SinceIsCursor ==
    /\ pc # "idle" => since = cursor
    /\ pc \notin {"idle", "more"} /\ since # None => began <= since + Retention
    /\ pc = "idle" => since = None /\ offset = 0 /\ got = Blank

TimesLegit ==
    /\ FinishedPast
    /\ CacheNotAhead
    /\ LabelsNotAhead
    /\ CursorNotAhead
    /\ SinceIsCursor

\* The kinds of step.  The world goes on ...
WorldStep ==
    \/ \E v \in Views : Refresh(v) \/ Stamp(v) \/ Rebuild(v) \/ Purge(v)
    \/ Tick
    \/ UNCHANGED <<collection, now, world>>

Elsewhere == WorldStep /\ UNCHANGED <<asOfCache, request, client>>

\* ... or a sync is given up, a request arrives, or it passes a log's check.
Abandons == Drop /\ cursor' \in {cursor, None} /\ UNCHANGED <<asOfCache, held, taint>>

Arrives ==
    /\ \/ pc = "idle" /\ since' = cursor /\ offset' = 0 /\ got' = Blank
       \/ pc = "more" /\ UNCHANGED <<since, offset, got>>
    /\ pc' \in {"asof", "coverage"} /\ todo' = Sources /\ labels' = {} /\ began' = now
    /\ since' # None => since' >= now - Retention
    /\ UNCHANGED <<asOfCache, held, cursor, firstAsOf, listing, flaws, taint>>

Passes ==
    /\ pc \in {"coverage", "start"}
    /\ pc' \in {"coverage", "start"} \/ (pc' = "asof" /\ todo' = Sources)
    /\ UNCHANGED <<asOfCache, since, began, labels, offset, client>>

\* Every step is of one kind.
LEMMA Kinds ==
    ASSUME IndInv, [Next]_vars
    PROVE  \/ Elsewhere
           \/ /\ UNCHANGED <<collection, now, world>>
              /\ Abandons \/ Arrives \/ Passes \/ ReadAsOf \/ FetchPage \/ Respond
<1>1. ASSUME NEW from, NEW skip, NEW sofar, Arrive(from, skip, sofar),
             UNCHANGED <<collection, now, world, failures, caches>>,
             \/ pc = "idle" /\ from = cursor /\ skip = 0 /\ sofar = Blank
             \/ pc = "more" /\ from = since /\ skip = offset /\ sofar = got
      PROVE  Abandons \/ Arrives
  <2>1. CASE Refuse
    BY <1>1, <2>1 DEF Refuse, Abandons, caches
  <2>2. CASE ~Refuse
    BY <1>1, <2>2 DEF Arrive, Arrives, WithinRetention, caches
  <2> QED
    BY <2>1, <2>2
<1>2. CASE StartSync
  BY <1>1, <1>2 DEF StartSync
<1>3. CASE MorePages
  BY <1>1, <1>3 DEF MorePages
<1>4. ASSUME NEW start, Judge(start), pc \in {"coverage", "start"}, UNCHANGED asOfCache
      PROVE  Abandons \/ Passes
  BY <1>4 DEF Judge, Refuse, Abandons, Passes
<1>5. CASE CoverageHit
  BY <1>4, <1>5 DEF CoverageHit, caches
<1>6. CASE CoverageStore
  BY <1>4, <1>6 DEF CoverageStore
<1>7. CASE CoverageQuery
  BY <1>7 DEF CoverageQuery, Passes, caches
<1>8. CASE ReadAsOf \/ FetchPage \/ Respond
  BY <1>8 DEF ReadAsOf, FetchPage, Respond
<1>9. CASE Fail
  BY <1>9 DEF Fail, Abandons, caches
<1>10. CASE \E v \in Views : Refresh(v) \/ Stamp(v) \/ Rebuild(v) \/ Purge(v)
  BY <1>10 DEF Elsewhere, WorldStep, Refresh, Stamp, Rebuild, Purge, caches
<1>11. CASE Tick
  BY <1>11 DEF Elsewhere, WorldStep, Tick
<1>12. CASE UNCHANGED vars
  BY <1>12 DEF Elsewhere, WorldStep, vars, caches
<1> QED
  BY <1>2, <1>3, <1>5, <1>6, <1>7, <1>8, <1>9, <1>10, <1>11, <1>12 DEF Next, RequestStep

\* Refreshes end one after the other.
LEMMA TimeGoesOn ==
    ASSUME IndInv, FinishedPast, WorldStep
    PROVE  /\ collection' = collection /\ now' \in Nat /\ now <= now'
           /\ \A v \in Views : finished[v] # None =>
                 finished'[v] # None /\ finished[v] <= finished'[v] /\ finished'[v] \in Nat
           /\ FinishedPast'
<1>1. now \in Nat /\ finished \in [Views -> Nat \cup {None}] /\ None \notin Nat
  BY SyncAssumption DEF IndInv, TypeOK, SyncAssumption
<1>2. CASE UNCHANGED <<collection, now, finished>>
  BY <1>1, <1>2 DEF FinishedPast
<1>3. CASE Tick
  <2>1. UNCHANGED <<collection, finished>> /\ now' = now + 1
    BY <1>3 DEF Tick, world
  <2> QED
    BY <1>1, <2>1 DEF FinishedPast
<1>4. CASE \E v \in Views : Refresh(v)
  <2>1. PICK v \in Views : Refresh(v)
    BY <1>4
  <2>2. UNCHANGED <<collection, now>> /\ finished' = [finished EXCEPT ![v] = now]
    BY <2>1 DEF Refresh
  <2> QED
    BY <1>1, <2>2 DEF FinishedPast
<1> QED
  BY <1>2, <1>3, <1>4 DEF WorldStep, Stamp, Rebuild, Purge, world

\* as_of is not ahead of any source of the response.
LEMMA AsOfLegit ==
    ASSUME IndInv, LabelsNotAhead, pc \in {"page", "count"}
    PROVE  AsOf \in Nat \cup {None} /\ Legit(AsOf)
<1>1. labels # {} /\ labels \subseteq Nat \cup {None} /\ AsOf \in Nat \cup {None}
  BY AsOfType DEF IndInv, TypeOK, Working
<1>2. CASE None \in labels
  BY <1>1, <1>2 DEF AsOf, Legit
<1>3. CASE None \notin labels
  <2>1. AsOf \in labels /\ \A t \in labels : AsOf <= t
    BY <1>1, <1>3, MinimumExists DEF AsOf
  <2>2. ASSUME NEW v \in SourceViews PROVE finished[v] # None /\ AsOf <= finished[v]
    <3>1. Labelled = SourceViews
      BY DEF Labelled
    <3>2. PICK t \in labels : finished[v] # None /\ t <= finished[v]
      BY <1>3, <3>1 DEF LabelsNotAhead
    <3>3. t \in Nat /\ AsOf \in Nat /\ finished[v] \in Nat
      BY <1>1, <1>3, <2>1, <3>2, SourcesShape DEF IndInv, TypeOK
    <3> QED
      BY <2>1, <3>2, <3>3
  <2> QED
    BY <1>1, <2>2 DEF Legit
<1> QED
  BY <1>1, <1>2, <1>3

\* While the world goes on, what was legitimate stays so.
LEMMA ElsewhereTimes ==
    ASSUME IndInv, TimesLegit, Elsewhere
    PROVE  TimesLegit'
<1>1. /\ collection' = collection
      /\ \A v \in Views : finished[v] # None =>
            finished'[v] # None /\ finished[v] <= finished'[v] /\ finished'[v] \in Nat
      /\ FinishedPast'
  BY TimeGoesOn DEF TimesLegit, Elsewhere
<1>2. Sources' = Sources /\ SourceViews' = SourceViews /\ SourceViews \subseteq Views
  BY <1>1, SameSources, SourcesShape
<1>3. ASSUME NEW t \in Nat \cup {None}, Legit(t)
      PROVE  t = None \/ \A v \in SourceViews : finished'[v] # None /\ t <= finished'[v]
  <2> SUFFICES ASSUME t # None, NEW v \in SourceViews
               PROVE  finished'[v] # None /\ t <= finished'[v]
    OBVIOUS
  <2>1. finished[v] # None /\ t <= finished[v] /\ finished[v] \in Nat /\ t \in Nat
    BY <1>2, <1>3 DEF Legit, IndInv, TypeOK
  <2> QED
    BY <1>1, <1>2, <2>1
<1>4. CacheNotAhead'
  <2> SUFFICES ASSUME NEW v \in Views, asOfCache[v] \notin {Cold, None}
               PROVE  finished'[v] # None /\ asOfCache[v] <= finished'[v]
    BY DEF CacheNotAhead, Elsewhere
  <2>1. /\ finished[v] # None /\ asOfCache[v] <= finished[v]
        /\ finished[v] \in Nat /\ asOfCache[v] \in Nat
    BY DEF TimesLegit, CacheNotAhead, IndInv, TypeOK
  <2> QED
    BY <1>1, <2>1
<1>5. LabelsNotAhead'
  <2>1. Labelled' = Labelled /\ labels' = labels /\ Labelled \subseteq Views
    BY <1>2, SourcesShape DEF Labelled, Elsewhere, request
  <2> SUFFICES ASSUME NEW v \in Labelled
               PROVE  \E t \in labels : t = None \/ (finished'[v] # None /\ t <= finished'[v])
    BY <2>1 DEF LabelsNotAhead
  <2>2. PICK t \in labels : t = None \/ (finished[v] # None /\ t <= finished[v])
    BY DEF TimesLegit, LabelsNotAhead
  <2>3. CASE t # None
    <3>1. t \in Nat /\ finished[v] \in Nat /\ v \in Views
      BY <2>1, <2>2, <2>3 DEF IndInv, TypeOK
    <3> QED
      BY <1>1, <2>2, <2>3, <3>1
  <2> QED
    BY <2>2, <2>3
<1>6. CursorNotAhead'
  <2>1. cursor \in Nat \cup {None} /\ firstAsOf \in Nat \cup {None}
    BY DEF IndInv, TypeOK
  <2>2. UNCHANGED <<cursor, firstAsOf, offset>>
    BY DEF Elsewhere, request, client
  <2> QED
    BY <1>2, <1>3, <2>1, <2>2 DEF TimesLegit, CursorNotAhead, Legit
<1>7. SinceIsCursor'
  BY DEF TimesLegit, SinceIsCursor, Elsewhere, request, client, Blank
<1> QED
  BY <1>1, <1>4, <1>5, <1>6, <1>7 DEF TimesLegit

\* A request claims no more than it has read.
LEMMA RequestTimes ==
    ASSUME IndInv, TimesLegit, UNCHANGED <<collection, now, world>>,
           Abandons \/ Arrives \/ Passes \/ ReadAsOf \/ FetchPage \/ Respond
    PROVE  TimesLegit'
<1>1. Sources' = Sources /\ SourceViews' = SourceViews /\ finished' = finished
  BY SameSources DEF world
<1>2. FinishedPast'
  BY <1>1 DEF TimesLegit, FinishedPast
<1>3. /\ Legit(cursor) /\ (offset > 0 => Legit(firstAsOf)) /\ LabelsNotAhead
      /\ pc = "count" => Legit(AsOf)
  BY AsOfLegit DEF TimesLegit, CursorNotAhead
<1>4. CASE ReadAsOf
  <2> DEFINE v == Head(todo)
  <2>1. todo \in {Sources, Tail(Sources)} \ {<<>>} /\ v \in Views /\ pc = "asof"
    BY <1>4, SourcesShape DEF ReadAsOf, IndInv, Working
  <2>2. /\ labels \subseteq labels' /\ CacheNotAhead'
        /\ \E t \in labels' : t = None \/ (finished[v] # None /\ t <= finished[v])
    <3>1. finished[v] \in Nat \cup {None} /\ asOfCache[v] \in Nat \cup {None, Cold}
      BY <2>1 DEF IndInv, TypeOK
    <3>2. CASE asOfCache[v] # Cold /\ labels' = labels \cup {asOfCache[v]} /\ UNCHANGED asOfCache
      BY <1>1, <2>1, <3>1, <3>2 DEF TimesLegit, CacheNotAhead
    <3>3. CASE labels' = labels \cup {finished[v]}
               /\ asOfCache' = [asOfCache EXCEPT ![v] = finished[v]]
      <4>1. CacheNotAhead'
        <5> SUFFICES ASSUME NEW w \in Views, asOfCache'[w] \notin {Cold, None}
                     PROVE  finished[w] # None /\ asOfCache'[w] <= finished[w]
          BY <1>1 DEF CacheNotAhead
        <5>1. CASE w = v
          BY <2>1, <3>1, <3>3, <5>1 DEF IndInv, TypeOK
        <5>2. CASE w # v
          BY <3>3, <5>2 DEF TimesLegit, CacheNotAhead, IndInv, TypeOK
        <5> QED
          BY <5>1, <5>2
      <4>2. finished[v] = None \/ (finished[v] # None /\ finished[v] <= finished[v])
        BY <3>1
      <4> QED
        BY <3>3, <4>1, <4>2
    <3> QED
      BY <1>4, <3>2, <3>3 DEF ReadAsOf
  <2>3. Labelled' \subseteq Labelled \cup {v}
    <3>1. todo' = Tail(todo) /\ pc' = IF Tail(todo) = <<>> THEN "page" ELSE "asof"
      BY <1>4 DEF ReadAsOf
    <3>2. Labelled = IF todo # Sources THEN {Head(Sources)} ELSE {}
      BY <2>1 DEF Labelled
    <3>3. CASE Tail(todo) = <<>>
      <4>1. SourceViews \subseteq Labelled \cup {v}
        BY <2>1, <3>2, <3>3, SourcesShape
      <4> QED
        BY <1>1, <3>1, <3>3, <4>1 DEF Labelled
    <3>4. CASE Tail(todo) # <<>>
      <4>1. todo = Sources
        BY <2>1, <3>4, SourcesShape
      <4> QED
        BY <1>1, <3>1, <3>4, <4>1 DEF Labelled
    <3> QED
      BY <3>3, <3>4
  <2>4. LabelsNotAhead'
    BY <1>1, <1>3, <2>2, <2>3 DEF LabelsNotAhead
  <2>5. CursorNotAhead' /\ SinceIsCursor'
    BY <1>1, <1>4 DEF ReadAsOf, TimesLegit, CursorNotAhead, SinceIsCursor, Legit, client
  <2> QED
    BY <1>2, <2>2, <2>4, <2>5 DEF TimesLegit
<1>5. CASE FetchPage
  <2>1. /\ pc = "page" /\ pc' = "count"
        /\ UNCHANGED <<asOfCache, labels, cursor, firstAsOf, offset, since, began>>
    BY <1>5 DEF FetchPage, caches
  <2>2. Labelled' = Labelled
    BY <1>1, <2>1 DEF Labelled
  <2> QED
    BY <1>1, <1>2, <2>1, <2>2 DEF TimesLegit, CacheNotAhead, LabelsNotAhead, CursorNotAhead,
       SinceIsCursor, Legit
<1>6. CASE Abandons \/ Arrives \/ Passes \/ Respond
  <2>1. CacheNotAhead'
    BY <1>1, <1>6 DEF TimesLegit, CacheNotAhead, Abandons, Arrives, Passes, Respond, caches
  <2>2. LabelsNotAhead'
    <3>1. pc' \notin {"page", "count"} /\ (pc' = "asof" => todo' = Sources)
      BY <1>6 DEF Abandons, Arrives, Passes, Respond, Drop, Apply
    <3>2. Labelled' = {}
      BY <1>1, <3>1 DEF Labelled
    <3> QED
      BY <3>2 DEF LabelsNotAhead
  <2>3. CursorNotAhead'
    <3>1. CASE Abandons
      BY <1>1, <1>3, <3>1 DEF Abandons, Drop, CursorNotAhead, Legit
    <3>2. CASE Arrives
      BY <1>1, <1>3, <3>2 DEF Arrives, CursorNotAhead, Legit
    <3>3. CASE Passes
      BY <1>1, <1>3, <3>3 DEF Passes, CursorNotAhead, Legit, client
    <3>4. CASE Respond
      <4>1. pc = "count"
        BY <3>4 DEF Respond
      <4>2. \/ cursor' = AsOf /\ offset' = 0
            \/ cursor' = cursor /\ offset' = 0
            \/ cursor' = cursor /\ firstAsOf' = AsOf
        BY <3>4 DEF Respond, Apply, Drop
      <4> QED
        BY <1>1, <1>3, <4>1, <4>2 DEF CursorNotAhead, Legit
    <3> QED
      BY <1>6, <3>1, <3>2, <3>3, <3>4
  <2>4. SinceIsCursor'
    <3>1. now \in Nat /\ Retention \in Nat /\ since \in Nat \cup {None} /\ cursor \in Nat \cup {None}
      BY SyncAssumption DEF SyncAssumption, IndInv, TypeOK
    <3>2. CASE Abandons
      BY <3>2 DEF Abandons, Drop, SinceIsCursor, Blank
    <3>3. CASE Arrives
      <4>1. since' = cursor /\ cursor' = cursor /\ began' = now
        BY <3>3 DEF Arrives, TimesLegit, SinceIsCursor
      <4>2. since' # None => now <= since' + Retention
        BY <3>1, <3>3, <4>1 DEF Arrives
      <4> QED
        BY <3>3, <4>1, <4>2 DEF Arrives, SinceIsCursor
    <3>4. CASE Passes
      BY <3>4 DEF Passes, TimesLegit, SinceIsCursor, client
    <3>5. CASE Respond
      BY <3>5 DEF Respond, Apply, Drop, TimesLegit, SinceIsCursor, Blank
    <3> QED
      BY <1>6, <3>2, <3>3, <3>4, <3>5
  <2> QED
    BY <1>2, <2>1, <2>2, <2>3, <2>4 DEF TimesLegit
<1> QED
  BY <1>4, <1>5, <1>6
-----------------------------------------------------------------------------
(* What the stamps mean                                                    *)

Identity(v, p) == IF v = "learner" THEN LearnerId[p] ELSE EnrollmentId[p]
Twins(v, p, q) == p # q /\ Identity(v, p) = Identity(v, q)

\* An identity has one live row in a view ...
OneLive ==
    \A v \in Views : \A p, q \in RowsOf(v) : Twins(v, p, q) => mv[p] = Absent \/ mv[q] = Absent

\* ... and in its log, stamped no earlier than the rows it replaced.
OneLogged ==
    \A v \in Views : \A p, q \in RowsOf(v) :
        Twins(v, p, q) /\ log[p] # None /\ log[q] # None /\ log[q].val # Absent =>
            log[p].val = Absent /\ log[p].on <= log[q].on

StampsPast == \A p \in Rows : log[p] # None => log[p].on <= UtcTimestamp(now)

\* Nothing is stamped later than the refresh that is yet to be stamped.
StampsInOrder ==
    \A v \in Views : \A p, q \in RowsOf(v) :
        created[v] # None /\ Unstamped(p) /\ log[q] # None => log[q].on <= UtcTimestamp(finished[v])

LogsOrdered ==
    /\ OneLive
    /\ OneLogged
    /\ StampsPast
    /\ StampsInOrder

\* A refresh moves a re-keyed row at once.
LEMMA RefreshOrdered ==
    ASSUME IndInv, LogsOrdered, NEW v \in Views, Refresh(v)
    PROVE  LogsOrdered'
<1>1. PICK f \in Contents(v) : mv' = [p \in Rows |-> IF p \in RowsOf(v) THEN f[p] ELSE mv[p]]
  BY DEF Refresh
<1>2. UNCHANGED <<now, log, created>> /\ finished' = [finished EXCEPT ![v] = now]
  BY DEF Refresh
<1>3. OneLive'
  <2> SUFFICES ASSUME NEW w \in Views, NEW p \in RowsOf(w), NEW q \in RowsOf(w), Twins(w, p, q)
               PROVE  mv'[p] = Absent \/ mv'[q] = Absent
    BY DEF OneLive, Twins, Identity
  <2>1. p \in Rows /\ q \in Rows /\ ViewOf(p) = w /\ ViewOf(q) = w
    BY RowsOfView
  <2>2. CASE w = v
    <3>1. mv'[p] = f[p] /\ mv'[q] = f[q]
      BY <1>1, <2>1, <2>2
    <3> QED
      BY <2>2, <3>1 DEF Contents, Twins, Identity
  <2>3. CASE w # v
    <3>1. p \notin RowsOf(v) /\ q \notin RowsOf(v)
      BY <2>1, <2>3, RowsOfView
    <3>2. mv'[p] = mv[p] /\ mv'[q] = mv[q]
      BY <1>1, <2>1, <3>1
    <3> QED
      BY <3>2 DEF LogsOrdered, OneLive
  <2> QED
    BY <2>2, <2>3
<1>4. OneLogged' /\ StampsPast'
  BY <1>2 DEF LogsOrdered, OneLogged, StampsPast, Twins, Identity
<1>5. StampsInOrder'
  <2> SUFFICES ASSUME NEW w \in Views, NEW p \in RowsOf(w), NEW q \in RowsOf(w),
                      created[w] # None, Unstamped(p)', log[q] # None
               PROVE  log[q].on <= UtcTimestamp(finished'[w])
    BY <1>2 DEF StampsInOrder
  <2>1. p \in Rows /\ q \in Rows /\ ViewOf(p) = w
    BY RowsOfView
  <2>2. CASE w = v
    <3>1. finished'[w] = now
      BY <1>2, <2>2 DEF IndInv, TypeOK
    <3> QED
      BY <2>1, <3>1 DEF LogsOrdered, StampsPast
  <2>3. CASE w # v
    <3>1. p \notin RowsOf(v)
      BY <2>1, <2>3, RowsOfView
    <3>2. mv'[p] = mv[p] /\ finished'[w] = finished[w]
      BY <1>1, <1>2, <2>1, <2>3, <3>1 DEF IndInv, TypeOK
    <3>3. Unstamped(p)
      BY <1>2, <3>2 DEF Unstamped
    <3> QED
      BY <3>2, <3>3 DEF LogsOrdered, StampsInOrder
  <2> QED
    BY <2>2, <2>3
<1> QED
  BY <1>3, <1>4, <1>5 DEF LogsOrdered

\* What a stamp does to each row, and when: not before the refresh it is for.
LEMMA StampEffect ==
    ASSUME IndInv, FinishedPast, LogsOrdered, NEW v \in Views, Stamp(v)
    PROVE  \E on \in Nat :
              /\ UtcTimestamp(finished[v]) <= on /\ on <= UtcTimestamp(now)
              /\ finished[v] \in Nat
              /\ \A q \in RowsOf(v) : log[q] # None => log[q].on <= on
              /\ log' = [p \in Rows |-> IF p \in RowsOf(v) /\ Unstamped(p)
                                        THEN [val |-> mv[p], on |-> on] ELSE log[p]]
<1>1. PICK time \in {finished[v], now} :
         log' = [p \in Rows |-> IF p \in RowsOf(v) /\ Unstamped(p) THEN Entry(mv[p], time)
                                ELSE log[p]]
  BY DEF Stamp
<1>2. PICK p \in RowsOf(v) : Unstamped(p)
  BY DEF Stamp
<1>3. created[v] # None /\ finished[v] # None
  BY <1>2 DEF Stamp, IndInv, LogsSeeded
<1>4. finished[v] \in Nat /\ now \in Nat /\ finished[v] <= now /\ time \in Nat
  BY <1>3 DEF FinishedPast, IndInv, TypeOK
<1>5. /\ UtcTimestamp(finished[v]) <= UtcTimestamp(now) /\ UtcTimestamp(time) \in Nat
      /\ UtcTimestamp(finished[v]) \in Nat /\ UtcTimestamp(now) \in Nat
  <2>1. UtcTimestamp(finished[v]) <= now
    BY <1>4, Utc
  <2> QED
    BY <1>4, <2>1, Utc, UtcMonotone
<1>6. UtcTimestamp(finished[v]) <= UtcTimestamp(time) /\ UtcTimestamp(time) <= UtcTimestamp(now)
  BY <1>5
<1>7. ASSUME NEW q \in RowsOf(v), log[q] # None PROVE log[q].on <= UtcTimestamp(time)
  <2>1. log[q].on <= UtcTimestamp(finished[v])
    BY <1>2, <1>3, <1>7 DEF LogsOrdered, StampsInOrder
  <2>2. log[q].on \in Nat
    BY <1>7, RowsOfView DEF IndInv, TypeOK
  <2> QED
    BY <1>5, <1>6, <2>1, <2>2
<1>8. log' = [q \in Rows |-> IF q \in RowsOf(v) /\ Unstamped(q)
                             THEN [val |-> mv[q], on |-> UtcTimestamp(time)] ELSE log[q]]
  BY <1>1 DEF Entry
<1> QED
  BY <1>4, <1>5, <1>6, <1>7, <1>8

\* A stamp is the latest of its log.
LEMMA StampOrdered ==
    ASSUME IndInv, FinishedPast, LogsOrdered, NEW v \in Views, Stamp(v)
    PROVE  LogsOrdered'
<1>1. PICK on \in Nat :
         /\ UtcTimestamp(finished[v]) <= on /\ on <= UtcTimestamp(now)
         /\ \A q \in RowsOf(v) : log[q] # None => log[q].on <= on
         /\ log' = [p \in Rows |-> IF p \in RowsOf(v) /\ Unstamped(p)
                                   THEN [val |-> mv[p], on |-> on] ELSE log[p]]
  BY StampEffect
<1>2. UNCHANGED <<now, mv, finished, created>>
  BY DEF Stamp
<1>3. ASSUME NEW p \in Rows, ~(p \in RowsOf(v) /\ Unstamped(p)) PROVE log'[p] = log[p]
  BY <1>1, <1>3
<1>4. ASSUME NEW p \in RowsOf(v), Unstamped(p)
      PROVE  log'[p] = [val |-> mv[p], on |-> on]
  BY <1>1, <1>4, RowsOfView
<1>5. OneLive'
  BY <1>2 DEF LogsOrdered, OneLive, Twins, Identity
<1>6. OneLogged'
  <2> SUFFICES ASSUME NEW w \in Views, NEW p \in RowsOf(w), NEW q \in RowsOf(w), Twins(w, p, q),
                      log'[p] # None, log'[q] # None, log'[q].val # Absent
               PROVE  log'[p].val = Absent /\ log'[p].on <= log'[q].on
    BY DEF OneLogged, Twins, Identity
  <2>1. p \in Rows /\ q \in Rows /\ ViewOf(p) = w /\ ViewOf(q) = w
    BY RowsOfView
  <2>2. CASE w # v
    <3>1. p \notin RowsOf(v) /\ q \notin RowsOf(v)
      BY <2>1, <2>2, RowsOfView
    <3>2. log'[p] = log[p] /\ log'[q] = log[q]
      BY <1>3, <2>1, <3>1
    <3> QED
      BY <3>2 DEF LogsOrdered, OneLogged
  <2>3. CASE w = v /\ Unstamped(q)
    <3>1. log'[q].val = mv[q] /\ log'[q].on = on
      <4>1. log'[q] = [val |-> mv[q], on |-> on]
        BY <1>4, <2>3
      <4> QED
        BY <4>1
    <3>2. mv[p] = Absent
      BY <3>1 DEF LogsOrdered, OneLive
    <3>3. CASE Unstamped(p)
      <4>1. log'[p] = [val |-> Absent, on |-> on]
        BY <1>4, <2>3, <3>2, <3>3
      <4> QED
        BY <3>1, <4>1
    <3>4. CASE ~Unstamped(p)
      <4>1. log'[p] = log[p] /\ log[p] # None
        BY <1>3, <2>1, <3>4
      <4> QED
        BY <1>1, <2>3, <3>1, <3>2, <3>4, <4>1 DEF Unstamped
    <3> QED
      BY <3>3, <3>4
  <2>4. CASE w = v /\ ~Unstamped(q)
    <3>1. log'[q] = log[q] /\ log[q] # None /\ mv[q] = log[q].val
      BY <1>3, <2>1, <2>4 DEF Unstamped
    <3>2. mv[p] = Absent
      BY <3>1 DEF LogsOrdered, OneLive
    <3>3. ~Unstamped(p)
      <4> SUFFICES ASSUME Unstamped(p) PROVE FALSE
        OBVIOUS
      <4>1. log[p] # None /\ log[p].val # Absent
        BY <3>2 DEF Unstamped
      <4> QED
        BY <3>1, <4>1 DEF LogsOrdered, OneLogged
    <3>4. log'[p] = log[p]
      BY <1>3, <2>1, <3>3
    <3> QED
      BY <3>1, <3>4 DEF LogsOrdered, OneLogged
  <2> QED
    BY <2>2, <2>3, <2>4
<1>7. StampsPast'
  <2> SUFFICES ASSUME NEW p \in Rows, log'[p] # None PROVE log'[p].on <= UtcTimestamp(now)
    BY <1>2 DEF StampsPast
  <2>1. CASE p \in RowsOf(v) /\ Unstamped(p)
    BY <1>1, <1>4, <2>1
  <2>2. CASE ~(p \in RowsOf(v) /\ Unstamped(p))
    BY <1>3, <2>2 DEF LogsOrdered, StampsPast
  <2> QED
    BY <2>1, <2>2
<1>8. StampsInOrder'
  <2> SUFFICES ASSUME NEW w \in Views, NEW p \in RowsOf(w), NEW q \in RowsOf(w),
                      created[w] # None, Unstamped(p)', log'[q] # None
               PROVE  log'[q].on <= UtcTimestamp(finished[w])
    BY <1>2 DEF StampsInOrder
  <2>1. p \in Rows /\ q \in Rows /\ ViewOf(p) = w /\ ViewOf(q) = w
    BY RowsOfView
  <2>2. Unstamped(p) /\ p \notin RowsOf(v)
    <3>1. CASE p \in RowsOf(v) /\ Unstamped(p)
      <4>1. log'[p] = [val |-> mv[p], on |-> on]
        BY <1>4, <3>1
      <4>2. log'[p].val = mv[p] /\ log'[p] # None
        <5>1. mv[p] \in Values \cup {Absent}
          BY <2>1 DEF IndInv, TypeOK
        <5>2. None \notin [val : Values \cup {Absent}, on : Nat]
          BY SyncAssumption DEF SyncAssumption
        <5> QED
          BY <4>1, <5>1, <5>2
      <4> QED
        BY <1>2, <4>2 DEF Unstamped
    <3>2. CASE ~(p \in RowsOf(v) /\ Unstamped(p))
      <4>1. log'[p] = log[p]
        BY <1>3, <2>1, <3>2
      <4> QED
        BY <1>2, <3>2, <4>1 DEF Unstamped
    <3> QED
      BY <3>1, <3>2
  <2>3. q \notin RowsOf(v)
    BY <2>1, <2>2, RowsOfView
  <2>4. log'[q] = log[q]
    BY <1>3, <2>1, <2>3
  <2> QED
    BY <2>2, <2>4 DEF LogsOrdered, StampsInOrder
<1> QED
  BY <1>5, <1>6, <1>7, <1>8 DEF LogsOrdered

\* A seed has the live rows only, all of one time.
LEMMA RebuildOrdered ==
    ASSUME IndInv, LogsOrdered, NEW v \in Views, Rebuild(v)
    PROVE  LogsOrdered'
<1>1. log' = [p \in Rows |-> IF p \notin RowsOf(v) THEN log[p]
                             ELSE IF mv[p] = Absent THEN None ELSE Entry(mv[p], now)]
  BY DEF Rebuild
<1>2. /\ UNCHANGED <<now, mv, finished>>
      /\ \A w \in Views : w # v => created'[w] = created[w]
  BY DEF Rebuild, IndInv, TypeOK
<1>3. UtcTimestamp(now) \in Nat
  BY Utc DEF IndInv, TypeOK
<1>4. ASSUME NEW p \in RowsOf(v)
      PROVE  /\ mv[p] = Absent <=> log'[p] = None
             /\ log'[p] # None => log'[p].val = mv[p] /\ log'[p].on = UtcTimestamp(now)
  <2>1. p \in Rows /\ mv[p] \in Values \cup {Absent}
    BY RowsOfView DEF IndInv, TypeOK
  <2>2. None \notin [val : Values \cup {Absent}, on : Nat]
    BY SyncAssumption DEF SyncAssumption
  <2>3. log'[p] = IF mv[p] = Absent THEN None ELSE [val |-> mv[p], on |-> UtcTimestamp(now)]
    BY <1>1, <2>1 DEF Entry
  <2>4. [val |-> mv[p], on |-> UtcTimestamp(now)] # None
    BY <1>3, <2>1, <2>2
  <2> QED
    BY <2>3, <2>4
<1>5. ASSUME NEW p \in Rows, p \notin RowsOf(v) PROVE log'[p] = log[p]
  BY <1>1, <1>5
<1>6. OneLive'
  BY <1>2 DEF LogsOrdered, OneLive, Twins, Identity
<1>7. OneLogged'
  <2> SUFFICES ASSUME NEW w \in Views, NEW p \in RowsOf(w), NEW q \in RowsOf(w), Twins(w, p, q),
                      log'[p] # None, log'[q] # None, log'[q].val # Absent
               PROVE  log'[p].val = Absent /\ log'[p].on <= log'[q].on
    BY DEF OneLogged, Twins, Identity
  <2>1. p \in Rows /\ q \in Rows /\ ViewOf(p) = w /\ ViewOf(q) = w
    BY RowsOfView
  <2>2. CASE w # v
    <3>1. p \notin RowsOf(v) /\ q \notin RowsOf(v)
      BY <2>1, <2>2, RowsOfView
    <3> QED
      BY <1>5, <2>1, <3>1 DEF LogsOrdered, OneLogged
  <2>3. CASE w = v
    BY <1>4, <2>3 DEF LogsOrdered, OneLive
  <2> QED
    BY <2>2, <2>3
<1>8. StampsPast'
  <2> SUFFICES ASSUME NEW p \in Rows, log'[p] # None PROVE log'[p].on <= UtcTimestamp(now)
    BY <1>2 DEF StampsPast
  <2>1. CASE p \in RowsOf(v)
    BY <1>3, <1>4, <2>1
  <2>2. CASE p \notin RowsOf(v)
    BY <1>5, <2>2 DEF LogsOrdered, StampsPast
  <2> QED
    BY <2>1, <2>2
<1>9. StampsInOrder'
  <2> SUFFICES ASSUME NEW w \in Views, NEW p \in RowsOf(w), NEW q \in RowsOf(w),
                      created'[w] # None, Unstamped(p)', log'[q] # None
               PROVE  log'[q].on <= UtcTimestamp(finished[w])
    BY <1>2 DEF StampsInOrder
  <2>1. p \in Rows /\ q \in Rows /\ ViewOf(p) = w /\ ViewOf(q) = w
    BY RowsOfView
  <2>2. w # v
    <3> SUFFICES ASSUME w = v PROVE FALSE
      OBVIOUS
    <3> QED
      BY <1>2, <1>4 DEF Unstamped
  <2>3. p \notin RowsOf(v) /\ q \notin RowsOf(v)
    BY <2>1, <2>2, RowsOfView
  <2>4. log'[p] = log[p] /\ log'[q] = log[q] /\ created[w] # None
    BY <1>2, <1>5, <2>1, <2>2, <2>3
  <2>5. Unstamped(p)
    BY <1>2, <2>4 DEF Unstamped
  <2> QED
    BY <2>4, <2>5 DEF LogsOrdered, StampsInOrder
<1> QED
  BY <1>6, <1>7, <1>8, <1>9 DEF LogsOrdered

\* A purge only takes stamps away.
LEMMA PurgeOrdered ==
    ASSUME IndInv, LogsOrdered, NEW v \in Views, Purge(v)
    PROVE  LogsOrdered'
<1> DEFINE old == {p \in Logged(RowsOf(v)) : log[p].val = Absent /\ log[p].on + PurgeAge < now}
<1>1. log' = [p \in Rows |-> IF p \in old THEN None ELSE log[p]]
      /\ UNCHANGED <<now, mv, finished, created>>
  BY DEF Purge
<1>2. ASSUME NEW p \in Rows, log'[p] # None PROVE log'[p] = log[p]
  BY <1>1, <1>2
<1>3. ASSUME NEW p \in Rows, Unstamped(p)' PROVE Unstamped(p)
  <2>1. CASE p \in old
    <3>1. log'[p] = None /\ log[p] # None /\ log[p].val = Absent
      BY <1>1, <2>1 DEF Logged
    <3> QED
      BY <1>1, <1>3, <3>1 DEF Unstamped
  <2>2. CASE p \notin old
    <3>1. log'[p] = log[p]
      BY <1>1, <2>2
    <3> QED
      BY <1>1, <1>3, <3>1 DEF Unstamped
  <2> QED
    BY <2>1, <2>2
<1>4. OneLive' /\ StampsPast'
  BY <1>1, <1>2 DEF LogsOrdered, OneLive, StampsPast, Twins, Identity
<1>5. OneLogged'
  BY <1>2, RowsOfView DEF LogsOrdered, OneLogged, Twins, Identity
<1>6. StampsInOrder'
  BY <1>1, <1>2, <1>3, RowsOfView DEF LogsOrdered, StampsInOrder
<1> QED
  BY <1>4, <1>5, <1>6 DEF LogsOrdered

\* Stamps stay in order whatever the warehouse does.
LEMMA StaysOrdered ==
    ASSUME IndInv, FinishedPast, LogsOrdered, WorldStep
    PROVE  LogsOrdered'
<1>1. ASSUME NEW v \in Views, Refresh(v) \/ Stamp(v) \/ Rebuild(v) \/ Purge(v)
      PROVE  LogsOrdered'
  BY <1>1, RefreshOrdered, StampOrdered, RebuildOrdered, PurgeOrdered
<1>2. CASE Tick
  <2>1. UNCHANGED <<mv, log, finished, created>> /\ now' = now + 1 /\ now \in Nat
    BY <1>2 DEF Tick, world, IndInv, TypeOK
  <2>2. UtcTimestamp(now) <= UtcTimestamp(now') /\ UtcTimestamp(now) \in Nat
        /\ UtcTimestamp(now') \in Nat
    <3>1. UtcTimestamp(now) <= now' /\ now' \in Nat
      BY <2>1, Utc
    <3> QED
      BY <2>1, <3>1, Utc, UtcMonotone
  <2>3. \A p \in Rows : log[p] # None => log[p].on \in Nat
    BY DEF IndInv, TypeOK
  <2>4. StampsPast'
    BY <2>1, <2>2, <2>3 DEF LogsOrdered, StampsPast
  <2> QED
    BY <2>1, <2>4 DEF LogsOrdered, OneLive, OneLogged, StampsInOrder, Unstamped, Twins, Identity
<1>3. CASE UNCHANGED <<collection, now, world>>
  BY <1>3 DEF world, LogsOrdered, OneLive, OneLogged, StampsPast, StampsInOrder, Unstamped, Twins,
     Identity
<1> QED
  BY <1>1, <1>2, <1>3 DEF WorldStep
-----------------------------------------------------------------------------
(* When a copy is right                                                    *)

\* A cursor the service refuses for good: too old even for a request that
\* was let in, or from before a log.
Lapsed(t) ==
    \/ t = None
    \/ t + Retention + MaxRequest < now
    \/ \E v \in SourceViews : created[v] = None \/ t < created[v]

\* A row's change after as_of t is stamped so, or yet to be stamped.
Moved(p, t) == Unstamped(p) \/ (log[p] # None /\ WholeSecond(t) <= log[p].on)

\* The rows whose changes a sync reports the record for.
Decisive(i) == IF LiveRows(i) = {} THEN Built(i) \cap Holds ELSE Built(i)

\* x is the record i, as far as a client with cursor t can know.
Right(x, i, t) == Lapsed(t) \/ x = Body(i) \/ \E p \in Decisive(i) : Moved(p, t)

\* What a step may not do to a time t.
Kept(t) ==
    /\ Lapsed(t) => Lapsed(t)'
    /\ \A p \in Reads : Moved(p, t) => Lapsed(t)' \/ Moved(p, t)'
    /\ \A p \in Reads : mv'[p] # mv[p] => Lapsed(t)' \/ Unstamped(p)'

\* A record is built from rows of its sources.
LEMMA ReadsSourced ==
    ASSUME TypeOK
    PROVE  /\ Holds \subseteq Reads
           /\ \A p \in Reads : p \in Rows /\ ViewOf(p) \in SourceViews /\ p \in RowsOf(ViewOf(p))
<1>1. SourceViews = IF collection = "enrollments" THEN {"enrollment"}
                    ELSE IF collection = "roster" THEN {"learner"} ELSE {"learner", "enrollment"}
  <2>1. CASE collection = "enrollments"
    <3>1. Sources = <<"enrollment">>
      BY <2>1, Zenon DEF Sources
    <3> QED
      BY <2>1, <3>1 DEF SourceViews
  <2>2. CASE collection = "roster"
    <3>1. Sources = <<"learner">>
      BY <2>2 DEF Sources
    <3> QED
      BY <2>2, <3>1 DEF SourceViews
  <2>3. CASE collection \notin {"enrollments", "roster"}
    <3>1. Sources = <<"learner", "enrollment">>
      BY <2>3 DEF Sources
    <3> QED
      BY <2>3, <3>1 DEF SourceViews
  <2> QED
    BY <2>1, <2>2, <2>3
<1>2. InContract \subseteq EnrollmentRows /\ LearnerRows \cap EnrollmentRows = {}
  BY SyncAssumption DEF SyncAssumption
<1>3. Reads \subseteq Rows /\ Holds \subseteq Reads
      /\ (collection = "enrollments" => Reads = EnrollmentRows)
      /\ (collection = "roster" => Reads = LearnerRows)
  BY <1>2 DEF Reads, Holds, Rows
<1>4. ASSUME NEW p \in Reads PROVE ViewOf(p) \in SourceViews
  BY <1>1, <1>2, <1>3 DEF ViewOf, Rows
<1> QED
  BY <1>3, <1>4, RowsOfView

\* Retention outlives the purge: a tombstone goes only when every cursor that
\* needs it has lapsed.
LEMMA PurgeKeeps ==
    ASSUME IndInv, NEW t \in Nat \cup {None}, NEW v \in Views, Purge(v)
    PROVE  Kept(t)
<1> DEFINE old == {p \in Logged(RowsOf(v)) : log[p].val = Absent /\ log[p].on + PurgeAge < now}
<1>1. /\ log' = [p \in Rows |-> IF p \in old THEN None ELSE log[p]]
      /\ UNCHANGED <<collection, now, mv, created>>
  BY DEF Purge
<1>2. SourceViews' = SourceViews
  BY <1>1, SameSources
<1>3. Lapsed(t) => Lapsed(t)'
  BY <1>1, <1>2 DEF Lapsed
<1>4. ASSUME NEW p \in Reads, Moved(p, t), ~Lapsed(t)' PROVE Moved(p, t)'
  <2>1. p \in Rows /\ t \in Nat
    BY <1>4, ReadsSourced DEF Lapsed, IndInv
  <2>2. CASE p \notin old
    <3>1. log'[p] = log[p]
      BY <1>1, <2>1, <2>2
    <3> QED
      BY <1>1, <1>4, <3>1 DEF Moved, Unstamped
  <2>3. CASE p \in old
    <3>1. /\ log'[p] = None /\ log[p] # None /\ log[p].val = Absent
          /\ log[p].on + PurgeAge < now
      BY <1>1, <2>1, <2>3 DEF Logged
    <3>2. CASE Unstamped(p)
      BY <1>1, <3>1, <3>2 DEF Moved, Unstamped
    <3>3. CASE WholeSecond(t) <= log[p].on
      <4>1. t < UtcTimestamp(t) + Second /\ UtcTimestamp(t) <= log[p].on /\ UtcTimestamp(t) \in Nat
        BY <2>1, <3>3, Utc DEF WholeSecond, UtcTimestamp
      <4>2. log[p].on \in Nat /\ now \in Nat
        BY <2>1, <3>1 DEF IndInv, TypeOK
      <4>3. /\ Retention \in Nat /\ MaxRequest \in Nat /\ Second \in Nat /\ PurgeAge \in Nat
            /\ PurgeAge >= Retention + MaxRequest + Second
        BY SyncAssumption DEF SyncAssumption
      <4>4. t + Retention + MaxRequest < now
        BY <2>1, <3>1, <4>1, <4>2, <4>3
      <4> QED
        BY <1>1, <1>4, <4>4 DEF Lapsed
    <3> QED
      BY <1>4, <3>2, <3>3 DEF Moved
  <2> QED
    BY <2>2, <2>3
<1> QED
  BY <1>1, <1>3, <1>4 DEF Kept

\* A refresh leaves what it changed to be stamped.
LEMMA RefreshKeeps ==
    ASSUME IndInv, NEW t \in Nat \cup {None}, NEW v \in Views, Refresh(v)
    PROVE  Kept(t)
<1>1. PICK f : mv' = [p \in Rows |-> IF p \in RowsOf(v) THEN f[p] ELSE mv[p]]
  BY DEF Refresh
<1>2. UNCHANGED <<collection, now, log, created>>
  BY DEF Refresh
<1>3. SourceViews' = SourceViews
  BY <1>2, SameSources
<1>4. Lapsed(t)' <=> Lapsed(t)
  BY <1>2, <1>3 DEF Lapsed
<1>5. ASSUME NEW p \in Reads, ~Lapsed(t)
      PROVE  /\ p \in Rows
             /\ p \notin RowsOf(v) => mv'[p] = mv[p]
             /\ p \in RowsOf(v) => ~Unstamped(p)
  <2>1. p \in Rows /\ ViewOf(p) \in SourceViews /\ p \in RowsOf(ViewOf(p))
    BY ReadsSourced DEF IndInv
  <2>2. created[ViewOf(p)] # None
    BY <1>5, <2>1 DEF Lapsed
  <2>3. p \in RowsOf(v) => ViewOf(p) = v
    BY RowsOfView
  <2> QED
    BY <1>1, <2>1, <2>2, <2>3 DEF Refresh
<1>6. ASSUME NEW p \in Reads, ~Lapsed(t), Moved(p, t) PROVE Moved(p, t)'
  BY <1>2, <1>5, <1>6 DEF Moved, Unstamped
<1>7. ASSUME NEW p \in Reads, ~Lapsed(t), mv'[p] # mv[p] PROVE Unstamped(p)'
  BY <1>2, <1>5, <1>7 DEF Unstamped
<1> QED
  BY <1>4, <1>6, <1>7 DEF Kept

\* A stamp is not before the as_of of a response that could not have its rows.
LEMMA StampKeeps ==
    ASSUME IndInv, FinishedPast, LogsOrdered, NEW t \in Nat \cup {None}, Legit(t),
           NEW v \in Views, Stamp(v)
    PROVE  Kept(t)
<1>1. PICK on \in Nat :
         /\ UtcTimestamp(finished[v]) <= on /\ finished[v] \in Nat
         /\ log' = [p \in Rows |-> IF p \in RowsOf(v) /\ Unstamped(p)
                                   THEN [val |-> mv[p], on |-> on] ELSE log[p]]
  BY StampEffect
<1>2. UNCHANGED <<collection, now, mv, created>>
  BY DEF Stamp
<1>3. SourceViews' = SourceViews
  BY <1>2, SameSources
<1>4. Lapsed(t)' <=> Lapsed(t)
  BY <1>2, <1>3 DEF Lapsed
<1>5. ASSUME NEW p \in Reads, ~Lapsed(t), Moved(p, t) PROVE Moved(p, t)'
  <2>1. p \in Rows /\ ViewOf(p) \in SourceViews /\ p \in RowsOf(ViewOf(p))
    BY ReadsSourced DEF IndInv
  <2>2. CASE ~(p \in RowsOf(v) /\ Unstamped(p))
    <3>1. log'[p] = log[p]
      BY <1>1, <2>1, <2>2
    <3> QED
      BY <1>2, <1>5, <3>1 DEF Moved, Unstamped
  <2>3. CASE p \in RowsOf(v) /\ Unstamped(p)
    <3>1. log'[p] = [val |-> mv[p], on |-> on]
      BY <1>1, <2>1, <2>3
    <3>2. log'[p] # None /\ log'[p].on = on
      <4>1. mv[p] \in Values \cup {Absent} /\ None \notin [val : Values \cup {Absent}, on : Nat]
        BY <2>1, SyncAssumption DEF SyncAssumption, IndInv, TypeOK
      <4> QED
        BY <3>1, <4>1
    <3>3. t \in Nat /\ t <= finished[v]
      <4>1. ViewOf(p) = v
        BY <2>3, RowsOfView
      <4> QED
        BY <1>5, <2>1, <4>1 DEF Lapsed, Legit
    <3>4. UtcTimestamp(t) <= on
      <4>1. UtcTimestamp(t) \in Nat /\ UtcTimestamp(t) <= t /\ UtcTimestamp(finished[v]) \in Nat
        BY <1>1, <3>3, Utc
      <4>2. UtcTimestamp(t) <= UtcTimestamp(finished[v])
        BY <1>1, <3>3, <4>1, UtcMonotone
      <4> QED
        BY <1>1, <4>1, <4>2
    <3> QED
      BY <3>2, <3>4 DEF Moved, WholeSecond, UtcTimestamp
  <2> QED
    BY <2>2, <2>3
<1> QED
  BY <1>2, <1>4, <1>5 DEF Kept

\* A new log refuses every cursor there is.
LEMMA RebuildKeeps ==
    ASSUME IndInv, NEW t \in Nat \cup {None}, Legit(t), NEW v \in Views, Rebuild(v)
    PROVE  Kept(t)
<1>1. SourceViews' = SourceViews /\ v \in SourceViews
  BY SameSources DEF Rebuild
<1>2. Lapsed(t)'
  <2>1. CASE t # None
    <3>1. t \in Nat /\ finished[v] \in Nat /\ t <= finished[v] /\ finished[v] < UtcTimestamp(now)
      BY <1>1, <2>1 DEF Legit, Rebuild, IndInv, TypeOK
    <3>2. created'[v] = UtcTimestamp(now) /\ UtcTimestamp(now) \in Nat
      BY Utc DEF Rebuild, IndInv, TypeOK
    <3>3. t < created'[v]
      BY <3>1, <3>2
    <3> QED
      BY <1>1, <3>3 DEF Lapsed
  <2> QED
    BY <2>1 DEF Lapsed
<1> QED
  BY <1>2 DEF Kept

\* Nothing that happens to the views, the logs or the clock makes a record
\* differ unnoticed.
LEMMA WorldKeeps ==
    ASSUME IndInv, FinishedPast, LogsOrdered, NEW t \in Nat \cup {None}, Legit(t), WorldStep
    PROVE  Kept(t)
<1>1. ASSUME NEW v \in Views, Refresh(v) \/ Stamp(v) \/ Rebuild(v) \/ Purge(v)
      PROVE  Kept(t)
  BY <1>1, RefreshKeeps, StampKeeps, RebuildKeeps, PurgeKeeps
<1>2. CASE Tick
  <2>1. /\ UNCHANGED <<collection, mv, log, created>>
        /\ now \in Nat /\ now' = now + 1 /\ Retention \in Nat /\ MaxRequest \in Nat
    BY <1>2, SyncAssumption DEF Tick, world, IndInv, TypeOK, SyncAssumption
  <2>2. SourceViews' = SourceViews
    BY <2>1, SameSources
  <2>3. Lapsed(t) => Lapsed(t)'
    BY <2>1, <2>2 DEF Lapsed
  <2>4. \A p \in Reads : Moved(p, t) => Moved(p, t)'
    BY <2>1 DEF Moved, Unstamped
  <2> QED
    BY <2>1, <2>3, <2>4 DEF Kept
<1>3. CASE UNCHANGED <<collection, now, world>>
  <2>1. SourceViews' = SourceViews
    BY <1>3, SameSources
  <2> QED
    BY <1>3, <2>1 DEF world, Kept, Lapsed, Moved, Unstamped
<1> QED
  BY <1>1, <1>2, <1>3 DEF WorldStep

\* A body that is right stays so, or what changed it is there to be found.
LEMMA RightStays ==
    ASSUME IndInv, collection' = collection, NEW t, Kept(t), NEW x, NEW i \in Records,
           Right(x, i, t)
    PROVE  Right(x, i, t)'
<1>1. Built(i)' = Built(i) /\ Holds' = Holds /\ Built(i) \subseteq Reads
  BY Zenon DEF Built, Reads, Holds, Id
<1>2. SUFFICES ASSUME ~Lapsed(t)'
               PROVE  x = Body(i)' \/ \E p \in Decisive(i)' : Moved(p, t)'
  BY Zenon DEF Right
<1>3. /\ ~Lapsed(t)
      /\ \A p \in Built(i) : Moved(p, t) => Moved(p, t)'
      /\ \A p \in Built(i) : mv'[p] # mv[p] => Moved(p, t)'
  BY <1>1, <1>2 DEF Kept, Moved
<1>4. /\ LiveRows(i) = {p \in Built(i) \cap Holds : mv[p] # Absent}
      /\ LiveRows(i)' = {p \in Built(i) \cap Holds : mv'[p] # Absent}
      /\ Decisive(i) = IF LiveRows(i) = {} THEN Built(i) \cap Holds ELSE Built(i)
      /\ Decisive(i)' = IF LiveRows(i)' = {} THEN Built(i) \cap Holds ELSE Built(i)
  BY <1>1 DEF LiveRows, Decisive
<1>5. CASE \E p \in Decisive(i) : Moved(p, t)
  <2>1. PICK p \in Decisive(i) : Moved(p, t)
    BY <1>5
  <2>2. CASE p \in Decisive(i)'
    BY <1>3, <1>4, <2>1, <2>2
  <2>3. CASE p \notin Decisive(i)'
    <3>1. LiveRows(i) # {} /\ LiveRows(i)' = {}
      BY <1>4, <2>1, <2>3
    <3>2. PICK q \in Built(i) \cap Holds : mv[q] # Absent
      BY <1>4, <3>1
    <3>3. mv'[q] = Absent
      BY <1>4, <3>1, <3>2
    <3> QED
      BY <1>3, <1>4, <3>1, <3>2, <3>3
  <2> QED
    BY <2>2, <2>3
<1>6. CASE x = Body(i)
  <2> SUFFICES ASSUME \A p \in Decisive(i)' : mv'[p] = mv[p]
               PROVE  Body(i)' = Body(i)
    BY <1>3, <1>4, <1>6
  <2>1. CASE LiveRows(i)' = {}
    <3>1. LiveRows(i) = {}
      BY <1>4, <2>1
    <3> QED
      BY <2>1, <3>1 DEF Body
  <2>2. CASE LiveRows(i)' # {}
    <3>1. \A p \in Built(i) : mv'[p] = mv[p]
      BY <1>4, <2>2
    <3>2. LiveRows(i) = LiveRows(i)'
      BY <1>4, <3>1
    <3>3. {<<ViewOf(p), mv'[p]>> : p \in {q \in Built(i) : mv'[q] # Absent}}
          = {<<ViewOf(p), mv[p]>> : p \in {q \in Built(i) : mv[q] # Absent}}
      BY <3>1
    <3>4. /\ Body(i) = {<<ViewOf(p), mv[p]>> : p \in {q \in Built(i) : mv[q] # Absent}}
          /\ Body(i)' = {<<ViewOf(p), mv'[p]>> : p \in {q \in Built(i) : mv'[q] # Absent}}
      BY <1>1, <2>2, <3>2 DEF Body, ViewOf
    <3> QED
      BY <3>3, <3>4
  <2> QED
    BY <2>1, <2>2
<1> QED
  BY <1>3, <1>5, <1>6 DEF Right
-----------------------------------------------------------------------------
(* What a page selects                                                     *)

\* The place of a record in ORDER BY.
Rank(i, S) == Cardinality({j \in S : j < i})

\* An organization has finitely many records.
LEMMA RecordsFinite == IsFiniteSet(Records) /\ Records \subseteq Nat
<1>1. /\ IsFiniteSet(Rows) /\ EnrollmentRows \in SUBSET Rows
      /\ LearnerId \in [Rows -> Nat] /\ EnrollmentId \in [EnrollmentRows -> Nat]
  BY SyncAssumption DEF SyncAssumption, Rows
<1>2. IsFiniteSet(EnrollmentRows)
  BY <1>1, FS_Subset
<1>3. ASSUME NEW S, NEW f \in [S -> Nat], IsFiniteSet(S)
      PROVE  IsFiniteSet({f[p] : p \in S})
  <2> DEFINE T == {f[p] : p \in S}
  <2>1. f \in Surjection(S, T)
    BY <1>3 DEF Surjection
  <2> QED
    BY <1>3, <2>1, FS_Surjection
<1>4. IsFiniteSet({LearnerId[p] : p \in Rows}) /\ IsFiniteSet({EnrollmentId[p] : p \in EnrollmentRows})
  BY <1>1, <1>2, <1>3
<1>5. IsFiniteSet(Records)
  BY <1>4, FS_Union DEF Records
<1> QED
  BY <1>1, <1>5 DEF Records

\* A record's place is within the count of the listing.
LEMMA RankBelow ==
    ASSUME NEW S \in SUBSET Records, NEW i \in S
    PROVE  Rank(i, S) \in Nat /\ Cardinality(S) \in Nat /\ Rank(i, S) < Cardinality(S)
<1> DEFINE T == {j \in S : j < i}
<1>1. IsFiniteSet(S) /\ i \in Nat
  BY RecordsFinite, FS_Subset
<1>2. T \in SUBSET S /\ i \notin T
  BY <1>1
<1>3. IsFiniteSet(T) /\ Cardinality(T) <= Cardinality(S) /\ Cardinality(T) # Cardinality(S)
  BY <1>1, <1>2, FS_Subset
<1>4. Cardinality(T) \in Nat /\ Cardinality(S) \in Nat
  BY <1>1, <1>3, FS_CardinalityType
<1> QED
  BY <1>3, <1>4 DEF Rank

\* MAX(changed_on), of stamps that have all happened.
LEMMA LatestIs ==
    ASSUME NEW S \in SUBSET Nat, NEW n \in Nat, \A s \in S : s <= n, S # {}
    PROVE  Latest(S) \in S /\ \A s \in S : s <= Latest(S)
<1> DEFINE T == {m \in 0..n : n - m \in S}
<1>1. PICK s \in S : TRUE
  OBVIOUS
<1>2. n - s \in 0..n /\ n - (n - s) = s
  OBVIOUS
<1>3. T # {} /\ T \subseteq Nat
  BY <1>1, <1>2
<1>4. Minimum(T) \in T /\ \A y \in T : Minimum(T) <= y
  BY <1>3, MinimumExists
<1>5. PICK m \in 0..n : n - m \in S /\ \A y \in T : m <= y
  BY <1>4
<1>6. \A r \in S : r <= n - m
  <2> SUFFICES ASSUME NEW r \in S PROVE r <= n - m
    OBVIOUS
  <2>1. n - r \in 0..n /\ n - (n - r) = r
    OBVIOUS
  <2>2. n - r \in T
    BY <2>1
  <2>3. m <= n - r
    BY <1>5, <2>2
  <2> QED
    BY <2>3
<1> QED
  BY <1>5, <1>6 DEF Latest, Maximum

\* changed_on of a set of logged rows is the stamp of one of them, and none
\* has a later one.
LEMMA LatestStamp ==
    ASSUME IndInv, LogsOrdered, NEW X \in SUBSET Rows
    PROVE  /\ Stamps(X) = {} => Latest(Stamps(X)) = None
           /\ Stamps(X) # {} => \E p \in X : log[p] # None /\ log[p].on = Latest(Stamps(X))
           /\ \A p \in X : log[p] # None =>
                 Latest(Stamps(X)) \in Nat /\ log[p].on <= Latest(Stamps(X))
<1>1. now \in Nat /\ UtcTimestamp(now) \in Nat
  BY Utc DEF IndInv, TypeOK
<1>2. \A p \in X : log[p] # None => log[p].on \in Nat /\ log[p].on <= UtcTimestamp(now)
  BY DEF IndInv, TypeOK, LogsOrdered, StampsPast
<1>3. Stamps(X) \in SUBSET Nat /\ \A s \in Stamps(X) : s <= UtcTimestamp(now)
  BY <1>2 DEF Stamps, Logged
<1>4. Stamps(X) # {} =>
         Latest(Stamps(X)) \in Stamps(X) /\ \A s \in Stamps(X) : s <= Latest(Stamps(X))
  BY <1>1, <1>3, LatestIs
<1>5. \A p \in X : log[p] # None => log[p].on \in Stamps(X)
  BY DEF Stamps, Logged
<1>6. ASSUME NEW p \in X, log[p] # None
      PROVE  Latest(Stamps(X)) \in Nat /\ log[p].on <= Latest(Stamps(X))
  BY <1>3, <1>4, <1>5, <1>6
<1>7. ASSUME Stamps(X) # {} PROVE \E p \in X : log[p] # None /\ log[p].on = Latest(Stamps(X))
  BY <1>4, <1>7 DEF Stamps, Logged
<1> QED
  BY <1>6, <1>7 DEF Latest

\* A full read leaves out only records that are not there.
LEMMA SelectedFull ==
    ASSUME NEW i \in Records, i \notin Selected(None)
    PROVE  Body(i) = None
  BY DEF Selected, InWindow, Body

\* RemovedOn is the latest stamp of the deleted rows.
LEMMA RemovedStamp ==
    ASSUME NEW i
    PROVE  RemovedOn(i) = Latest(Stamps({q \in Logged(Built(i) \cap Holds) : log[q].val = Absent}))
<1> DEFINE D == {q \in Logged(Built(i) \cap Holds) : log[q].val = Absent}
<1>1. Logged(D) = D
  BY DEF Logged
<1> QED
  BY <1>1 DEF RemovedOn, Stamps

\* An incremental read returns only records with a row stamped since.
LEMMA SelectedMoved ==
    ASSUME IndInv, LogsOrdered, NEW t \in Nat, NEW i \in Selected(t)
    PROVE  \E p \in Built(i) : Moved(p, t)
<1>1. ASSUME NEW X \in SUBSET Built(i), InWindow(Latest(Stamps(X)), t, None)
      PROVE  \E p \in Built(i) : Moved(p, t)
  <2>1. t # None /\ X \in SUBSET Rows
    BY SyncAssumption, ReadsSourced DEF SyncAssumption, Built, IndInv
  <2>2. Latest(Stamps(X)) # None /\ Latest(Stamps(X)) >= WholeSecond(t)
    BY <1>1, <2>1 DEF InWindow
  <2>3. PICK p \in X : log[p] # None /\ log[p].on = Latest(Stamps(X))
    BY <2>1, <2>2, LatestStamp
  <2>4. log[p].on \in Nat /\ WholeSecond(t) \in Int
    BY <2>1, <2>3, Rounding DEF IndInv, TypeOK
  <2> QED
    BY <2>2, <2>3, <2>4 DEF Moved
<1>2. CASE InWindow(LiveOn(i), t, None)
  BY <1>1, <1>2 DEF LiveOn, LiveRows
<1>3. CASE InWindow(RemovedOn(i), t, None)
  BY <1>1, <1>3, RemovedStamp DEF Logged
<1> QED
  BY <1>2, <1>3 DEF Selected

\* The incremental read misses no change that has been stamped: a record it
\* leaves out although a row of it was stamped since has one to be stamped.
LEMMA Unselected ==
    ASSUME IndInv, LogsOrdered, NEW t \in Nat, NEW i \in Records, i \notin Selected(t),
           NEW p \in Decisive(i), log[p] # None, WholeSecond(t) <= log[p].on
    PROVE  \E q \in Decisive(i) : Unstamped(q)
<1> SUFFICES ASSUME \A q \in Decisive(i) : ~Unstamped(q) PROVE FALSE
  OBVIOUS
<1>1. /\ Built(i) \subseteq Rows /\ Built(i) \subseteq Reads /\ p \in Built(i)
      /\ None \notin Nat /\ WholeSecond(t) \in Int /\ log[p].on \in Nat
  <2>1. Built(i) \subseteq Rows /\ Built(i) \subseteq Reads /\ p \in Built(i)
    BY ReadsSourced DEF IndInv, Built, Decisive
  <2> QED
    BY <2>1, SyncAssumption, Rounding DEF IndInv, TypeOK, SyncAssumption
<1>2. ASSUME NEW on \in Nat, log[p].on <= on PROVE InWindow(on, t, None)
  BY <1>1, <1>2 DEF InWindow
<1>3. CASE LiveRows(i) = {}
  <2> DEFINE H == Built(i) \cap Holds
             D == {q \in Logged(H) : log[q].val = Absent}
  <2>1. \A q \in H : mv[q] = Absent /\ ~Unstamped(q)
    BY <1>3 DEF LiveRows, Decisive
  <2>2. D = Logged(H) /\ p \in D
    BY <1>3, <2>1 DEF Logged, Unstamped, Decisive
  <2>3. Gone(i)
    BY <1>3, <2>2 DEF Gone
  <2>4. RemovedOn(i) \in Nat /\ log[p].on <= RemovedOn(i)
    <3>1. D \in SUBSET Rows
      BY <1>1 DEF Logged
    <3> QED
      BY <2>2, <3>1, LatestStamp, RemovedStamp
  <2> QED
    BY <1>1, <1>2, <2>3, <2>4 DEF Selected
<1>4. CASE LiveRows(i) # {}
  <2>1. Decisive(i) = Built(i)
    BY <1>4 DEF Decisive
  <2>2. SUFFICES LiveOn(i) \in Nat /\ log[p].on <= LiveOn(i)
    BY <1>2, <1>4 DEF Selected
  <2>3. CASE collection \in {"contract", "all"}
    BY <1>1, <2>3, LatestStamp DEF LiveOn
  <2>4. CASE collection \notin {"contract", "all"}
    <3> DEFINE w == IF collection = "enrollments" THEN "enrollment" ELSE "learner"
    <3>1. PICK q \in LiveRows(i) : TRUE
      BY <1>4
    <3>2. q \in Built(i) /\ mv[q] # Absent /\ log[q] # None /\ log[q].val # Absent
      BY <2>1, <3>1 DEF LiveRows, Unstamped
    <3>3. LiveOn(i) = Latest(Stamps(LiveRows(i))) /\ LiveRows(i) \in SUBSET Rows
      BY <1>1, <2>4 DEF LiveOn, LiveRows
    <3>4. LiveOn(i) \in Nat /\ log[q].on <= LiveOn(i)
      BY <3>1, <3>2, <3>3, LatestStamp
    <3>5. log[p].on <= log[q].on /\ log[q].on \in Nat
      <4>1. collection \in {"enrollments", "roster"}
        BY <2>4, SyncAssumption DEF SyncAssumption, IndInv, TypeOK
      <4>2. /\ w \in Views /\ p \in RowsOf(w) /\ q \in RowsOf(w)
            /\ Identity(w, p) = Identity(w, q)
        BY <1>1, <3>2, <4>1 DEF Views, RowsOf, Reads, Built, Id, Identity
      <4>3. CASE p = q
        BY <1>1, <4>3
      <4>4. CASE p # q
        BY <1>1, <3>2, <4>2, <4>4 DEF LogsOrdered, OneLogged, Twins, IndInv, TypeOK
      <4> QED
        BY <4>3, <4>4
    <3> QED
      BY <1>1, <3>4, <3>5
  <2> QED
    BY <2>3, <2>4
<1> QED
  BY <1>3, <1>4
-----------------------------------------------------------------------------
(* What the client has                                                     *)

\* The sync in progress has records, and the as_of it will take as cursor.
Reached == pc = "count" \/ offset > 0
Ref == IF offset = 0 THEN AsOf ELSE firstAsOf
UpTo == offset + (IF pc = "count" THEN PageSize ELSE 0)

\* A record received is right for the cursor the sync will leave ...
SentRight == \A i \in Records : got[i] # Unsent => Reached /\ Right(got[i], i, Ref)

\* ... and was owed under the cursor it began with.
SentOwed ==
    \A i \in Records : got[i] # Unsent /\ since # None =>
        Lapsed(since) \/ \E p \in Built(i) : Moved(p, since)

\* The pages so far have the listing up to their end ...
ListedSent ==
    Reached /\ flaws = {} => \A i \in listing : Rank(i, listing) < UpTo => got[i] # Unsent

\* ... and what is not in the listing is right as the client will keep it.
UnlistedRight ==
    Reached /\ flaws = {} /\ (since = None \/ taint = {}) =>
        \A i \in Records \ listing : Right(IF since = None THEN None ELSE held[i], i, Ref)

HeldRight == taint = {} => \A i \in Records : Right(held[i], i, cursor)

CopyRight ==
    /\ SentRight
    /\ SentOwed
    /\ ListedSent
    /\ UnlistedRight
    /\ HeldRight

SyncInvariant ==
    /\ IndInv
    /\ TimesLegit
    /\ LogsOrdered
    /\ CopyRight

\* The as_of of the sync in progress claims no more than the views have.
LEMMA RefLegit ==
    ASSUME SyncInvariant, Reached
    PROVE  Ref \in Nat \cup {None} /\ Legit(Ref)
<1>1. CASE offset = 0
  BY <1>1, AsOfLegit DEF SyncInvariant, TimesLegit, Reached, Ref
<1>2. CASE offset # 0
  <2>1. offset > 0 /\ firstAsOf \in Nat \cup {None}
    BY <1>2 DEF SyncInvariant, IndInv, TypeOK
  <2> QED
    BY <1>2, <2>1 DEF SyncInvariant, TimesLegit, CursorNotAhead, Ref
<1> QED
  BY <1>1, <1>2

\* What stays of a copy whatever happens in the warehouse, while the client
\* does nothing.
LEMMA CopyStays ==
    ASSUME SyncInvariant, WorldStep, UNCHANGED <<since, offset, client>>,
           pc' = "count" <=> pc = "count", pc = "count" => labels' = labels
    PROVE  CopyRight'
<1>1. /\ IndInv /\ FinishedPast /\ LogsOrdered /\ CopyRight
      /\ Legit(cursor) /\ cursor \in Nat \cup {None}
  BY DEF SyncInvariant, TimesLegit, CursorNotAhead, IndInv, TypeOK
<1>2. collection' = collection
  BY <1>1, TimeGoesOn
<1>3. /\ UNCHANGED <<since, offset, held, cursor, got, firstAsOf, listing, flaws, taint>>
      /\ (Reached <=> Reached') /\ UpTo' = UpTo
  BY DEF client, Reached, UpTo
<1>4. Reached => Ref' = Ref
  BY <1>3 DEF Reached, Ref, AsOf
<1>5. ASSUME NEW t \in Nat \cup {None}, Legit(t), NEW x, NEW i \in Records, Right(x, i, t)
      PROVE  Right(x, i, t)'
  BY <1>1, <1>2, <1>5, WorldKeeps, RightStays
<1>6. SentRight'
  <2> SUFFICES ASSUME NEW i \in Records, got[i] # Unsent
               PROVE  Reached' /\ Right(got[i], i, Ref)'
    BY <1>3 DEF SentRight
  <2>1. Reached /\ Right(got[i], i, Ref)
    BY <1>1 DEF CopyRight, SentRight
  <2>2. PICK x, t : x = got[i] /\ t = Ref
    OBVIOUS
  <2>3. Right(x, i, t)'
    BY <1>5, <2>1, <2>2, RefLegit
  <2> QED
    BY <1>3, <1>4, <2>1, <2>2, <2>3 DEF Right, Lapsed, Moved
<1>7. SentOwed'
  <2> SUFFICES ASSUME NEW i \in Records, got[i] # Unsent, since # None
               PROVE  Lapsed(since)' \/ \E p \in Built(i)' : Moved(p, since)'
    BY <1>3 DEF SentOwed
  <2>1. since = cursor
    <3>1. pc # "idle"
      BY DEF SyncInvariant, TimesLegit, SinceIsCursor, Blank
    <3> QED
      BY <3>1 DEF SyncInvariant, TimesLegit, SinceIsCursor
  <2>2. PICK t : t = since
    OBVIOUS
  <2>3. Kept(t)
    BY <1>1, <2>1, <2>2, WorldKeeps
  <2>4. Lapsed(t) \/ \E p \in Built(i) : Moved(p, t)
    BY <1>1, <2>2 DEF CopyRight, SentOwed
  <2>5. Built(i)' = Built(i) /\ Built(i) \subseteq Reads
    BY <1>2 DEF Built, Reads, Id
  <2>6. Lapsed(t)' \/ \E p \in Built(i)' : Moved(p, t)'
    BY <2>3, <2>4, <2>5 DEF Kept
  <2> QED
    BY <1>3, <2>2, <2>6 DEF Lapsed, Moved
<1>8. ListedSent'
  BY <1>1, <1>3 DEF CopyRight, ListedSent, Rank
<1>9. UnlistedRight'
  <2> SUFFICES ASSUME Reached, flaws = {}, since = None \/ taint = {}, NEW i \in Records \ listing
               PROVE  Right(IF since = None THEN None ELSE held[i], i, Ref)'
    BY <1>3 DEF UnlistedRight
  <2>1. PICK x, t : x = (IF since = None THEN None ELSE held[i]) /\ t = Ref
    OBVIOUS
  <2>2. Right(x, i, t)
    BY <1>1, <2>1 DEF CopyRight, UnlistedRight
  <2>3. Right(x, i, t)'
    BY <1>5, <2>1, <2>2, RefLegit
  <2> QED
    BY <1>3, <1>4, <2>1, <2>3 DEF Right, Lapsed, Moved
<1>10. HeldRight'
  <2> SUFFICES ASSUME taint = {}, NEW i \in Records PROVE Right(held[i], i, cursor)'
    BY <1>3 DEF HeldRight
  <2>1. PICK x, t : x = held[i] /\ t = cursor
    OBVIOUS
  <2>2. Right(x, i, t)'
    BY <1>1, <1>5, <2>1 DEF CopyRight, HeldRight
  <2> QED
    BY <1>3, <2>1, <2>2 DEF Right, Lapsed, Moved
<1> QED
  BY <1>6, <1>7, <1>8, <1>9, <1>10 DEF CopyRight

\* Nothing changes what is right while the world stands still.
LEMMA StillRight ==
    ASSUME SyncInvariant, UNCHANGED <<collection, now, world>>, NEW t, NEW x, NEW i \in Records,
           Right(x, i, t)
    PROVE  Right(x, i, t)'
<1>1. SourceViews' = SourceViews
  BY SameSources
<1>2. Kept(t)
  BY <1>1 DEF world, Kept, Lapsed, Moved, Unstamped
<1> QED
  BY <1>2, RightStays DEF SyncInvariant

\* A sync begins or is given up: nothing of it is there, and the copy is as
\* right as before.
LEMMA AfreshRight ==
    ASSUME SyncInvariant, UNCHANGED <<collection, now, world, held, taint>>,
           pc' # "count", offset' = 0, got' = Blank, cursor' \in {cursor, None}
    PROVE  CopyRight'
<1>1. ~Reached' /\ \A i \in Records : got'[i] = Unsent
  BY DEF Reached, Blank
<1>2. SentRight' /\ SentOwed' /\ ListedSent' /\ UnlistedRight'
  BY <1>1 DEF SentRight, SentOwed, ListedSent, UnlistedRight
<1>3. HeldRight'
  <2> SUFFICES ASSUME taint = {}, NEW i \in Records PROVE Right(held[i], i, cursor)'
    BY DEF HeldRight
  <2>1. PICK x, t : x = held[i] /\ t = cursor
    OBVIOUS
  <2>2. Right(x, i, t)'
    BY <2>1, StillRight DEF SyncInvariant, CopyRight, HeldRight
  <2>3. CASE cursor' = cursor
    BY <2>1, <2>2, <2>3 DEF Right, Lapsed, Moved
  <2>4. CASE cursor' = None
    BY <2>4 DEF Right, Lapsed
  <2> QED
    BY <2>3, <2>4
<1> QED
  BY <1>2, <1>3 DEF CopyRight

\* An incremental page read without the "young" flaw has a cursor in force.
LEMMA PageInForce ==
    ASSUME SyncInvariant, FetchPage, flaws' = {}, since # None
    PROVE  ~Lapsed(since) /\ since = cursor /\ since \in Nat
<1>1. /\ pc = "page" /\ IndInv /\ TypeOK
      /\ since = cursor /\ since \in Nat /\ began <= since + Retention
  BY DEF FetchPage, SyncInvariant, IndInv, TypeOK, TimesLegit, SinceIsCursor
<1>2. began \in Nat /\ now \in Nat /\ now <= began + MaxRequest
      /\ Retention \in Nat /\ MaxRequest \in Nat
  BY <1>1, SyncAssumption DEF SyncAssumption, IndInv, TypeOK, Working
<1>3. ~(since + Retention + MaxRequest < now)
  BY <1>1, <1>2
<1>4. ASSUME NEW v \in SourceViews PROVE created[v] # None /\ ~(since < created[v])
  <2>1. v \in Views /\ created[v] # None
    <3>1. pc \notin {"coverage", "start"} /\ pc \in {"asof", "page"}
      BY <1>1
    <3>2. Judged = SourceViews
      BY <3>1, Zenon DEF Judged
    <3> QED
      BY <1>1, <3>2, SourcesShape DEF IndInv, JudgedLately, Lately
  <2>2. created[v] \in Nat
    BY <1>1, <2>1 DEF TypeOK
  <2>3. ~(created[v] > since)
    <3>1. {f \in {"young"} : since # None /\ \E w \in SourceViews : created[w] > since} \subseteq flaws'
      BY DEF FetchPage
    <3>2. ~(since # None /\ \E w \in SourceViews : created[w] > since)
      BY <3>1
    <3> QED
      BY <3>2
  <2> QED
    BY <1>1, <2>1, <2>2, <2>3
<1>5. since # None
  OBVIOUS
<1> QED
  BY <1>1, <1>3, <1>4, <1>5 DEF Lapsed

\* A page brings records as they are, and owes nothing to those it leaves
\* out.
LEMMA FetchPageRight ==
    ASSUME SyncInvariant, FetchPage, UNCHANGED <<collection, now, world>>
    PROVE  CopyRight'
<1>1. /\ pc = "page" /\ pc' = "count"
      /\ UNCHANGED <<since, labels, offset, held, cursor, firstAsOf, taint>>
      /\ got' = [i \in Records |-> IF i \in OnPage(since) THEN Body(i) ELSE got[i]]
      /\ listing' = (IF offset = 0 THEN Selected(since) ELSE listing)
      /\ flaws' = {} => flaws = {} /\ listing' = Selected(since)
  <2>1. {f \in {"torn"} : listing' # Selected(since)} \subseteq flaws' /\ flaws \subseteq flaws'
    BY DEF FetchPage
  <2>2. listing' # Selected(since) => "torn" \in flaws'
    BY <2>1
  <2> QED
    BY <2>1, <2>2 DEF FetchPage
<1>2. /\ IndInv /\ LogsOrdered /\ CopyRight /\ TypeOK /\ offset \in Nat
      /\ PageSize \in Nat /\ PageSize > 0
  BY SyncAssumption DEF SyncAssumption, SyncInvariant, IndInv, TypeOK
<1>3. Reached' /\ (Reached <=> offset > 0) /\ UpTo' = offset + PageSize /\ UpTo = offset
      /\ Ref' = (IF offset = 0 THEN AsOf ELSE Ref)
  BY <1>1, <1>2 DEF Reached, UpTo, Ref, AsOf
<1>4. \A i \in Records : i \in OnPage(since) <=>
         /\ i \in Selected(since)
         /\ Rank(i, Selected(since)) \in offset..(offset + PageSize - 1)
  BY DEF OnPage, Rank
<1>5. Selected(since) \in SUBSET Records
  BY DEF Selected
<1>6. ASSUME NEW i \in Records PROVE Body(i) # Unsent
  BY <1>2, BodyType, SyncAssumption DEF SyncAssumption
<1>7. SentRight'
  <2> SUFFICES ASSUME NEW i \in Records, got'[i] # Unsent PROVE Right(got[i], i, Ref)'
    BY <1>3 DEF SentRight
  <2>1. PICK x, t : x = got'[i] /\ t = Ref'
    OBVIOUS
  <2>2. CASE i \in OnPage(since)
    <3>1. x = Body(i)
      BY <1>1, <2>1, <2>2
    <3>2. Right(x, i, t)
      BY <3>1 DEF Right
    <3>3. Right(x, i, t)'
      BY <3>2, StillRight
    <3> QED
      BY <2>1, <3>3 DEF Right, Lapsed, Moved
  <2>3. CASE i \notin OnPage(since)
    <3>1. x = got[i] /\ got[i] # Unsent
      BY <1>1, <2>1, <2>3
    <3>2. offset > 0 /\ Right(got[i], i, Ref)
      BY <1>2, <1>3, <3>1 DEF CopyRight, SentRight
    <3>3. Right(x, i, t)
      BY <1>2, <1>3, <2>1, <3>1, <3>2
    <3>4. Right(x, i, t)'
      BY <3>3, StillRight
    <3> QED
      BY <2>1, <3>4 DEF Right, Lapsed, Moved
  <2> QED
    BY <2>2, <2>3
<1>8. SentOwed'
  <2>1. SourceViews' = SourceViews
    BY SameSources
  <2>2. ASSUME NEW i \in Records, got'[i] # Unsent, since # None
        PROVE  Lapsed(since) \/ \E p \in Built(i) : Moved(p, since)
    <3>1. CASE i \in OnPage(since)
      <4>1. since \in Nat /\ i \in Selected(since)
        BY <1>2, <1>4, <2>2, <3>1 DEF TypeOK
      <4> QED
        BY <1>2, <4>1, SelectedMoved
    <3>2. CASE i \notin OnPage(since)
      BY <1>1, <1>2, <2>2, <3>2 DEF CopyRight, SentOwed
    <3> QED
      BY <3>1, <3>2
  <2> QED
    BY <1>1, <2>1, <2>2 DEF SentOwed, Lapsed, Moved, Unstamped, Built, Reads, Id, world
<1>9. ListedSent'
  <2> SUFFICES ASSUME flaws' = {}, NEW i \in listing', Rank(i, listing') < UpTo'
               PROVE  got'[i] # Unsent
    BY DEF ListedSent, Rank
  <2>1. listing' = Selected(since) /\ flaws = {} /\ i \in Records
    BY <1>1, <1>5
  <2>2. Rank(i, listing') \in Nat
    BY <1>5, <2>1, RankBelow
  <2>3. CASE Rank(i, listing') >= offset
    <3>1. i \in OnPage(since)
      BY <1>2, <1>3, <1>4, <2>1, <2>2, <2>3
    <3> QED
      BY <1>1, <1>6, <2>1, <3>1
  <2>4. CASE Rank(i, listing') < offset
    <3>1. offset > 0 /\ listing' = listing
      BY <1>1, <1>2, <2>2, <2>4
    <3>2. got[i] # Unsent
      BY <1>2, <1>3, <2>1, <2>4, <3>1 DEF CopyRight, ListedSent
    <3> QED
      BY <1>1, <1>6, <2>1, <3>2
  <2> QED
    BY <1>2, <2>2, <2>3, <2>4
<1>10. UnlistedRight'
  <2> SUFFICES ASSUME flaws' = {}, since = None \/ taint = {}, NEW i \in Records, i \notin listing'
               PROVE  Right(IF since = None THEN None ELSE held[i], i, Ref)'
    BY <1>1 DEF UnlistedRight
  <2>1. PICK x, t : x = (IF since = None THEN None ELSE held[i]) /\ t = Ref'
    OBVIOUS
  <2>2. flaws = {} /\ i \notin Selected(since)
    BY <1>1
  <2>3. Right(x, i, t)
    <3>2. CASE since = None
      BY <2>1, <2>2, <3>2, SelectedFull DEF Right
    <3>3. CASE since # None
      <4>1. ~Lapsed(since) /\ since = cursor /\ since \in Nat
        BY <3>3, PageInForce
      <4>2. Right(held[i], i, since)
        BY <1>2, <3>3, <4>1 DEF CopyRight, HeldRight
      <4>3. CASE x = Body(i)
        BY <4>3 DEF Right
      <4>4. CASE x # Body(i)
        <5>1. PICK p \in Decisive(i) : Moved(p, since)
          BY <2>1, <3>3, <4>1, <4>2, <4>4 DEF Right
        <5>2. \E q \in Decisive(i) : Unstamped(q)
          BY <1>2, <2>2, <4>1, <5>1, Unselected DEF Moved
        <5> QED
          BY <5>2 DEF Right, Moved
      <4> QED
        BY <4>3, <4>4
    <3> QED
      BY <3>2, <3>3
  <2>4. Right(x, i, t)'
    BY <2>3, StillRight
  <2> QED
    BY <1>1, <2>1, <2>4 DEF Right, Lapsed, Moved
<1>11. HeldRight'
  <2> SUFFICES ASSUME taint = {}, NEW i \in Records PROVE Right(held[i], i, cursor)'
    BY <1>1 DEF HeldRight
  <2>1. PICK x, t : x = held[i] /\ t = cursor
    OBVIOUS
  <2>2. Right(x, i, t)'
    BY <1>2, <2>1, StillRight DEF CopyRight, HeldRight
  <2> QED
    BY <1>1, <2>1, <2>2 DEF Right, Lapsed, Moved
<1> QED
  BY <1>7, <1>8, <1>9, <1>10, <1>11 DEF CopyRight

\* The client takes over a complete listing, or goes on with it.
LEMMA RespondRight ==
    ASSUME SyncInvariant, Respond, UNCHANGED <<collection, now, world>>
    PROVE  CopyRight'
<1> DEFINE seen == flaws \cup
              {f \in {"torn"} : PageSize < Cardinality(listing) /\ listing # Selected(since)}
           restart == offset > 0 /\ AsOf # firstAsOf
           more == offset + PageSize < Cardinality(Selected(since))
<1>1. /\ pc = "count" /\ Reached
      /\ IndInv /\ CopyRight /\ TypeOK /\ offset \in Nat /\ PageSize \in Nat /\ PageSize > 0
      /\ SourceViews' = SourceViews
  BY SyncAssumption, SameSources DEF SyncAssumption, SyncInvariant, IndInv, TypeOK, Respond, Reached
<1>2. CASE restart /\ pc' = "more" /\ offset' = 0 /\ got' = Blank /\ UNCHANGED <<held, cursor, taint>>
  BY <1>2, AfreshRight
<1>3. UpTo = offset + PageSize /\ (~restart => Ref = AsOf)
  BY <1>1 DEF UpTo, Ref
<1>4. CASE /\ ~restart /\ pc' = "more" /\ offset' = offset + PageSize /\ firstAsOf' = AsOf
           /\ flaws' = seen
           /\ UNCHANGED <<since, held, cursor, got, listing, taint>>
  <2>1. Reached' /\ UpTo' = UpTo /\ Ref' = Ref /\ (flaws' = {} => flaws = {})
    BY <1>1, <1>3, <1>4 DEF Reached, UpTo, Ref
  <2>2. SentRight'
    <3> SUFFICES ASSUME NEW i \in Records, got[i] # Unsent PROVE Right(got[i], i, Ref)'
      BY <1>4, <2>1 DEF SentRight
    <3>1. PICK x, t : x = got[i] /\ t = Ref
      OBVIOUS
    <3>2. Right(x, i, t)'
      BY <1>1, <3>1, StillRight DEF CopyRight, SentRight
    <3> QED
      BY <1>4, <2>1, <3>1, <3>2 DEF Right, Lapsed, Moved
  <2>3. SentOwed'
    BY <1>1, <1>4 DEF CopyRight, SentOwed, Lapsed, Moved, Unstamped, Built, Reads, Id, world
  <2>4. ListedSent'
    BY <1>1, <1>4, <2>1 DEF CopyRight, ListedSent, Rank
  <2>5. UnlistedRight'
    <3> SUFFICES ASSUME flaws = {}, since = None \/ taint = {}, NEW i \in Records \ listing
                 PROVE  Right(IF since = None THEN None ELSE held[i], i, Ref)'
      BY <1>4, <2>1 DEF UnlistedRight
    <3>1. PICK x, t : x = (IF since = None THEN None ELSE held[i]) /\ t = Ref
      OBVIOUS
    <3>2. Right(x, i, t)'
      BY <1>1, <3>1, StillRight DEF CopyRight, UnlistedRight
    <3> QED
      BY <1>4, <2>1, <3>1, <3>2 DEF Right, Lapsed, Moved
  <2>6. HeldRight'
    <3> SUFFICES ASSUME taint = {}, NEW i \in Records PROVE Right(held[i], i, cursor)'
      BY <1>4 DEF HeldRight
    <3>1. PICK x, t : x = held[i] /\ t = cursor
      OBVIOUS
    <3>2. Right(x, i, t)'
      BY <1>1, <3>1, StillRight DEF CopyRight, HeldRight
    <3> QED
      BY <1>4, <3>1, <3>2 DEF Right, Lapsed, Moved
  <2> QED
    BY <2>2, <2>3, <2>4, <2>5, <2>6 DEF CopyRight
<1>5. CASE ~restart /\ ~more /\ Apply(seen)
  <2>1. ~Reached' /\ \A i \in Records : got'[i] = Unsent
    BY <1>5 DEF Apply, Drop, Reached, Blank
  <2>2. SentRight' /\ SentOwed' /\ ListedSent' /\ UnlistedRight'
    BY <2>1 DEF SentRight, SentOwed, ListedSent, UnlistedRight
  <2>3. HeldRight'
    <3> SUFFICES ASSUME taint' = {}, NEW i \in Records PROVE Right(held[i], i, cursor)'
      BY DEF HeldRight
    <3>1. /\ cursor' = Ref /\ seen = {} /\ (since = None \/ taint = {})
          /\ held'[i] = (IF got[i] # Unsent THEN got[i]
                         ELSE IF since = None THEN None ELSE held[i])
      BY <1>3, <1>5 DEF Apply
    <3>2. flaws = {} /\ (PageSize < Cardinality(listing) => listing = Selected(since))
      <4>1. PageSize < Cardinality(listing) /\ listing # Selected(since) => "torn" \in seen
        OBVIOUS
      <4> QED
        BY <3>1, <4>1
    <3>3. i \in listing => got[i] # Unsent
      <4> SUFFICES ASSUME i \in listing PROVE got[i] # Unsent
        OBVIOUS
      <4>1. Rank(i, listing) \in Nat /\ Cardinality(listing) \in Nat
            /\ Rank(i, listing) < Cardinality(listing)
        BY <1>1, RankBelow DEF TypeOK
      <4>2. Cardinality(listing) <= offset + PageSize
        BY <1>1, <1>5, <3>2, <4>1
      <4>3. Rank(i, listing) < UpTo
        BY <1>1, <1>3, <4>1, <4>2
      <4> QED
        BY <1>1, <3>2, <4>3 DEF CopyRight, ListedSent
    <3>4. PICK x, t : x = held'[i] /\ t = cursor'
      OBVIOUS
    <3>5. Right(x, i, t)
      <4>1. CASE got[i] # Unsent
        BY <1>1, <3>1, <3>4, <4>1 DEF CopyRight, SentRight
      <4>2. CASE got[i] = Unsent
        BY <1>1, <3>1, <3>2, <3>3, <3>4, <4>2 DEF CopyRight, UnlistedRight
      <4> QED
        BY <4>1, <4>2
    <3>6. Right(x, i, t)'
      BY <3>5, StillRight
    <3> QED
      BY <3>4, <3>6 DEF Right, Lapsed, Moved
  <2> QED
    BY <2>2, <2>3 DEF CopyRight
<1> QED
  BY <1>2, <1>4, <1>5 DEF Respond

\* Whatever any of them does, the copy stays right.
LEMMA CopyInv ==
    ASSUME SyncInvariant, [Next]_vars
    PROVE  CopyRight'
<1>1. CASE Elsewhere
  <2>1. WorldStep /\ UNCHANGED <<pc, labels, since, offset, client>>
    BY <1>1 DEF Elsewhere, request
  <2> QED
    BY <2>1, CopyStays
<1>2. CASE UNCHANGED <<collection, now, world>> /\ (Abandons \/ Arrives \/ Passes \/ ReadAsOf)
  <2>1. WorldStep
    BY <1>2 DEF WorldStep
  <2>2. CASE Abandons
    BY <1>2, <2>2, AfreshRight DEF Abandons, Drop
  <2>3. CASE Arrives /\ pc = "idle"
    BY <1>2, <2>3, AfreshRight DEF Arrives
  <2>4. CASE Arrives /\ pc = "more"
    <3>1. UNCHANGED <<since, offset, client>> /\ pc' # "count" /\ pc # "count"
      BY <2>4 DEF Arrives, client
    <3> QED
      BY <2>1, <3>1, CopyStays
  <2>5. CASE Passes
    <3>1. UNCHANGED <<since, offset, client>> /\ pc' # "count" /\ pc # "count"
      BY <2>5 DEF Passes
    <3> QED
      BY <2>1, <3>1, CopyStays
  <2>6. CASE ReadAsOf
    <3>1. UNCHANGED <<since, offset, client>> /\ pc' # "count" /\ pc # "count"
      BY <2>6 DEF ReadAsOf
    <3> QED
      BY <2>1, <3>1, CopyStays
  <2> QED
    BY <1>2, <2>2, <2>3, <2>4, <2>5, <2>6 DEF Arrives
<1>3. CASE UNCHANGED <<collection, now, world>> /\ FetchPage
  BY <1>3, FetchPageRight
<1>4. CASE UNCHANGED <<collection, now, world>> /\ Respond
  BY <1>4, RespondRight
<1>5. IndInv
  BY DEF SyncInvariant
<1> QED
  BY <1>1, <1>2, <1>3, <1>4, <1>5, Kinds

\* The views' first contents, and the logs' seeds.
LEMMA InitOrdered ==
    ASSUME Init, IndInv
    PROVE  LogsOrdered
<1>1. now = 0 /\ UtcTimestamp(0) \in Nat /\ UtcTimestamp(0) <= 0
  BY Utc DEF Init
<1>2. UtcTimestamp(0) = 0
  BY <1>1
<1>3. CASE mv = [p \in Rows |-> Absent] /\ log = [p \in Rows |-> None]
  BY <1>3, RowsOfView DEF LogsOrdered, OneLive, OneLogged, StampsPast, StampsInOrder
<1>4. CASE /\ \A v \in Views : IF v \in SourceViews
                  THEN [p \in RowsOf(v) |-> mv[p]] \in Contents(v)
                  ELSE \A p \in RowsOf(v) : mv[p] = Absent
           /\ log = [p \in Rows |-> IF mv[p] = Absent THEN None ELSE Entry(mv[p], now)]
           /\ finished = [v \in Views |-> 0]
  <2>1. OneLive
    <3> SUFFICES ASSUME NEW v \in Views, NEW p \in RowsOf(v), NEW q \in RowsOf(v), Twins(v, p, q)
                 PROVE  mv[p] = Absent \/ mv[q] = Absent
      BY DEF OneLive
    <3>1. CASE v \notin SourceViews
      BY <1>4, <3>1
    <3>2. CASE v \in SourceViews
      <4>1. [r \in RowsOf(v) |-> mv[r]] \in Contents(v)
        BY <1>4, <3>2
      <4>2. PICK f \in Contents(v) : f = [r \in RowsOf(v) |-> mv[r]]
        BY <4>1
      <4>3. f[p] = mv[p] /\ f[q] = mv[q]
        BY <4>2
      <4>4. f[p] # Absent /\ f[q] # Absent /\ p # q =>
               IF v = "learner" THEN LearnerId[p] # LearnerId[q] ELSE EnrollmentId[p] # EnrollmentId[q]
        BY DEF Contents
      <4> QED
        BY <4>3, <4>4 DEF Twins, Identity
    <3> QED
      BY <3>1, <3>2
  <2>2. \A p \in Rows : log[p] # None => mv[p] # Absent /\ log[p].on = 0
    BY <1>1, <1>2, <1>4 DEF Entry
  <2>3. OneLogged
    BY <2>1, <2>2, RowsOfView DEF OneLive, OneLogged, Twins
  <2>4. StampsPast /\ StampsInOrder
    BY <1>1, <1>2, <1>4, <2>2, RowsOfView DEF StampsPast, StampsInOrder
  <2> QED
    BY <2>1, <2>3, <2>4 DEF LogsOrdered
<1> QED
  BY <1>3, <1>4 DEF Init

\* The whole invariant, in every behaviour.
THEOREM SyncInvariantHolds == Spec => []SyncInvariant
<1>1. Init => SyncInvariant
  <2> SUFFICES ASSUME Init PROVE SyncInvariant
    OBVIOUS
  <2>1. IndInv
    BY InitInv
  <2>2. LogsOrdered
    BY <2>1, InitOrdered
  <2>3. TimesLegit
    <3>1. Labelled = {}
      BY DEF Init, Labelled
    <3>2. \A v \in Views : asOfCache[v] = Cold
      BY DEF Init
    <3>3. \A v \in Views : finished[v] \in {None, 0} /\ now = 0
      BY DEF Init
    <3>4. FinishedPast
      BY <3>3 DEF FinishedPast
    <3>5. cursor = None /\ offset = 0 /\ pc = "idle" /\ since = None /\ got = Blank
      BY DEF Init
    <3> QED
      BY <3>1, <3>2, <3>4, <3>5 DEF TimesLegit, CacheNotAhead, LabelsNotAhead, CursorNotAhead,
         SinceIsCursor, Legit
  <2>4. CopyRight
    <3>1. cursor = None /\ ~Reached /\ \A i \in Records : got[i] = Unsent
      BY DEF Init, Reached, Blank
    <3> QED
      BY <3>1 DEF CopyRight, SentRight, SentOwed, ListedSent, UnlistedRight, HeldRight, Right, Lapsed
  <2> QED
    BY <2>1, <2>2, <2>3, <2>4 DEF SyncInvariant
<1>2. SyncInvariant /\ IndInv' /\ [Next]_vars => SyncInvariant'
  <2> SUFFICES ASSUME SyncInvariant, IndInv', [Next]_vars PROVE SyncInvariant'
    OBVIOUS
  <2>1. IndInv /\ TimesLegit /\ FinishedPast /\ LogsOrdered
    BY DEF SyncInvariant, TimesLegit
  <2>2. TimesLegit'
    BY <2>1, Kinds, ElsewhereTimes, RequestTimes
  <2>3. WorldStep
    BY <2>1, Kinds DEF Elsewhere, WorldStep
  <2>4. LogsOrdered'
    BY <2>1, <2>3, StaysOrdered
  <2> QED
    BY <2>2, <2>4, CopyInv DEF SyncInvariant
<1> QED
  BY <1>1, <1>2, IndInvHolds, PTL DEF Spec
-----------------------------------------------------------------------------
(* What the contract promises                                              *)

\* The cursors the service refuses by retention or by a log's start.
Refused ==
    \/ cursor = None \/ ~WithinRetention(cursor)
    \/ \E v \in SourceViews : LogStart(v) = None \/ cursor < LogStart(v)

\* A lapsed cursor is refused.
LEMMA LapsedRefused ==
    ASSUME IndInv, Lapsed(cursor)
    PROVE  Refused
<1> SUFFICES ASSUME cursor # None PROVE Refused
  BY DEF Refused
<1>1. /\ cursor \in Nat /\ now \in Nat /\ Retention \in Nat /\ MaxRequest \in Nat
      /\ TypeOK /\ LogsSeeded /\ None \notin Nat
  BY SyncAssumption DEF SyncAssumption, IndInv, TypeOK
<1>2. CASE cursor + Retention + MaxRequest < now
  BY <1>1, <1>2 DEF Refused, WithinRetention
<1>3. ASSUME NEW v \in SourceViews, created[v] = None \/ cursor < created[v] PROVE Refused
  <2>1. v \in Views
    BY SourcesShape
  <2>2. created[v] \in Nat \cup {None} /\ LogStart(v) \in Nat \cup {None}
        /\ (LogStart(v) # None => created[v] # None /\ created[v] <= LogStart(v))
    BY <1>1, <2>1, LogStartType DEF TypeOK
  <2>3. LogStart(v) = None \/ cursor < LogStart(v)
    BY <1>1, <1>3, <2>2
  <2> QED
    BY <2>3 DEF Refused
<1> QED
  BY <1>2, <1>3 DEF Lapsed

\* What is owed, in terms of the rows that moved.
LEMMA OwedIs ==
    ASSUME IndInv
    PROVE  /\ Owed \subseteq Records
           /\ Refused => Owed = Records
           /\ ~Refused => \A i \in Records : i \in Owed <=> \E p \in Built(i) : Moved(p, cursor)
<1>1. Owed = IF Refused THEN Records
             ELSE {i \in Records : \E p \in Built(i) :
                      Unstamped(p) \/ (log[p] # None /\ log[p].on >= WholeSecond(cursor))}
  BY DEF Owed, Refused
<1>2. ASSUME ~Refused, NEW i \in Records, NEW p \in Built(i)
      PROVE  Moved(p, cursor) <=>
                Unstamped(p) \/ (log[p] # None /\ log[p].on >= WholeSecond(cursor))
  <2>1. p \in Rows /\ cursor \in Nat
    BY <1>2, ReadsSourced DEF IndInv, TypeOK, Built, Refused
  <2>2. WholeSecond(cursor) \in Int /\ (log[p] # None => log[p].on \in Nat)
    BY <2>1, Rounding DEF IndInv, TypeOK
  <2> QED
    BY <2>2 DEF Moved
<1> QED
  BY <1>1, <1>2

\* A partner's copy made of syncs without a flaw never silently keeps a wrong
\* record (updated_since, as_of, the change logs and both refusals together),
\* for any rows, pages, refreshes, rebuilds, purges and failures in any order.
THEOREM NothingIsLost == Spec => []NothingLost
<1>1. SyncInvariant => NothingLost
  <2> SUFFICES ASSUME SyncInvariant, taint = {}, NEW i \in Records, held[i] # Body(i)
               PROVE  i \in Owed
    BY DEF NothingLost, Settled
  <2>1. IndInv /\ Right(held[i], i, cursor)
    BY DEF SyncInvariant, CopyRight, HeldRight
  <2>2. CASE Refused
    BY <2>1, <2>2, OwedIs
  <2>3. CASE ~Refused
    <3>1. PICK p \in Decisive(i) : Moved(p, cursor)
      BY <2>1, <2>3, LapsedRefused DEF Right
    <3>2. p \in Built(i)
      BY <3>1 DEF Decisive
    <3> QED
      BY <2>1, <2>3, <3>1, <3>2, OwedIs
  <2> QED
    BY <2>2, <2>3
<1> QED
  BY <1>1, SyncInvariantHolds, PTL

\* The replica's truth and debt.
Truth == [i \in Records |-> Body(i)]
Owing == IF taint = {} THEN Owed ELSE Records

\* A refresh publishes: what it changed is owed until it is stamped, and what
\* was owed stays so.
LEMMA RefreshPublishes ==
    ASSUME IndInv, NEW v \in Views, Refresh(v)
    PROVE  Owing \subseteq Owing' /\ \A i \in Records : Body(i)' # Body(i) => i \in Owing'
<1>1. /\ UNCHANGED <<collection, now, log, created, foreign, cursor, taint>>
      /\ v \in SourceViews /\ (created[v] # None => \A p \in RowsOf(v) : ~Unstamped(p))
  BY DEF Refresh, client
<1>2. PICK f : mv' = [p \in Rows |-> IF p \in RowsOf(v) THEN f[p] ELSE mv[p]]
  BY DEF Refresh
<1>3. SourceViews' = SourceViews /\ \A w : LogStart(w)' = LogStart(w)
  BY <1>1, SameSources DEF LogStart, Stamps, Logged
<1>4. Refused' <=> Refused
  BY <1>1, <1>3 DEF Refused, WithinRetention
<1>5. CASE taint # {}
  BY <1>1, <1>5 DEF Owing
<1>6. CASE Refused
  <2>1. Owed' = Records
    BY <1>4, <1>6 DEF Owed, Refused
  <2>2. Owing' = Records
    BY <2>1 DEF Owing
  <2>3. Owing \subseteq Records
    BY OwedIs DEF Owing
  <2> QED
    BY <2>2, <2>3
<1>7. CASE taint = {} /\ ~Refused
  <2>1. created[v] # None
    <3>1. LogStart(v) # None /\ v \in Views
      BY <1>1, <1>7 DEF Refused
    <3> QED
      BY <3>1, LogStartType DEF IndInv
  <2>2. \A p \in RowsOf(v) : ~Unstamped(p)
    BY <1>1, <2>1
  <2>3. Owing = {i \in Records : \E p \in Built(i) :
                    Unstamped(p) \/ (log[p] # None /\ log[p].on >= WholeSecond(cursor))}
    BY <1>7 DEF Owing, Owed, Refused
  <2>4. Owing' = {i \in Records : \E p \in Built(i)' :
                     Unstamped(p)' \/ (log'[p] # None /\ log'[p].on >= WholeSecond(cursor'))}
    BY <1>1, <1>4, <1>7 DEF Owing, Owed, Refused, WholeSecond
  <2>5. ASSUME NEW i \in Records
        PROVE  /\ Built(i)' = Built(i) /\ Built(i) \subseteq Rows
               /\ \A p \in Built(i) : Unstamped(p) => Unstamped(p)'
               /\ \A p \in Built(i) : mv'[p] # mv[p] => Unstamped(p)'
    <3>1. Built(i)' = Built(i) /\ Built(i) \subseteq Rows
      BY <1>1, ReadsSourced DEF Built, Reads, Id, IndInv
    <3>2. ASSUME NEW p \in Built(i), Unstamped(p) PROVE Unstamped(p)'
      <4>1. p \notin RowsOf(v) /\ p \in Rows
        BY <2>2, <3>1, <3>2
      <4> QED
        BY <1>1, <1>2, <3>2, <4>1 DEF Unstamped
    <3>3. ASSUME NEW p \in Built(i), mv'[p] # mv[p] PROVE Unstamped(p)'
      <4>1. p \in RowsOf(v)
        BY <1>2, <3>1, <3>3
      <4> QED
        BY <1>1, <2>2, <3>3, <4>1 DEF Unstamped
    <3> QED
      BY <3>1, <3>2, <3>3
  <2>6. ASSUME NEW i \in Owing PROVE i \in Owing'
    BY <1>1, <2>3, <2>4, <2>5, <2>6
  <2>7. ASSUME NEW i \in Records, Body(i)' # Body(i) PROVE i \in Owing'
    <3>1. \E p \in Built(i) : mv'[p] # mv[p]
      <4> SUFFICES ASSUME \A p \in Built(i) : mv'[p] = mv[p] PROVE Body(i)' = Body(i)
        BY <2>7
      <4>1. Holds' = Holds
        BY <1>1 DEF Holds, Reads
      <4>2. LiveRows(i)' = LiveRows(i)
        BY <2>5, <4>1 DEF LiveRows
      <4>3. {<<ViewOf(p), mv'[p]>> : p \in {q \in Built(i) : mv'[q] # Absent}}
            = {<<ViewOf(p), mv[p]>> : p \in {q \in Built(i) : mv[q] # Absent}}
        OBVIOUS
      <4>4. Body(i)' = IF LiveRows(i)' = {} THEN None
                       ELSE {<<ViewOf(p), mv'[p]>> : p \in {q \in Built(i) : mv'[q] # Absent}}
        BY <2>5 DEF Body, ViewOf
      <4> QED
        BY <4>2, <4>3, <4>4 DEF Body
    <3> QED
      BY <2>4, <2>5, <3>1
  <2> QED
    BY <2>6, <2>7
<1> QED
  BY <1>5, <1>6, <1>7

\* A sync changes no record that was not owed.
LEMMA OnlyOwedChanges ==
    ASSUME SyncInvariant, [Next]_vars, NEW i \in Records, i \notin Owing
    PROVE  held'[i] = held[i]
<1>1. IndInv /\ TypeOK /\ taint = {} /\ i \notin Owed
  BY DEF SyncInvariant, IndInv, Owing
<1>2. ~Refused /\ ~Lapsed(cursor) /\ cursor # None /\ \A p \in Built(i) : ~Moved(p, cursor)
  BY <1>1, OwedIs, LapsedRefused DEF Refused
<1>3. CASE held' # held
  <2>1. Respond
    BY <1>1, <1>3, Kinds DEF Elsewhere, client, Abandons, Arrives, Passes, ReadAsOf, FetchPage
  <2>2. /\ pc = "count"
        /\ held' = [j \in Records |-> IF got[j] # Unsent THEN got[j]
                                      ELSE IF since = None THEN None ELSE held[j]]
    BY <1>3, <2>1 DEF Respond, Apply
  <2>3. since = cursor
    BY <2>2 DEF SyncInvariant, TimesLegit, SinceIsCursor
  <2>4. got[i] = Unsent
    BY <1>2, <2>3 DEF SyncInvariant, CopyRight, SentOwed
  <2> QED
    BY <1>2, <2>2, <2>3, <2>4
<1> QED
  BY <1>3

\* The service, its warehouse and a client of its contract implement
\* PartnerReplica: a sync changes only what was owed, and whatever is not
\* owed after it is right.
THEOREM ReplicaImplemented == Spec => ImplementsReplica
<1> DEFINE Copies == [Records -> Bodies \cup {None}]
           Typed == Truth \in Copies /\ held \in Copies /\ Owing \in SUBSET Records
<1>1. IndInv => Typed
  <2> SUFFICES ASSUME IndInv PROVE Typed
    OBVIOUS
  <2>1. Truth \in Copies
    BY BodyType DEF Truth, IndInv
  <2>2. Owing \in SUBSET Records
    BY OwedIs DEF Owing
  <2> QED
    BY <2>1, <2>2 DEF IndInv, TypeOK
<1>2. Init => Replica!Init
  <2> SUFFICES ASSUME Init PROVE Replica!Init
    OBVIOUS
  <2>1. Owing = Records
    BY DEF Init, Owing, Owed
  <2>2. Truth \in Copies /\ held \in Copies
    BY <1>1, InitInv
  <2> QED
    BY <2>1, <2>2 DEF Replica!Init, Replica!Copies, Truth, Owing
<1>3. SyncInvariant /\ Typed' /\ NothingLost' /\ [Next]_vars => [Replica!Next]_(Replica!vars)
  <2> SUFFICES ASSUME SyncInvariant, Typed', NothingLost', [Next]_vars
               PROVE  Replica!Publish \/ Replica!Deliver
    BY DEF Replica!Next
  <2>1. IndInv
    BY DEF SyncInvariant
  <2>3. Truth' \in Copies /\ held' \in Copies /\ Owing' \in SUBSET Records
    OBVIOUS
  <2>4. ASSUME NEW v \in Views, Refresh(v) PROVE Replica!Publish
    <3>1. UNCHANGED held
      BY <2>4 DEF Refresh, client
    <3>2. Owing \cup {i \in Records : Truth'[i] # Truth[i]} \subseteq Owing'
      <4>1. \A i \in Records : Truth[i] = Body(i) /\ Truth'[i] = Body(i)'
        BY DEF Truth
      <4> QED
        BY <2>1, <2>4, <4>1, RefreshPublishes
    <3> QED
      BY <2>3, <3>1, <3>2 DEF Replica!Publish, Replica!Copies, Truth, Owing
  <2>5. CASE ~\E v \in Views : Refresh(v)
    <3>1. UNCHANGED <<collection, mv>>
      BY <2>1, <2>5, Kinds DEF Elsewhere, WorldStep, Stamp, Rebuild, Purge, Tick, world
    <3>2. Truth' = Truth
      BY <3>1 DEF Truth, Body, LiveRows, Built, Reads, Holds, Id, ViewOf
    <3>3. \A i \in Records \ Owing : held'[i] = held[i]
      BY OnlyOwedChanges
    <3>4. \A i \in Records \ Owing' : held'[i] = Truth[i]
      <4> SUFFICES ASSUME NEW i \in Records, i \notin Owing' PROVE held'[i] = Truth'[i]
        BY <3>2
      <4>1. taint' = {} /\ i \notin Owed'
        BY DEF Owing
      <4> QED
        BY <4>1 DEF NothingLost, Settled, Truth
    <3> QED
      BY <2>3, <3>2, <3>3, <3>4
      DEF Replica!Deliver, Replica!Settled, Replica!Copies, Truth, Owing
  <2> QED
    BY <2>4, <2>5
<1> QED
  BY <1>1, <1>2, <1>3, SyncInvariantHolds, IndInvHolds, NothingIsLost, PTL
  DEF Spec, ImplementsReplica, Replica!Spec
=============================================================================
