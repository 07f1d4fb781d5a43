------------------------- MODULE CohortSuppression -------------------------
(***************************************************************************)
(* The k-anonymity floor (core/anonymization.py): a CohortPolicy is        *)
(* validated when it is declared, and then suppress_small_cohorts() takes  *)
(* each row of a response through it.  A declaration is any member of      *)
(* Policies, well formed or not; a row gives every cohort a count or NULL. *)
(*                                                                         *)
(* The order in which the loop visits the (subset, container) pairs is the *)
(* order a dictionary was written in.  Here it is any order, so what holds *)
(* does not depend on how a model spells its policy.                       *)
(***************************************************************************)
EXTENDS Disclosure

CONSTANTS
    Primary,    \* the headline cohort
    Secondary,  \* the other cohorts of a row
    Policies,   \* declarations: [contained_in, uncontained, derived]
    MaxCount    \* bound: largest count in a row

Cohorts == Secondary \cup {Primary}
Counts  == 0..MaxCount

ASSUME SuppressionAssumption ==
    /\ Floor \in Nat \ {0} /\ MaxCount \in Nat
    /\ Primary \notin Secondary
    /\ NULL \notin Int /\ NULL \notin Cohorts

VARIABLES
    policy,      \* the declaration
    phase,       \* declare, walk, ready, pass, published, dropped or rejected
    unwalked,    \* subsets whose containers validation has yet to walk
    from,        \* the subset being walked, NULL between walks
    at,          \* the container the walk has reached, NULL at the end
    pairs,       \* complement_pairs(): (subset, container), transitive
    row,         \* the row being suppressed
    suppressed,  \* the cohorts withheld so far
    pending,     \* pairs this pass has yet to visit
    changed,     \* the pass suppressed something
    passes,      \* passes begun for this row
    shown,       \* the row as published
    shownDerived \* the derived columns published with it

walkVars == <<unwalked, from, at, pairs>>
passVars == <<suppressed, pending, changed, passes>>
outVars  == <<shown, shownDerived>>
vars == <<policy, phase, walkVars, row, passVars, outVars>>

Declared == DOMAIN policy.contained_in
\* self.contained_in.get(c)
ContainerOf(c) == IF c \in Declared THEN policy.contained_in[c] ELSE NULL
Rows == [Cohorts -> Counts \cup {NULL}]

Init ==
    /\ policy \in Policies
    /\ phase = "declare"
    /\ unwalked = {} /\ from = NULL /\ at = NULL /\ pairs = {}
    /\ row = [c \in Cohorts |-> NULL]
    /\ suppressed = {} /\ pending = {} /\ changed = FALSE /\ passes = 0
    /\ shown = [c \in Cohorts |-> NULL] /\ shownDerived = {}

-----------------------------------------------------------------------------
(* CohortPolicy.__post_init__                                              *)

\* Every check of __post_init__ and _validate_containment() that looks at
\* one name at a time.
WellDeclared ==
    /\ \A d \in DOMAIN policy.derived : policy.derived[d] \subseteq Cohorts
    /\ Declared \subseteq Secondary
    /\ \A s \in Declared : policy.contained_in[s] \in Cohorts
    /\ policy.uncontained \subseteq Secondary
    /\ Declared \cap policy.uncontained = {}
    /\ Secondary \subseteq Declared \cup policy.uncontained

Declare ==
    /\ phase = "declare"
    /\ \/ WellDeclared /\ phase' = "walk" /\ unwalked' = Declared
       \/ ~WellDeclared /\ phase' = "rejected" /\ UNCHANGED unwalked
    /\ UNCHANGED <<policy, from, at, pairs, row, passVars, outVars>>

\* _ancestors(subset) begins: seen = {subset}.
StartWalk(s) ==
    /\ phase = "walk" /\ from = NULL
    /\ s \in unwalked
    /\ from' = s /\ at' = ContainerOf(s)
    /\ unwalked' = unwalked \ {s}
    /\ UNCHANGED <<policy, phase, pairs, row, passVars, outVars>>

\* Mutants: no seen set; one that is kept from walk to walk.
SeenNothing == {}
SeenAnywhere == {from} \cup {p[2] : p \in pairs}

\* The cohorts this walk has been through.
Seen == {from} \cup {c \in Cohorts : <<from, c>> \in pairs}

WalkOn ==
    /\ phase = "walk" /\ from # NULL /\ at # NULL
    /\ at \notin Seen
    /\ pairs' = pairs \cup {<<from, at>>}
    /\ at' = ContainerOf(at)
    /\ UNCHANGED <<policy, phase, unwalked, from, row, passVars, outVars>>

\* "Containment cycle through cohort ..."
WalkCycle ==
    /\ phase = "walk" /\ from # NULL /\ at # NULL
    /\ at \in Seen
    /\ phase' = "rejected"
    /\ UNCHANGED <<policy, walkVars, row, passVars, outVars>>

EndWalk ==
    /\ phase = "walk" /\ from # NULL /\ at = NULL
    /\ from' = NULL
    /\ UNCHANGED <<policy, phase, unwalked, at, pairs, row, passVars, outVars>>

Accept ==
    /\ phase = "walk" /\ from = NULL /\ unwalked = {}
    /\ phase' = "ready"
    /\ UNCHANGED <<policy, walkVars, row, passVars, outVars>>

-----------------------------------------------------------------------------
(* suppress_small_cohorts                                                  *)

\* The row is dropped whole, or its loop begins.
TakeRow(r) ==
    /\ phase = "ready"
    /\ row' = r
    /\ \/ BelowFloor(r[Primary]) /\ phase' = "dropped" /\ UNCHANGED passVars
       \/ /\ ~BelowFloor(r[Primary])
          /\ phase' = "pass"
          /\ suppressed' = {c \in Secondary : IsDisclosive(r[c])}
          /\ pending' = pairs /\ changed' = FALSE /\ passes' = 1
    /\ UNCHANGED <<policy, walkVars, outVars>>

\* Mutants: the transitive complements are skipped; a withheld container
\* takes its subsets with it.
SuppressesDirect(p) ==
    /\ p[1] \notin suppressed /\ p[2] \notin suppressed
    /\ p[2] = ContainerOf(p[1])
    /\ ComplementIsDisclosive(row[p[1]], row[p[2]])
SuppressesCascade(p) ==
    /\ p[1] \notin suppressed
    /\ IF p[2] \in suppressed THEN TRUE ELSE ComplementIsDisclosive(row[p[1]], row[p[2]])

\* A complement needs both sides visible to be computed.
Suppresses(p) ==
    /\ p[1] \notin suppressed /\ p[2] \notin suppressed
    /\ ComplementIsDisclosive(row[p[1]], row[p[2]])

\* Mutant: the pass always counts as changed.
VisitAlwaysChanges(p) ==
    /\ phase = "pass" /\ p \in pending
    /\ pending' = pending \ {p}
    /\ suppressed' = IF Suppresses(p) THEN suppressed \cup {p[1]} ELSE suppressed
    /\ changed' = TRUE
    /\ UNCHANGED <<policy, phase, walkVars, row, passes, outVars>>

\* One iteration of the for loop in _suppressed_cohorts().
VisitPair(p) ==
    /\ phase = "pass" /\ p \in pending
    /\ pending' = pending \ {p}
    /\ \/ Suppresses(p) /\ suppressed' = suppressed \cup {p[1]} /\ changed' = TRUE
       \/ ~Suppresses(p) /\ UNCHANGED <<suppressed, changed>>
    /\ UNCHANGED <<policy, phase, walkVars, row, passes, outVars>>

\* while changed
NextPass ==
    /\ phase = "pass" /\ pending = {} /\ changed
    /\ pending' = pairs /\ changed' = FALSE /\ passes' = passes + 1
    /\ UNCHANGED <<policy, phase, walkVars, row, suppressed, outVars>>

\* Mutant: a derived value is nulled only when all its cohorts are.
PublishUnlessAll ==
    /\ phase = "pass" /\ pending = {} /\ ~changed
    /\ phase' = "published"
    /\ shown' = [c \in Cohorts |-> IF c \in suppressed THEN NULL ELSE row[c]]
    /\ shownDerived' = {d \in DOMAIN policy.derived :
                            ~(policy.derived[d] \subseteq suppressed)}
    /\ UNCHANGED <<policy, walkVars, row, passVars>>

\* The loop settled: null the cohorts and what is derived from them.
Publish ==
    /\ phase = "pass" /\ pending = {} /\ ~changed
    /\ phase' = "published"
    /\ shown' = [c \in Cohorts |-> IF c \in suppressed THEN NULL ELSE row[c]]
    /\ shownDerived' = {d \in DOMAIN policy.derived :
                            policy.derived[d] \cap suppressed = {}}
    /\ UNCHANGED <<policy, walkVars, row, passVars>>

\* On to the next row of the response: redacted and suppressed are local to
\* one iteration.
NextRow ==
    /\ phase \in {"published", "dropped"}
    /\ phase' = "ready"
    /\ row' = [c \in Cohorts |-> NULL]
    /\ suppressed' = {} /\ pending' = {} /\ changed' = FALSE /\ passes' = 0
    /\ shown' = [c \in Cohorts |-> NULL] /\ shownDerived' = {}
    /\ UNCHANGED <<policy, walkVars>>

-----------------------------------------------------------------------------
WalkStep == (\E s \in Secondary : StartWalk(s)) \/ WalkOn \/ WalkCycle \/ EndWalk \/ Accept
PassStep == (\E p \in pairs : VisitPair(p)) \/ NextPass \/ Publish

\* A rejected declaration stops the import of the module that makes it.
Refused == phase = "rejected" /\ UNCHANGED vars

Next == Declare \/ WalkStep \/ (\E r \in Rows : TakeRow(r)) \/ PassStep \/ NextRow \/ Refused

Spec == Init /\ [][Next]_vars
\* Straight-line code: whatever has begun runs on.
FairSpec == Spec /\ WF_vars(Declare) /\ WF_vars(WalkStep)

-----------------------------------------------------------------------------
(* Properties                                                              *)

Phases == {"declare", "walk", "ready", "pass", "published", "dropped", "rejected"}

TypeOK ==
    /\ policy \in Policies
    /\ phase \in Phases
    /\ unwalked \in SUBSET Secondary
    /\ from \in Secondary \cup {NULL} /\ at \in Cohorts \cup {NULL}
    /\ pairs \in SUBSET (Secondary \X Cohorts)
    /\ row \in Rows
    /\ suppressed \in SUBSET Secondary
    /\ pending \in SUBSET pairs
    /\ changed \in BOOLEAN /\ passes \in Nat
    /\ shown \in Rows /\ shownDerived \in SUBSET DOMAIN policy.derived

Usable == phase \notin {"declare", "walk", "rejected"}

\* It holds each declared containment and is closed under the container's own.
PairsTransitive ==
    Usable =>
        /\ \A s \in Declared : <<s, policy.contained_in[s]>> \in pairs
        /\ \A p \in pairs : p[2] \in Declared =>
              <<p[1], policy.contained_in[p[2]]>> \in pairs

NoCohortInsideItself == Usable => \A s \in Secondary : <<s, s>> \notin pairs

\* Cohorts each inside another of them: a cycle, or the way into one.
Cyclic == \E S \in SUBSET Declared : S # {} /\ \A s \in S : policy.contained_in[s] \in S
OnlyCyclesRejected == phase = "rejected" /\ WellDeclared => Cyclic

\* Validation separates the partial orders from the rest, in whatever order the
\* cohorts are walked.  A policy it accepts has no cohort inside itself, at any
\* distance, and complement_pairs() is every pair, "including transitive ones";
\* and it says "containment cycle" of nothing else: neither two cohorts that
\* share a container nor a chain walked again from its middle is taken for one.
ValidationSound == PairsTransitive /\ NoCohortInsideItself /\ OnlyCyclesRejected

\* A published row shows no count that names fewer than Floor members, and
\* none whose complement within a visible container does -- whatever order
\* the pairs were visited in and whatever suppressed the containers.
PublishedRowSafe ==
    phase = "published" =>
        /\ shown[Primary] # NULL /\ shown[Primary] >= Floor
        /\ \A s \in Secondary : shown[s] # NULL => ~IsDisclosive(shown[s])
        /\ \A p \in pairs :
              shown[p[1]] # NULL /\ shown[p[2]] # NULL
              => ~ComplementIsDisclosive(shown[p[1]], shown[p[2]])

\* A derived value is published only when every cohort behind it is.
DerivedFollowCohorts ==
    phase = "published" =>
        \A d \in shownDerived : \A c \in policy.derived[d] : shown[c] # NULL

\* The comment on the loop bounds its passes by the depth of nesting.  The
\* bound is tighter: one pass finds everything, the second confirms it.
SettlesInOnePass ==
    /\ passes <= 2
    /\ passes = 2 => ~changed

\* Data is withheld for a reason of its own: the count is disclosive, or
\* its complement in a container that was itself publishable when visited.
NothingWithheldWithoutCause ==
    phase = "published" =>
        \A s \in Secondary : shown[s] = NULL =>
            \/ IsDisclosive(row[s])
            \/ \E p \in pairs : p[1] = s /\ ~IsDisclosive(row[p[2]])
                                /\ ComplementIsDisclosive(row[s], row[p[2]])

\* The ancestor walk ends, on a cyclic declaration too.
ValidationEnds == <>(phase \in {"ready", "rejected"})
=============================================================================
