--------------------------- MODULE PartnerReplica ---------------------------
(***************************************************************************)
(* What the learner-records API promises a partner that keeps a copy of a  *)
(* collection and syncs it with updated_since (docs/openapi/               *)
(* b2b-learner-records-v1.yaml): whatever differs between the copy and the *)
(* collection is still owed to it, and a sync touches nothing else.  How   *)
(* the service knows what it owes is LearnerRecordsSync's business.        *)
(***************************************************************************)
CONSTANTS Records, Bodies, None

VARIABLES
    truth,  \* the collection: each record's body, None when it has none
    held,   \* the partner's copy
    owed    \* the records a coming sync will bring up to date

vars == <<truth, held, owed>>

Copies == [Records -> Bodies \cup {None}]

\* Everything outside owed is right.
Settled(truly, copy, debt) == \A i \in Records \ debt : copy[i] = truly[i]

Init ==
    /\ truth \in Copies /\ held \in Copies
    /\ owed = Records

\* The collection changes: the partner is owed what changed.
Publish ==
    /\ truth' \in Copies
    /\ owed' \in SUBSET Records
    /\ owed \cup {i \in Records : truth'[i] # truth[i]} \subseteq owed'
    /\ UNCHANGED held

\* A sync is applied: it changes only records that were owed, and whatever
\* is not owed afterwards is right.
Deliver ==
    /\ held' \in Copies
    /\ owed' \in SUBSET Records
    /\ \A i \in Records \ owed : held'[i] = held[i]
    /\ Settled(truth, held', owed')
    /\ UNCHANGED truth

Next == Publish \/ Deliver

Spec == Init /\ [][Next]_vars

\* The promise: an upsert-only copy never holds a wrong record silently.
OwedWhatDiffers == Settled(truth, held, owed)
=============================================================================
