----------------------------- MODULE Disclosure -----------------------------
(* What makes one count, or one pair of counts, too small to publish       *)
(* (core/anonymization.py).                                                *)
EXTENDS Integers

CONSTANTS
    Floor,      \* settings.anonymization_floor
    NULL        \* a column with no value

\* _is_disclosive(): NULL is unknown, and unknown is suppressed.
IsDisclosive(value) == value = NULL \/ (0 < value /\ value < Floor)

\* _complement_is_disclosive(): a negative complement fails closed.
ComplementIsDisclosive(subset, container) ==
    container - subset # 0 /\ container - subset < Floor

\* (value or 0) < floor: the row gate of suppress_small_cohorts().
BelowFloor(value) == (IF value = NULL THEN 0 ELSE value) < Floor
=============================================================================
