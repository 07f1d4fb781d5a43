------------------------- MODULE MCCrossGrainGuard -------------------------
(* CrossGrainGuard on a small organization. *)
EXTENDS CrossGrainGuard, TLC

Symmetry == Permutations(Contracts) \cup Permutations(Months)
=============================================================================
