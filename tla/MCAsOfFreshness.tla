-------------------------- MODULE MCAsOfFreshness --------------------------
(* AsOfFreshness on small instances. *)
EXTENDS AsOfFreshness, TLC

Symmetry == Permutations(Requests) \cup Permutations(Views)
=============================================================================
