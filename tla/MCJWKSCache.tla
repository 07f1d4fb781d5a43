---------------------------- MODULE MCJWKSCache ----------------------------
(* JWKSCache on small instances: tasks are interchangeable, so are kids. *)
EXTENDS JWKSCache, TLC

Symmetry == Permutations(Tasks) \cup Permutations(Kids)
=============================================================================
