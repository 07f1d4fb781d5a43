-------------------------- MODULE MCOrgManagerAuth --------------------------
(* OrgManagerAuth on small instances. *)
EXTENDS OrgManagerAuth, TLC

Symmetry == Permutations(Requests)
=============================================================================
