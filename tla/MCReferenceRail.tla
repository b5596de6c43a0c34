-------------------------- MODULE MCReferenceRail --------------------------
(* Instances of module ReferenceRail for TLC. *)
EXTENDS ReferenceRail, TLC

CONSTANTS p1, p2

symm == Permutations(Payments)
=============================================================================
