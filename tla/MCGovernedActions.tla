-------------------------- MODULE MCGovernedActions --------------------------
(***************************************************************************)
(* Instances of GovernedActions for TLC.                                   *)
(***************************************************************************)
EXTENDS GovernedActions, TLC

CONSTANTS m1, m2, a1, a2, a3, k1

Symmetry == Permutations(Servers) \cup Permutations(Actions)

=============================================================================
