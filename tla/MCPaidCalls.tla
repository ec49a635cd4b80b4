----------------------------- MODULE MCPaidCalls -----------------------------
(***************************************************************************)
(* Instances of PaidCalls for TLC.                                         *)
(***************************************************************************)
EXTENDS PaidCalls, TLC

CONSTANTS r1, r2, r3

Symmetry == Permutations(Requests)

=============================================================================
