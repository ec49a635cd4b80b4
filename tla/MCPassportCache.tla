--------------------------- MODULE MCPassportCache ---------------------------
(***************************************************************************)
(* Instances of PassportCache for TLC.                                     *)
(***************************************************************************)
EXTENDS PassportCache, TLC

CONSTANTS studio, mcp1, mcp2

Symmetry == Permutations(Verifiers)

=============================================================================
