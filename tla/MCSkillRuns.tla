----------------------------- MODULE MCSkillRuns -----------------------------
(***************************************************************************)
(* Instances of SkillRuns for TLC.                                         *)
(***************************************************************************)
EXTENDS SkillRuns, TLC

CONSTANTS c1, c2, c3

Symmetry == Permutations(Calls)

=============================================================================
