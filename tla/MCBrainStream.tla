--------------------------- MODULE MCBrainStream ---------------------------
(***************************************************************************)
(* Instances of BrainStream for TLC.                                       *)
(***************************************************************************)
EXTENDS BrainStream, TLC

CONSTANTS s1, s2

Symmetry == Permutations(Sockets)

=============================================================================
