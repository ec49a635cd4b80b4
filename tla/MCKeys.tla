------------------------------- MODULE MCKeys -------------------------------
(* Two requests at once beside the event loop; the provider accepts the first *)
(* key only.                                                                 *)
EXTENDS Keys, TLC

MCConns == 1..2
MCStates == 1..2
CONSTANTS t1, t2
Symmetry == Permutations(Threads)
=============================================================================
