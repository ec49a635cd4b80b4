--------------------------- MODULE MCReceiptChain ---------------------------
(***************************************************************************)
(* Instances of ReceiptChain for TLC.                                      *)
(***************************************************************************)
EXTENDS ReceiptChain, TLC

CONSTANTS w1, w2, act1, act2, act3

\* "bot" and " bot" are one agent once stripped.
MCAgentNames == {"bot", " bot"}

MCNormalize == [a \in AgentNames |-> "bot"]

Symmetry == Permutations(Writers) \cup Permutations(Actions)

=============================================================================
