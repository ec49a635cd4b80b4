------------------------------ MODULE MCUpkeep ------------------------------
(* An entity that arrives and one that is there, in three worlds that call   *)
(* for different rules: R1 and R6, R3 and R7, R2 and R4 and R5.              *)
EXTENDS Upkeep

CONSTANTS a, b, billing, policy

Says(bill, pol, kinds, past, topic) ==
  [given |-> None, score |-> billing :> bill @@ policy :> pol, kinds |-> kinds,
   cites |-> None, past |-> past, topic |-> topic]

MCWorlds == {
  a :> Says(3, 0, {}, 0, 1) @@ b :> Says(0, 2, {"decision"}, 0, 1),
  a :> Says(0, 3, {"process"}, 0, 1) @@ b :> Says(1, 1, {}, 0, 1),
  a :> Says(0, 3, {"urgent"}, 2, 1) @@ b :> Says(0, 2, {"runbook", "incident"}, 0, 2)}
=============================================================================
