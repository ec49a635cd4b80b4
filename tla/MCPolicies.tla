---------------------------- MODULE MCPolicies ----------------------------
(* Three contents of the policy directory: repeats of risky actions denied, the *)
(* same after a rule of its own for some, and one that cannot be read.         *)
EXTENDS Policies, PolicyGrammar

CONSTANTS t1, t2
Symmetry == Permutations(Threads)

MCVersions == {"v1", "v2", "broken"}
Repeated == <<"rate", "(", ")">>
MCTexts ==
  [v \in MCVersions |->
     CASE v = "v1" -> <<[when |-> <<"not", "p", "and">> \o Repeated, then |-> "deny"]>>
       [] v = "v2" -> <<[when |-> <<"p", "or", "q", "==", "true">>, then |-> "correct"],
                        [when |-> Repeated \o <<"==", "true">>, then |-> "deny"]>>
       [] v = "broken" -> <<[when |-> <<"p", "and", "(", "q", ")">>, then |-> "deny"]>>]
Finds(p, alert) ==
  [x \in {"p", "q", "true", "alert"} |->
     CASE x = "p" -> p [] x = "alert" -> alert [] x = "q" -> "null" [] OTHER -> "true"]
MCFacts == {Finds("false", "false"), Finds("true", "false"), Finds("false", "true")}

(* An evaluator reads every condition as it was written: "not" binds tighter    *)
(* than "and", "and" than "or", comparisons tighter than all, all to the left;  *)
(* but a parenthesis after "and", "or" or "contains" makes the file unreadable: *)
(* it is never read as anything else.                                         *)
ConditionsAreReadAsWritten == engine # "off" => Misread = {}
=============================================================================
