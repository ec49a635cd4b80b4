--------------------------- MODULE PolicyGrammar ---------------------------
(* The conditions of policies (src/axiom/policy/dsl.py): how a recursive        *)
(* descent reads them, and what they say.                                     *)
(*                                                                            *)
(* A condition is a sequence of tokens; literals and dotted names are names.    *)
(* What the predicates find counts as a fact of the request, save               *)
(* rate.same_action_within ("rate"), which keeps a history (Policies).          *)
(* A definition that nothing uses, before the one it could stand in for, is a   *)
(* way the code could go wrong.                                                *)
EXTENDS Naturals, Sequences, SequencesExt, TLC

CONSTANT Texts  \* of each version of the policy directory: its rules in file order

-----------------------------------------------------------------------------
(* The grammar: a parser descends from "or" to names, one level at a time.     *)

NotLevel == 3
CallLevel == 5
OperatorsSwapped(n) ==
  CASE n = 1 -> {"and"} [] n = 2 -> {"or"} [] n = 4 -> {"==", "contains"} [] OTHER -> {}
Operators(n) ==
  CASE n = 1 -> {"or"} [] n = 2 -> {"and"} [] n = 4 -> {"==", "contains"} [] OTHER -> {}
Predicates == {"rate", "alert"}
Names == {"p", "q", "true", "or", "and", "not", "contains"} \cup Predicates

Name(x) == [op |-> "name", id |-> x, args |-> <<>>]
Call(x, es) == [op |-> "call", id |-> x, args |-> es]
Node(o, es) == [op |-> o, id |-> o, args |-> es]
Error == Name("error")
Token(s, i) == IF i <= Len(s) THEN s[i] ELSE "end"

\* What a part of the parser returns: the token that follows, and what it has
\* read; token 0 follows an error.
Fails == [at |-> 0, read |-> <<>>]
Failed(r) == r.at = 0

RECURSIVE Level(_, _, _), Rest(_, _, _), Called(_, _), Arguments(_, _, _)

Arguments(s, i, es) ==
  LET r == Level(1, s, i)
  IN  CASE Failed(r) -> Fails
        [] ~Failed(r) /\ Token(s, r.at) = ")" -> [at |-> r.at + 1, read |-> es \o r.read]
        [] ~Failed(r) /\ Token(s, r.at) = "," -> Arguments(s, r.at + 1, es \o r.read)
        [] OTHER -> Fails

\* The call of the name at token i, with what may stand before it.
CallAt(s, i, before) ==
  LET r == IF Token(s, i + 2) = ")" THEN [at |-> i + 3, read |-> before]
           ELSE Arguments(s, i + 2, before)
  IN  IF Failed(r) THEN Fails ELSE [r EXCEPT !.read = <<Call(s[i], @)>>]

Calls(s, i) == Token(s, i) \in Names /\ Token(s, i + 1) = "("

Primary(s, i) ==
  CASE Token(s, i) = "(" ->
         LET r == Level(1, s, i + 1)
         IN  IF ~Failed(r) /\ Token(s, r.at) = ")" THEN [r EXCEPT !.at = @ + 1] ELSE Fails
    [] Calls(s, i) -> CallAt(s, i, <<>>)
    [] Token(s, i) \in Names /\ ~Calls(s, i) -> [at |-> i + 1, read |-> <<Name(s[i])>>]
    [] OTHER -> Fails

\* Any name before a parenthesis is called, with what stands before it as its
\* first argument.
Called(s, r) ==
  IF ~Failed(r) /\ Calls(s, r.at) THEN Called(s, CallAt(s, r.at, r.read)) ELSE r

\* Operators of one level group to the left.
Rest(n, s, left) ==
  IF Failed(left) \/ Token(s, left.at) \notin Operators(n) THEN left
  ELSE LET right == Level(n + 1, s, left.at + 1)
       IN  IF Failed(right) THEN Fails
           ELSE Rest(n, s, [right EXCEPT !.read =
                              <<Node(Token(s, left.at), left.read \o @)>>])

Level(n, s, i) ==
  CASE n = CallLevel -> Called(s, Primary(s, i))
    [] n = NotLevel /\ Token(s, i) = "not" ->
         LET r == Level(NotLevel, s, i + 1)
         IN  IF Failed(r) THEN Fails ELSE [r EXCEPT !.read = <<Node("not", @)>>]
    [] n = NotLevel /\ Token(s, i) # "not" -> Level(n + 1, s, i)
    [] OTHER -> Rest(n, s, Level(n + 1, s, i))

\* What calls anything but a predicate is refused once all is read.
RECURSIVE Known(_)
Known(e) ==
  /\ e.op = "call" => e.id \in Predicates
  /\ \A i \in DOMAIN e.args : Known(e.args[i])

Parse(s) ==
  LET r == Level(1, s, 1)
  IN  IF ~Failed(r) /\ r.at = Len(s) + 1 /\ Known(r.read[1]) THEN r.read[1] ELSE Error

-----------------------------------------------------------------------------
(* What a condition says of the facts f, and whether saying it comes as far as  *)
(* the rate predicate (once at most in a condition).  A list has one member.    *)

Truthy(v) == v \notin {"false", "null"}
Bool(b) == IF b THEN "true" ELSE "false"

\* A path that leads nowhere says null; a predicate was asked when the request
\* came.
Resolve(x, f) == IF x \in DOMAIN f \ Predicates THEN f[x] ELSE "null"
Finding(x, f) == f[x]

RECURSIVE Value(_, _), Reaches(_, _)
Value(e, f) ==
  LET L == Value(e.args[1], f)
      R == Value(e.args[2], f)
  IN  CASE e.op = "name" -> Resolve(e.id, f)
        [] e.op = "call" -> Finding(e.id, f)
        [] e.op = "not" -> Bool(~Truthy(L))
        [] e.op = "and" -> Bool(Truthy(L) /\ Truthy(R))
        [] e.op = "or" -> Bool(Truthy(L) \/ Truthy(R))
        [] e.op = "==" -> Bool(L = R)
        [] e.op = "contains" -> Bool(L # "null" /\ (L = "*" \/ L = R))

Reaches(e, f) ==
  \/ e.op = "call" /\ e.id = "rate"
  \/ e.args # <<>> /\ Reaches(e.args[1], f)
  \/ /\ Len(e.args) = 2 /\ Reaches(e.args[2], f)
     /\ e.op = "and" => Truthy(Value(e.args[1], f))
     /\ e.op = "or" => ~Truthy(Value(e.args[1], f))

\* What a condition says when rate.same_action_within says whether the action is
\* a repeat.
SaysTrue(e, f, repeated) == Truthy(Value(e, f @@ ("rate" :> Bool(repeated))))

-----------------------------------------------------------------------------
(* The rules in force under each version: those of the watchdog first, then    *)
(* the files'.                                                               *)

WatchdogRules == <<[when |-> <<"alert", "(", ")", "==", "true">>, then |-> "pause"]>>
RulesOfFiles ==
  [v \in DOMAIN Texts |->
     LET texts == WatchdogRules \o Texts[v]
     IN  [i \in DOMAIN texts |-> [texts[i] EXCEPT !.when = Parse(@)]]]
LoadedFiles ==
  {v \in DOMAIN Texts : \A i \in DOMAIN RulesOfFiles[v] : RulesOfFiles[v][i].when # Error}

-----------------------------------------------------------------------------
(* Conditions as they are written, with the parentheses they need and no more: *)
(* a call of one argument stands after it.                                     *)
Binding(e) ==
  CASE e.op = "or" -> 1 [] e.op = "and" -> 2 [] e.op = "not" -> 3
    [] e.op \in {"==", "contains"} -> 4 [] OTHER -> 5
RECURSIVE Written(_, _)
Written(e, least) ==
  LET b == Binding(e)
      text ==
        CASE e.op = "name" -> <<e.id>>
          [] e.op = "not" -> <<"not">> \o Written(e.args[1], b)
          [] e.op = "call" /\ e.args = <<>> -> <<e.id, "(", ")">>
          [] e.op = "call" /\ Len(e.args) = 1 -> Written(e.args[1], b) \o <<e.id, "(", ")">>
          [] e.op = "call" /\ Len(e.args) = 2 ->
               <<e.id, "(">> \o Written(e.args[1], 1) \o <<",">> \o Written(e.args[2], 1)
                 \o <<")">>
          [] OTHER -> Written(e.args[1], b) \o <<e.op>> \o Written(e.args[2], b + 1)
  IN  IF b < least THEN <<"(">> \o text \o <<")">> ELSE text

Over(E) ==
  E \cup {Node("not", <<x>>) : x \in E} \cup {Call("alert", <<x>>) : x \in E}
    \cup UNION {{Node(o, <<x, y>>), Call("alert", <<x, y>>)} :
                 o \in {"and", "or", "==", "contains"}, x \in E, y \in E}
Conditions == Over(Over({Name("p"), Call("rate", <<>>)}))

\* A parenthesis right after one of these words is taken for a call of it.
TakenForCalls(s) ==
  \E i \in 1..Len(s) - 1 : s[i] \in {"and", "or", "contains"} /\ s[i + 1] = "("

Misread ==
  {e \in Conditions :
     LET s == Written(e, 1) IN Parse(s) # (IF TakenForCalls(s) THEN Error ELSE e)}
=============================================================================
