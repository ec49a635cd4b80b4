---------------------------- MODULE MCGraphCache ----------------------------
(* Three rows in a line; whether a row matches, where it lies and how much    *)
(* it matters change with its versions.                                      *)
EXTENDS GraphCache, TLC

CONSTANTS a, b, c, ab, bc, red, blue

MCEnds == ab :> [from |-> a, to |-> b] @@ bc :> [from |-> b, to |-> c]
MCStarts ==
  {[r \in {a, b, c, ab, bc} |-> 0],
   a :> 2 @@ b :> 1 @@ c :> 0 @@ ab :> 3 @@ bc :> 0}
Odd(v) == v % 2 = 1
MCRow(e, v) ==
  [weight  |-> IF e = c THEN 2 ELSE 1,
   cluster |-> IF e = b /\ Odd(v) THEN blue ELSE red,
   match   |-> CASE e = c -> 1000000 [] e = b -> (IF Odd(v) THEN 860000 ELSE 0)
                 [] OTHER -> 0,
   near    |-> CASE e = a -> 0 [] e = b -> 700000 [] OTHER -> -1,
   title   |-> CASE e = a -> 1 [] e = b -> 2 [] OTHER -> 3]
=============================================================================
