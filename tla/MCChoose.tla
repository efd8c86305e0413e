------------------------------ MODULE MCChoose -------------------------------
(***************************************************************************)
(* Small words and thresholds for Choose, and calls that between them go   *)
(* through every way of t_choose, both orders of its shuffle and a table   *)
(* with collisions.                                                        *)
(***************************************************************************)
EXTENDS Choose

SmallCalls ==
  {Call("choose", a, b) : a \in 0..6, b \in 0..6}
  \cup {Call("choose", a, 3) : a \in {7, 8, 9}}
  \cup {Call("choose", 12, 4)}
  \cup {Call("randrange", a, a) : a \in 0..5}
  \cup {c \in {Call("randint", a, b) : a, b \in 0..15} : c.a <= c.b}
=============================================================================
