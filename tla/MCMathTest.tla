----------------------------- MODULE MCMathTest ------------------------------
(***************************************************************************)
(* Vectors and calls for MathTest over a format with 8 as its smallest     *)
(* normal and 60 as its largest number: for each vector the call that      *)
(* agrees with it, other values, other flags, other second results.        *)
(***************************************************************************)
EXTENDS MathTest

Vec(x, y, flags, dy) ==
  [r |-> "RN", x |-> x, y |-> y, dy |-> dy, y2 |-> Number(1), i |-> 1, flags |-> flags]

NearestVectors ==
  {Vec("nan", NaN, {}, 0),
   Vec("negative", NaN, {"INVALID"}, 0),
   Vec("positive", Infinity(FALSE), {"DIVBYZERO"}, 0),
   Vec("positive", Number(0), {}, 0),
   Vec("positive", Number(1), {"UNDERFLOW", "INEXACT"}, 2),
   Vec("positive", Number(20), {"INEXACT"}, 2),
   Vec("negative", Number(-60), {"INEXACT"}, -1)}

\* The error of an expected value that is rounded up may be a whole ulp.
RoundedUp == [Vec("positive", Number(20), {"INEXACT"}, 4) EXCEPT !.r = "RU"]

SmallVectors == UNION {{v, [v EXCEPT !.r = "RU"]} : v \in NearestVectors} \cup {RoundedUp}
\* One for a mode that the platform does not have.
NoMode == [Vec("positive", Number(20), {"INEXACT"}, 0) EXCEPT !.r = "none"]

Numbers == {n \in -60..60 : Representable(Abs(n))}
Close(y) ==
  IF y.kind # "number" THEN {Number(20)}
  ELSE {Number(n) : n \in {m \in Numbers : Abs(m - Value(y)) \in {1, 4, 5, 12}}}

ResultsOf(v) ==
  LET right == [y |-> v.y, y2 |-> v.y2, i |-> v.i]
  IN {right, [right EXCEPT !.i = 2], [right EXCEPT !.y2 = NaN]}
     \cup {[right EXCEPT !.y = y] :
             y \in Close(v.y) \cup {NaN, Infinity(TRUE), Infinity(FALSE), NegativeZero}}

CallsFor(v) ==
  LET right == [y |-> v.y, y2 |-> v.y2, i |-> v.i]
      others == {{}, {"UNDERFLOW"}, v.flags \cup {"INEXACT"}, v.flags \cup {"INVALID"},
                 v.flags \ {"INEXACT"}}
  IN {[v |-> v, res |-> r, raised |-> v.flags] : r \in ResultsOf(v)}
     \cup {[v |-> v, res |-> right, raised |-> f] : f \in others}

SmallCalls == UNION {CallsFor(v) : v \in SmallVectors \cup {NoMode}}
=============================================================================
