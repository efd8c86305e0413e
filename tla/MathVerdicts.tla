---------------------------- MODULE MathVerdicts -----------------------------
(***************************************************************************)
(* How the drivers of src/math judge one vector.  A driver differs from    *)
(* the others in how it compares the exception flags and the results with  *)
(* the vector, and in which deviations it tolerates: those are printed,    *)
(* with an X in front, and not counted.                                    *)
(***************************************************************************)
EXTENDS Ulps

\* The ways to compare.  `limit' tolerates an error below that many quarters
\* of an ulp, `directed' any error in a directed rounding mode; `pole' excepts
\* arguments below zero, where NaN and -inf are both right; `sign' compares the
\* sign of gamma.
Judge(flags, result) ==
  [flags |-> flags, result |-> result, limit |-> 0, directed |-> FALSE,
   pole |-> FALSE, sign |-> FALSE]

Judges ==
  [flags : {"all", "round", "lround", "fma", "modf", "tiny", "except"},
   result : {"ulp", "ulps", "hypot", "2ulp", "cr", "modf", "frexp", "remquo", "lrint", "ilogb"},
   limit : Nat, directed : BOOLEAN, pole : BOOLEAN, sign : BOOLEAN]

Accurate == Judge("except", "ulp")
Exact == Judge("all", "cr")
Within(quarters) == [Accurate EXCEPT !.limit = quarters]
Nearest(quarters) == [Within(quarters) EXCEPT !.directed = TRUE]
Bessel2(quarters) == [Within(quarters) EXCEPT !.pole = TRUE]
Gamma(quarters) == [Within(quarters) EXCEPT !.sign = TRUE]

\* A vector is [r, x, y, dy, y2, i, flags], the results of a call [y, y2, i];
\* the second expected value y2 of sincos and modf is taken to be exact, and i
\* stands for what a driver compares: for remquo three bits and the sign.

\* x < 0 in C.
Negative(x) == x \in {"negative", "-inf"}

\* What the driver makes of the flags e that the call has raised.
FlagsVerdict(j, v, e, res) ==
  LET all == checkexceptall(e, v.flags)
      upToInexact == checkexceptall(e \cup {"INEXACT"}, v.flags \cup {"INEXACT"})
      omitted == e \cup {"INEXACT"} = v.flags
      except == checkexcept(e, v.flags, v.r)
      tiny == /\ res.y.kind = "number" /\ res.y.mag < Normal
              /\ e \cup {"INEXACT"} = {"INEXACT", "UNDERFLOW"}
      good == CASE j.flags = "all" -> all
                [] j.flags = "round" -> all \/ omitted
                [] j.flags = "lround" -> except \/ omitted
                [] j.flags = "fma" -> IF CheckInexact = "no" THEN upToInexact ELSE all
                [] j.flags = "modf" -> upToInexact
                [] OTHER -> except
  IN IF good THEN "good" ELSE IF j.flags = "tiny" /\ tiny THEN "tolerated" ELSE "bad"

\* The result is off.
Off(j, v, res) ==
  LET d == ulperr(res.y, v.y, v.dy)
      d2 == ulperr(res.y2, v.y2, 0)
  IN CASE j.result = "ulp" -> ~checkulp(d, v.r)
       [] j.result = "ulps" -> ~checkulp(d, v.r) \/ ~checkulp(d2, v.r)
       [] j.result = "hypot" -> ~checkulp(d, v.r) \/ (v.r = "RN" /\ AtLeast(d, 4))
       [] j.result = "2ulp" -> v.r = "RN" /\ Above(d, 8)
       [] j.result = "cr" -> ~checkcr(res.y, v.y)
       [] j.result = "modf" -> ~checkcr(res.y, v.y) \/ ~checkcr(res.y2, v.y2)
       [] j.result = "frexp" ->
            \/ ~checkcr(res.y, v.y)
            \/ v.x \in {"negative", "positive"} /\ res.i # v.i
       [] j.result = "remquo" -> ~checkcr(res.y, v.y) \/ (~isnan(v.y) /\ res.i # v.i)
       [] j.result = "lrint" -> "INVALID" \notin v.flags /\ res.i # v.i
       [] j.result = "ilogb" -> res.i # v.i

\* A deviation that no tolerance covers.
Bad(j, v, res) ==
  \/ j.pole /\ Negative(v.x) /\ ~isnan(res.y) /\ res.y # Infinity(TRUE)
  \/ /\ j.sign /\ v.x \notin {"nan", "-inf"} /\ "DIVBYZERO" \notin v.flags
     /\ res.i # v.i

\* A deviation that is printed and not counted.
Tolerated(j, v, res) ==
  \/ j.directed /\ v.r # "RN"
  \/ Below(ulperr(res.y, v.y, v.dy), j.limit)

\* What the driver makes of the results.
ResultVerdict(j, v, res) ==
  IF Bad(j, v, res) THEN "bad"
  ELSE IF (j.pole /\ Negative(v.x)) \/ ~Off(j, v, res) THEN "good"
  ELSE IF Tolerated(j, v, res) THEN "tolerated" ELSE "bad"
=============================================================================
