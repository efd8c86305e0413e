-------------------------------- MODULE Ulps ---------------------------------
(***************************************************************************)
(* src/common/mtest.c and mtest.h: the error of a result in units in the   *)
(* last place (ulp) and the checks that the drivers of src/math share, over *)
(* a small floating-point format.  A number is a multiple of the smallest  *)
(* subnormal; the normal numbers have three binades, in which an ulp is    *)
(* one, two and four of these multiples.  Errors are counted in quarters   *)
(* of an ulp, the finest difference that two numbers of the format have.   *)
(***************************************************************************)
EXTENDS Integers

CONSTANTS
  Normal,        \* the smallest normal number, a power of two
  CheckInexact   \* which of the CHECK_INEXACT macros is defined

ASSUME FormatAssumption == Normal \in Nat \ {0} /\ CheckInexact \in {"no", "all", "omission"}

Flags == {"INEXACT", "INVALID", "DIVBYZERO", "UNDERFLOW", "OVERFLOW"}

\* Floating-point data.
Number(n) == [kind |-> "number", neg |-> n < 0, mag |-> IF n < 0 THEN -n ELSE n]
NegativeZero == [kind |-> "number", neg |-> TRUE, mag |-> 0]
NaN == [kind |-> "nan", neg |-> FALSE, mag |-> 0]
Infinity(neg) == [kind |-> "inf", neg |-> neg, mag |-> 0]

isnan(x) == x.kind = "nan"
isinf(x) == x.kind = "inf"
signbit(x) == x.neg
Value(x) == IF x.neg THEN -x.mag ELSE x.mag
\* x == y in C.
Equal(x, y) ==
  /\ ~isnan(x) /\ x.kind = y.kind /\ Value(x) = Value(y)
  /\ isinf(x) => x.neg = y.neg

\* The ulp of a number of magnitude m.
eulp(m) == IF m < 2 * Normal THEN 1 ELSE IF m < 4 * Normal THEN 2 ELSE 4
Largest == 8 * Normal - 4
LargestPower == 4 * Normal
Representable(m) == m \in 0..Largest /\ m % eulp(m) = 0

\* An error: a number of quarters of an ulp, infinite, or not a number.
Error(q) == [kind |-> "number", quarters |-> q]
InfiniteError == [kind |-> "inf", quarters |-> 0]
NoError == [kind |-> "nan", quarters |-> 0]
Abs(n) == IF n < 0 THEN -n ELSE n
\* fabs(d) < q, fabs(d) > q and fabs(d) >= q, which are false for a NaN.
Below(d, q) == d.kind = "number" /\ Abs(d.quarters) < q
Above(d, q) == d.kind = "inf" \/ (d.kind = "number" /\ Abs(d.quarters) > q)
AtLeast(d, q) == d.kind = "inf" \/ (d.kind = "number" /\ Abs(d.quarters) >= q)

\* Mutant: want is not halved.
ulperr_not_halved(got, want, dwant) ==
  IF isnan(got) /\ isnan(want) THEN Error(0)
  ELSE IF Equal(got, want)
    THEN IF signbit(got) = signbit(want) THEN Error(dwant) ELSE InfiniteError
  ELSE IF isnan(got) \/ isnan(want) THEN NoError
  ELSE IF isinf(want) THEN InfiniteError
  ELSE IF isinf(got)
    THEN LET top == IF got.neg THEN -LargestPower ELSE LargestPower
         IN Error((4 * (top - Value(want))) \div eulp(want.mag) + dwant)
    ELSE Error((4 * (Value(got) - Value(want))) \div eulp(want.mag) + dwant)

\* An infinite result counts as the power of two above the largest number; to
\* stay in range it is compared with half of want.  The rounding of the function's
\* own operations, in the mode that is still set, is left out.
ulperr(got, want, dwant) ==
  IF isnan(got) /\ isnan(want) THEN Error(0)
  ELSE IF Equal(got, want)
    THEN IF signbit(got) = signbit(want) THEN Error(dwant) ELSE InfiniteError
  ELSE IF isnan(got) \/ isnan(want) THEN NoError
  ELSE IF isinf(want) THEN InfiniteError
  ELSE IF isinf(got)
    THEN LET top == IF got.neg THEN -LargestPower ELSE LargestPower
         IN Error((4 * top - 2 * Value(want)) \div eulp(want.mag \div 2) + dwant)
    ELSE Error((4 * (Value(got) - Value(want))) \div eulp(want.mag) + dwant)

\* Flags are compared up to INEXACT, whose meaning the macros change, and in
\* the directed rounding modes up to UNDERFLOW as well.
checkexcept(got, want, r) ==
  IF r # "RN" THEN got \cup {"INEXACT", "UNDERFLOW"} = want \cup {"INEXACT", "UNDERFLOW"}
  ELSE CASE CheckInexact = "all" -> got = want
         [] CheckInexact = "omission" -> got = want \/ got = want \cup {"INEXACT"}
         [] OTHER -> got \cup {"INEXACT"} = want \cup {"INEXACT"}

checkexceptall(got, want) == got = want

\* 1.5 ulp to nearest, 3 ulp in the directed modes.
checkulp(d, r) == Below(d, IF r = "RN" THEN 6 ELSE 12)

\* The result of a function that rounds correctly.
checkcr(y, ywant) ==
  IF isnan(ywant) THEN isnan(y) ELSE Equal(y, ywant) /\ signbit(y) = signbit(ywant)
=============================================================================
