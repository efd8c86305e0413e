---------------------------- MODULE MathDrivers ------------------------------
(***************************************************************************)
(* The drivers of src/math: one definition for the main() of each file of  *)
(* that name.  What it does with a vector is the loop of MathTest; how it  *)
(* judges the vector is said here.  The file of a function f has float and *)
(* long double variants ff and fl.                                         *)
(***************************************************************************)
EXTENDS MathVerdicts

\* Flags as checkexcept has them, results as checkulp has them.
acos == Accurate
acosf == Accurate
acoshf == Accurate
acoshl == Accurate
acosl == Accurate
asin == Accurate
asinf == Accurate
asinhf == Accurate
asinhl == Accurate
asinl == Accurate
atan == Accurate
atan2 == Accurate
atan2f == Accurate
atan2l == Accurate
atanf == Accurate
atanh == Accurate
atanhf == Accurate
atanhl == Accurate
atanl == Accurate
cbrt == Accurate
cbrtf == Accurate
cbrtl == Accurate
cosf == Accurate
cosh == Accurate
coshf == Accurate
coshl == Accurate
cosl == Accurate
erfcf == Accurate
erfcl == Accurate
erff == Accurate
erfl == Accurate
exp == Accurate
exp10 == Accurate
exp10f == Accurate
exp10l == Accurate
exp2f == Accurate
exp2l == Accurate
expf == Accurate
expl == Accurate
expm1 == Accurate
expm1f == Accurate
j1 == Accurate
j1f == Accurate
log == Accurate
log10 == Accurate
log10f == Accurate
log10l == Accurate
log1p == Accurate
log1pf == Accurate
log1pl == Accurate
log2 == Accurate
log2f == Accurate
log2l == Accurate
logf == Accurate
logl == Accurate
pow10 == Accurate
pow10f == Accurate
pow10l == Accurate
powl == Accurate
sinf == Accurate
sinl == Accurate
tanf == Accurate
tanh == Accurate
tanhf == Accurate
tanhl == Accurate
tanl == Accurate
tgammaf == Accurate

\* Flags and results are exact.
copysign == Exact
copysignf == Exact
copysignl == Exact
fabs == Exact
fabsf == Exact
fabsl == Exact
fdim == Exact
fdimf == Exact
fdiml == Exact
fmax == Exact
fmaxf == Exact
fmaxl == Exact
fmin == Exact
fminf == Exact
fminl == Exact
ldexp == Exact
ldexpf == Exact
ldexpl == Exact
logb == Exact
logbf == Exact
logbl == Exact
nearbyint == Exact
nearbyintf == Exact
nearbyintl == Exact
nextafter == Exact
nextafterf == Exact
nextafterl == Exact
nexttoward == Exact
nexttowardf == Exact
nexttowardl == Exact
rint == Exact
rintf == Exact
rintl == Exact
scalb == Exact
scalbf == Exact
scalbln == Exact
scalblnf == Exact
scalblnl == Exact
scalbn == Exact
scalbnf == Exact
scalbnl == Exact
sqrt == Exact
sqrtf == Exact
sqrtl == Exact

\* Results are exact, and flags but for an INEXACT that may be missing.
ceil == Judge("round", "cr")
ceilf == Judge("round", "cr")
ceill == Judge("round", "cr")
floor == Judge("round", "cr")
floorf == Judge("round", "cr")
floorl == Judge("round", "cr")
round == Judge("round", "cr")
roundf == Judge("round", "cr")
roundl == Judge("round", "cr")
trunc == Judge("round", "cr")
truncf == Judge("round", "cr")
truncl == Judge("round", "cr")

\* Results are exact.
drem == Judge("except", "cr")
dremf == Judge("except", "cr")
fmod == Judge("except", "cr")
fmodf == Judge("except", "cr")
fmodl == Judge("except", "cr")
remainder == Judge("except", "cr")
remainderf == Judge("except", "cr")
remainderl == Judge("except", "cr")

\* The result is an integer; one that does not fit (INVALID) is not compared.
llrint == Judge("except", "lrint")
llrintf == Judge("except", "lrint")
llrintl == Judge("except", "lrint")
lrint == Judge("except", "lrint")
lrintf == Judge("except", "lrint")
lrintl == Judge("except", "lrint")
llround == Judge("lround", "lrint")
llroundf == Judge("lround", "lrint")
llroundl == Judge("lround", "lrint")
lround == Judge("lround", "lrint")
lroundf == Judge("lround", "lrint")
lroundl == Judge("lround", "lrint")
ilogb == Judge("except", "ilogb")
ilogbf == Judge("except", "ilogb")
ilogbl == Judge("except", "ilogb")

\* Large errors are tolerated in the directed rounding modes.
cos == Nearest(0)
sin == Nearest(0)
sinhf == Nearest(0)
tan == Nearest(0)
sinh == Nearest(8)
sinhl == Nearest(20)

\* Results are exact; INEXACT is compared if a macro asks for it.
fma == Judge("fma", "cr")
fmaf == Judge("fma", "cr")
fmal == Judge("fma", "cr")

\* Two results.  For remquo i stands for the sign and low bits of the quotient.
frexp == Judge("all", "frexp")
frexpf == Judge("all", "frexp")
frexpl == Judge("all", "frexp")
modf == Judge("modf", "modf")
modff == Judge("modf", "modf")
modfl == Judge("modf", "modf")
remquo == Judge("except", "remquo")
remquof == Judge("except", "remquo")
remquol == Judge("except", "remquo")
sincos == Judge("except", "ulps")
sincosf == Judge("except", "ulps")
sincosl == Judge("except", "ulps")

\* Less than one ulp is wanted in round to nearest.
hypot == Judge("except", "hypot")
hypotf == Judge("except", "hypot")
hypotl == Judge("except", "hypot")

\* Functions with a pole at 0 that are not defined below it.
y1 == Bessel2(0)
y1f == Bessel2(0)
yn == Bessel2(0)
y0 == Bessel2(4 * Normal)
y0f == Bessel2(4 * Normal)
ynf == Bessel2(10)

\* Errors up to a limit are tolerated; 4 * Normal is a relative error of one.
j0 == Within(4 * Normal)
j0f == Within(4 * Normal)
jn == Within(12)
jnf == Within(12)
acosh == Within(8)
asinh == Within(8)
erf == Within(16)
erfc == Within(16)
expm1l == Within(10)
tgamma == Within(22)

\* A subnormal result may raise UNDERFLOW.
exp2 == Judge("tiny", "ulp")
pow == Judge("tiny", "ulp")
powf == Judge("tiny", "ulp")

\* Gamma functions; lgamma also returns a sign.
lgamma == Gamma(44)
lgamma_r == Gamma(44)
lgammaf == Gamma(8)
lgammaf_r == Gamma(8)
lgammal == [Judge("except", "2ulp") EXCEPT !.sign = TRUE]
lgammal_r == [Judge("except", "2ulp") EXCEPT !.sign = TRUE]
tgammal == Judge("except", "2ulp")

\* The ways to judge that there are.
AllDrivers ==
  {acos, acosf, acoshf, acoshl, acosl, asin, asinf, asinhf, asinhl, asinl,
   atan, atan2, atan2f, atan2l, atanf, atanh, atanhf, atanhl, atanl, cbrt,
   cbrtf, cbrtl, cosf, cosh, coshf, coshl, cosl, erfcf, erfcl, erff, erfl,
   exp, exp10, exp10f, exp10l, exp2f, exp2l, expf, expl, expm1, expm1f,
   j1, j1f, log, log10, log10f, log10l, log1p, log1pf, log1pl, log2,
   log2f, log2l, logf, logl, pow10, pow10f, pow10l, powl, sinf, sinl,
   tanf, tanh, tanhf, tanhl, tanl, tgammaf, copysign, copysignf,
   copysignl, fabs, fabsf, fabsl, fdim, fdimf, fdiml, fmax, fmaxf, fmaxl,
   fmin, fminf, fminl, ldexp, ldexpf, ldexpl, logb, logbf, logbl,
   nearbyint, nearbyintf, nearbyintl, nextafter, nextafterf, nextafterl,
   nexttoward, nexttowardf, nexttowardl, rint, rintf, rintl, scalb,
   scalbf, scalbln, scalblnf, scalblnl, scalbn, scalbnf, scalbnl, sqrt,
   sqrtf, sqrtl, ceil, ceilf, ceill, floor, floorf, floorl, round, roundf,
   roundl, trunc, truncf, truncl, drem, dremf, fmod, fmodf, fmodl,
   remainder, remainderf, remainderl, llrint, llrintf, llrintl, lrint,
   lrintf, lrintl, llround, llroundf, llroundl, lround, lroundf, lroundl,
   ilogb, ilogbf, ilogbl, cos, sin, sinhf, tan, sinh, sinhl, fma, fmaf,
   fmal, frexp, frexpf, frexpl, hypot, hypotf, hypotl, modf, modff, modfl,
   remquo, remquof, remquol, sincos, sincosf, sincosl, y1, y1f, yn, y0,
   y0f, ynf, j0, j0f, jn, jnf, acosh, asinh, erf, erfc, expm1l, tgamma,
   exp2, pow, powf, lgamma, lgamma_r, lgammaf, lgammaf_r, lgammal,
   lgammal_r, tgammal}
=============================================================================
