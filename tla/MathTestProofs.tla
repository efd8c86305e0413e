--------------------------- MODULE MathTestProofs ----------------------------
(***************************************************************************)
(* For every floating-point format of this kind, every meaning of the      *)
(* INEXACT flag, every table and every way to judge: a driver finds no     *)
(* fault with calls that do what their vectors say, and is not silent when *)
(* one does something altogether different.  The driver's own operations   *)
(* may leave any flags behind, so it must be shown that those it judges    *)
(* are the flags of the call.                                              *)
(***************************************************************************)
EXTENDS MathTest, TLAPS

\* An exact result is no error but that of the expected value itself, which is
\* at most one ulp, and at most half an ulp to nearest.
LEMMA ExactError ==
  ASSUME NEW y \in Float, NEW dy \in -4..4, y.kind # "number" => dy = 0
  PROVE  /\ ulperr(y, y, dy) = Error(dy)
         /\ \A q \in {6, 12} : Below(ulperr(y, y, dy), q)
         /\ ~Above(ulperr(y, y, dy), 8)
         /\ dy \in -2..2 => ~AtLeast(ulperr(y, y, dy), 4)
<1>1. ulperr(y, y, dy) = Error(dy)
  <2>1. CASE isnan(y)
    BY <2>1 DEF ulperr, isnan, Float
  <2>2. CASE ~isnan(y)
    <3>1. Equal(y, y)
      BY <2>2 DEF Equal, isnan, isinf, Float
    <3> QED BY <2>2, <3>1 DEF ulperr, signbit
  <2> QED BY <2>1, <2>2
<1>2. Abs(dy) \in 0..4 /\ (dy \in -2..2 => Abs(dy) \in 0..2)
  BY DEF Abs
<1> QED BY <1>1, <1>2 DEF Below, AtLeast, Above, Error

\* Flags that are as the vector wants them are good for every driver.
LEMMA ExactFlagsAreGood ==
  ASSUME NEW j \in Judges, NEW v \in Vector, NEW res \in Results
  PROVE  FlagsVerdict(j, v, v.flags, res) = "good"
<1>1. checkexcept(v.flags, v.flags, v.r) /\ checkexceptall(v.flags, v.flags)
  BY DEF checkexcept, checkexceptall
<1>2. checkexceptall(v.flags \cup {"INEXACT"}, v.flags \cup {"INEXACT"})
  BY DEF checkexceptall
<1> QED BY <1>1, <1>2 DEF FlagsVerdict, Judges

\* A correctly rounded result passes for what it is.
LEMMA ExactIsCorrectlyRounded ==
  ASSUME NEW y \in Float
  PROVE  checkcr(y, y)
BY DEF checkcr, Equal, isnan, isinf, Float

\* A result that is as the vector wants it is good for every driver.
LEMMA ExactResultIsGood ==
  ASSUME NEW j \in Judges, NEW c \in Calls, IsExact(c),
         j.pole /\ Negative(c.v.x) => isnan(c.v.y) \/ c.v.y = Infinity(TRUE)
  PROVE  ResultVerdict(j, c.v, c.res) = "good"
<1> DEFINE v == c.v
           res == c.res
<1>1. /\ v.y \in Float /\ v.y2 \in Float
      /\ v.dy \in -4..4 /\ (v.r = "RN" => v.dy \in -2..2)
      /\ v.y.kind # "number" => v.dy = 0
  BY CallsAssumption DEF Call, Vector
<1>2. res.y = v.y /\ res.y2 = v.y2 /\ res.i = v.i
  BY DEF IsExact
<1>3. ~Bad(j, v, res)
  BY <1>2 DEF Bad
<1>4. ~Off(j, v, res)
  <2>1. /\ checkulp(ulperr(res.y, v.y, v.dy), v.r)
        /\ ~Above(ulperr(res.y, v.y, v.dy), 8)
        /\ v.r = "RN" => ~AtLeast(ulperr(res.y, v.y, v.dy), 4)
    BY <1>1, <1>2, ExactError DEF checkulp
  <2>2. checkulp(ulperr(res.y2, v.y2, 0), v.r)
    BY <1>1, <1>2, ExactError DEF checkulp
  <2>3. checkcr(res.y, v.y) /\ checkcr(res.y2, v.y2)
    BY <1>1, <1>2, ExactIsCorrectlyRounded
  <2> QED BY <1>2, <2>1, <2>2, <2>3 DEF Off, Judges
<1> QED BY <1>3, <1>4 DEF ResultVerdict

-----------------------------------------------------------------------------

LEMMA ErrorIsInteger ==
  ASSUME NEW got \in Float, NEW want \in Float, NEW dw \in -4..4
  PROVE  ulperr(got, want, dw).quarters \in Int
<1>1. Value(got) \in Int /\ Value(want) \in Int
  BY DEF Value, Float
<1>2. \A n \in Nat : eulp(n) \in {1, 2, 4}
  BY FormatAssumption DEF eulp
<1>3. want.mag \in Nat /\ want.mag \div 2 \in Nat
  BY DEF Float
<1>4. LargestPower \in Int
  BY FormatAssumption DEF LargestPower
<1>5. \A x \in Int : \A k \in {1, 2, 4} : x \div k + dw \in Int
  OBVIOUS
<1>6. \A top \in Int : (4 * top - 2 * Value(want)) \div eulp(want.mag \div 2) + dw \in Int
  BY <1>1, <1>2, <1>3, <1>5
<1>7. (4 * (Value(got) - Value(want))) \div eulp(want.mag) + dw \in Int
  BY <1>1, <1>2, <1>3, <1>5
<1> DEFINE overflow(top) == (4 * top - 2 * Value(want)) \div eulp(want.mag \div 2) + dw
           finite == (4 * (Value(got) - Value(want))) \div eulp(want.mag) + dw
<1>8. ulperr(got, want, dw) \in {Error(0), Error(dw), InfiniteError, NoError,
        Error(overflow(LargestPower)), Error(overflow(-LargestPower)), Error(finite)}
  BY Zenon DEF ulperr
<1>9. -LargestPower \in Int
  BY <1>4
<1>10. overflow(LargestPower) \in Int /\ overflow(-LargestPower) \in Int
  BY <1>4, <1>6, <1>9, Zenon
<1>11. finite \in Int
  BY <1>7
<1> HIDE DEF overflow, finite
<1> QED BY <1>8, <1>10, <1>11 DEF Error, InfiniteError, NoError

\* A NaN in place of a number, another value in place of an infinity and a zero
\* of the wrong sign have an error that no bound admits.
LEMMA NoBoundAdmits ==
  ASSUME NEW got \in Float, NEW want \in Float, NEW dw,
         \/ isnan(got) # isnan(want)
         \/ isinf(want) /\ got # want
         \/ isZero(want) /\ isZero(got) /\ got.neg # want.neg
  PROVE  /\ ~checkcr(got, want)
         /\ ulperr(got, want, dw).kind # "number"
<1>1. CASE isnan(got) # isnan(want)
  BY <1>1 DEF checkcr, Equal, isnan, isinf, ulperr, InfiniteError, NoError
<1>2. CASE isinf(want) /\ got # want /\ isnan(got) = isnan(want)
  <2>1. ~Equal(got, want) /\ ~isnan(got) /\ ~isnan(want)
    BY <1>2 DEF Equal, isnan, isinf, Value, Float
  <2> QED BY <1>2, <2>1 DEF checkcr, ulperr, InfiniteError
<1>3. CASE isZero(want) /\ isZero(got) /\ got.neg # want.neg
  <2>1. Equal(got, want) /\ ~isnan(got) /\ ~isnan(want)
    BY <1>3 DEF Equal, isnan, isinf, Value, isZero, Float
  <2> QED BY <1>3, <2>1 DEF checkcr, ulperr, InfiniteError, signbit
<1> QED BY <1>1, <1>2, <1>3

\* A result that is a blunder is not good for any driver that judges it, and a
\* driver that tolerates nothing counts it.
LEMMA BadResultShows ==
  ASSUME judge \in Judges, NEW c \in Calls, ~Unjudged(c),
         IF judge.result \in {"lrint", "ilogb"}
           THEN "INVALID" \notin c.v.flags /\ c.res.i # c.v.i
           ELSE \/ isnan(c.res.y) # isnan(c.v.y)
                \/ isinf(c.v.y) /\ c.res.y # c.v.y
                \/ isZero(c.v.y) /\ isZero(c.res.y) /\ c.res.y.neg # c.v.y.neg
  PROVE  /\ ResultVerdict(judge, c.v, c.res) # "good"
         /\ ~judge.directed /\ judge.limit = 0 => ResultVerdict(judge, c.v, c.res) = "bad"
<1> DEFINE d == ulperr(c.res.y, c.v.y, c.v.dy)
<1>1. c.v \in Vector /\ c.res \in Results /\ c.v.dy \in -4..4
  BY CallsAssumption DEF Call
<1>2. c.v.y \in Float /\ c.res.y \in Float
  BY <1>1 DEF Vector, Results
<1>3. ~Below(d, 0)
  <2>1. d.quarters \in Int
    BY <1>1, <1>2, ErrorIsInteger
  <2> QED BY <2>1 DEF Below, Abs
<1>4. Off(judge, c.v, c.res)
  <2>1. CASE judge.result \in {"lrint", "ilogb"}
    BY <2>1 DEF Off
  <2>2. CASE judge.result \notin {"lrint", "ilogb"}
    <3>1. ~checkcr(c.res.y, c.v.y) /\ d.kind # "number"
      BY <1>2, <2>2, NoBoundAdmits
    <3>2. ~checkulp(d, c.v.r)
      BY <3>1 DEF checkulp, Below
    <3> HIDE DEF d
    <3> QED BY <2>2, <3>1, <3>2 DEF Off, Unjudged, Judges, d
  <2> QED BY <2>1, <2>2
<1>5. judge.limit = 0 /\ ~judge.directed => ~Tolerated(judge, c.v, c.res)
  BY <1>3 DEF Tolerated
<1> QED BY <1>4, <1>5 DEF ResultVerdict, Unjudged

\* Neither does any driver take the wrong ones of the grave flags for good.
LEMMA BadFlagsShow ==
  ASSUME judge \in Judges, NEW c \in Calls,
         c.raised \cap {"INVALID", "DIVBYZERO", "OVERFLOW"}
           # c.v.flags \cap {"INVALID", "DIVBYZERO", "OVERFLOW"}
  PROVE  /\ FlagsVerdict(judge, c.v, c.raised, c.res) # "good"
         /\ judge.flags # "tiny" => FlagsVerdict(judge, c.v, c.raised, c.res) = "bad"
<1>1. c.v.flags \in SUBSET Flags /\ c.raised \in SUBSET Flags
  BY CallsAssumption DEF Call, Vector
<1>2. ~checkexceptall(c.raised, c.v.flags) /\ c.raised \cup {"INEXACT"} # c.v.flags
  BY DEF checkexceptall
<1>3. ~checkexceptall(c.raised \cup {"INEXACT"}, c.v.flags \cup {"INEXACT"})
  BY DEF checkexceptall
<1>4. ~checkexcept(c.raised, c.v.flags, c.v.r)
  BY DEF checkexcept
<1> QED BY <1>2, <1>3, <1>4 DEF FlagsVerdict, Judges

-----------------------------------------------------------------------------

\* The flags of the vector in hand have been counted.
FlagsCounted ==
  /\ FlagsVerdict(judge, call.v, call.raised, call.res) # "good" => said # {}
  /\ FlagsVerdict(judge, call.v, call.raised, call.res) = "bad" => err

\* The vector in hand is one of the table, and the flags are cleared before
\* the call; nothing has been found wrong with exact calls so far, and nothing
\* wrong has gone unnoticed.
IInv ==
  /\ judge \in Judges
  /\ pc \in {"prepare", "evaluate", "flags", "result"} => call \in Calls /\ InTable(call.v)
  /\ pc = "evaluate" => fpu.flags = {}
  /\ pc = "flags" => e = call.raised
  /\ pc \in {"flags", "result"} /\ exact => IsExact(call)
  /\ exact => ~err /\ said = {}
  /\ pc = "result" => FlagsCounted
  /\ NeverSilent

LEMMA InitIInv == Init => IInv
BY DriversAssumption DEF Init, IInv, NeverSilent

\* What has been said or counted stays so.
LEMMA CountsAdds ==
  ASSUME NEW verdict \in {"good", "bad", "tolerated"}, Counts(verdict)
  PROVE  /\ verdict = "good" => (err' <=> err) /\ said' = said
         /\ verdict # "good" => said' # {}
         /\ verdict = "bad" => err'
         /\ said # {} => said' # {}
         /\ err => err'
<1> DEFINE added == CASE verdict = "good" -> {} [] verdict = "bad" -> {"error"}
                      [] verdict = "tolerated" -> {"X"}
<1>1. said' = said \cup added /\ err' = (err \/ verdict = "bad")
  BY DEF Counts
<1>2. CASE verdict = "good"
  BY <1>1, <1>2
<1>3. CASE verdict = "bad"
  BY <1>1, <1>3
<1>4. CASE verdict = "tolerated"
  BY <1>1, <1>4
<1> QED BY <1>2, <1>3, <1>4

LEMMA VerdictRanges ==
  ASSUME NEW j, NEW v, NEW flags, NEW res
  PROVE  /\ FlagsVerdict(j, v, flags, res) \in {"good", "bad", "tolerated"}
         /\ ResultVerdict(j, v, res) \in {"good", "bad", "tolerated"}
<1>1. FlagsVerdict(j, v, flags, res) \in {"good", "bad", "tolerated"}
  BY Zenon DEF FlagsVerdict
<1>2. ResultVerdict(j, v, res) \in {"good", "bad", "tolerated"}
  BY Zenon DEF ResultVerdict
<1> QED BY <1>1, <1>2

\* Nothing else is said, and err stays a truth value.
LEMMA CountsType ==
  ASSUME NEW verdict \in {"good", "bad", "tolerated"}, Counts(verdict),
         said \subseteq {"error", "X"}
  PROVE  said' \subseteq {"error", "X"} /\ err' \in BOOLEAN
<1>1. err' \in BOOLEAN
  BY Zenon DEF Counts
<1>2. said' = said \/ said' = said \cup {"error"} \/ said' = said \cup {"X"}
  BY DEF Counts
<1> QED BY <1>1, <1>2

LEMMA NextIInv == IInv /\ [Next]_vars => IInv'
<1> SUFFICES ASSUME IInv, [Next]_vars PROVE IInv'
  OBVIOUS
<1>1. ASSUME NEW c \in Calls, Take(c) PROVE IInv'
  BY <1>1 DEF IInv, Take, InTable, history, IsExact, NeverSilent
<1>2. CASE Prepare
  BY <1>2 DEF IInv, Prepare, InTable, history, IsExact, NeverSilent
<1>3. CASE Evaluate
  BY <1>3 DEF IInv, Evaluate, InTable, IsExact, NeverSilent
<1>4. CASE JudgeFlags
  <2> DEFINE verdict == FlagsVerdict(judge, call.v, e, call.res)
  <2>1. verdict \in {"good", "bad", "tolerated"} /\ Counts(verdict)
    BY <1>4, VerdictRanges DEF JudgeFlags
  <2>2. e = call.raised /\ call' = call /\ judge' = judge /\ (wrong' <=> wrong)
    BY <1>4 DEF JudgeFlags, history, IInv
  <2> HIDE DEF verdict
  <2>3. /\ verdict = "good" => (err' <=> err) /\ said' = said
        /\ verdict # "good" => said' # {}
        /\ verdict = "bad" => err'
        /\ said # {} => said' # {}
        /\ err => err'
    BY <2>1, CountsAdds
  <2>4. ASSUME exact' PROVE ~err' /\ said' = {}
    <3>1. exact /\ IsExact(call) /\ e = call.v.flags /\ call \in Calls
      BY <1>4, <2>4 DEF JudgeFlags, history, IInv, IsExact
    <3>2. call.v \in Vector /\ call.res \in Results
      BY <3>1, CallsAssumption DEF Call
    <3>3. verdict = "good"
      BY <3>1, <3>2, ExactFlagsAreGood DEF IInv, verdict
    <3> QED BY <2>3, <3>1, <3>3 DEF IInv
  <2>5. FlagsCounted'
    <3>1. verdict = FlagsVerdict(judge, call.v, call.raised, call.res)'
      BY <2>2 DEF verdict
    <3> QED BY <2>3, <3>1 DEF FlagsCounted
  <2>6. NeverSilent'
    BY <2>2, <2>3 DEF IInv, NeverSilent
  <2> QED BY <1>4, <2>4, <2>5, <2>6 DEF IInv, JudgeFlags, InTable, history, IsExact
<1>5. CASE JudgeResult
  <2> DEFINE verdict == ResultVerdict(judge, call.v, call.res)
             flags == FlagsVerdict(judge, call.v, call.raised, call.res)
  <2>1. verdict \in {"good", "bad", "tolerated"} /\ Counts(verdict)
    BY <1>5, VerdictRanges DEF JudgeResult
  <2>2. call \in Calls /\ InTable(call.v) /\ judge \in Judges /\ judge' = judge
    BY <1>5 DEF JudgeResult, IInv
  <2>3. (flags # "good" => said # {}) /\ (flags = "bad" => err)
    BY <1>5 DEF JudgeResult, IInv, FlagsCounted
  <2>4. ASSUME Blunder(call), ~Unjudged(call)
        PROVE  /\ verdict # "good" \/ flags # "good"
               /\ ~judge.directed /\ judge.limit = 0 /\ judge.flags # "tiny" =>
                    verdict = "bad" \/ flags = "bad"
    <3>1. CASE call.raised \cap {"INVALID", "DIVBYZERO", "OVERFLOW"}
                 # call.v.flags \cap {"INVALID", "DIVBYZERO", "OVERFLOW"}
      BY <2>2, <3>1, BadFlagsShow
    <3>2. CASE IF judge.result \in {"lrint", "ilogb"}
                 THEN "INVALID" \notin call.v.flags /\ call.res.i # call.v.i
                 ELSE \/ isnan(call.res.y) # isnan(call.v.y)
                      \/ isinf(call.v.y) /\ call.res.y # call.v.y
                      \/ isZero(call.v.y) /\ isZero(call.res.y) /\ call.res.y.neg # call.v.y.neg
      BY <2>2, <2>4, <3>2, BadResultShows
    <3> QED BY <2>4, <3>1, <3>2 DEF Blunder
  <2> HIDE DEF verdict, flags
  <2>5. /\ verdict = "good" => (err' <=> err) /\ said' = said
        /\ verdict # "good" => said' # {}
        /\ verdict = "bad" => err'
        /\ said # {} => said' # {}
        /\ err => err'
    BY <2>1, CountsAdds
  <2>6. ASSUME exact' PROVE ~err' /\ said' = {}
    <3>1. exact /\ IsExact(call)
      BY <1>5, <2>6 DEF JudgeResult, IInv
    <3>2. verdict = "good"
      BY <2>2, <3>1, ExactResultIsGood DEF InTable, verdict
    <3> QED BY <2>5, <3>1, <3>2 DEF IInv
  <2>7. NeverSilent'
    <3>1. wrong' <=> wrong \/ (Blunder(call) /\ ~Unjudged(call))
      BY <1>5 DEF JudgeResult
    <3> QED BY <2>2, <2>3, <2>4, <2>5, <3>1 DEF IInv, NeverSilent
  <2> QED BY <1>5, <2>2, <2>6, <2>7 DEF IInv, JudgeResult
<1>6. CASE Return
  BY <1>6 DEF IInv, Return, history, NeverSilent
<1>7. CASE UNCHANGED vars
  BY <1>7 DEF IInv, vars, history, InTable, IsExact, NeverSilent, FlagsCounted
<1> QED BY <1>1, <1>2, <1>3, <1>4, <1>5, <1>6, <1>7 DEF Next

LEMMA Invariance == Spec => []IInv
BY InitIInv, NextIInv, PTL DEF Spec

\* Every step keeps the types; a vector is in hand from the moment it is taken
\* until it has been judged.
LEMMA NextTypeOK == TypeOK /\ [Next]_vars => TypeOK'
<1> SUFFICES ASSUME TypeOK, [Next]_vars PROVE TypeOK'
  OBVIOUS
<1>1. ASSUME NEW c \in Calls, Take(c) PROVE TypeOK'
  <2>1. c \in Call
    BY CallsAssumption
  <2>2. c.v.r \in Modes \cup {"none"}
    BY <2>1 DEF Call, Vector
  <2>3. left' \in 0..MaxVectors
    BY <1>1, DriversAssumption DEF TypeOK, Take
  <2> QED BY <1>1, <2>1, <2>2, <2>3 DEF TypeOK, Take, history
<1>2. CASE Prepare
  BY <1>2 DEF TypeOK, Prepare, history
<1>3. CASE Evaluate
  <2>1. call.raised \in SUBSET Flags
    BY <1>3 DEF TypeOK, Evaluate, Call
  <2> QED BY <1>3, <2>1 DEF TypeOK, Evaluate
<1>4. CASE JudgeFlags
  <2>1. said' \subseteq {"error", "X"} /\ err' \in BOOLEAN
    BY <1>4, VerdictRanges, CountsType DEF TypeOK, JudgeFlags
  <2>2. fpu' \in [mode : Modes, flags : SUBSET Flags]
    BY <1>4 DEF TypeOK, JudgeFlags, FpuUsed
  <2> QED BY <1>4, <2>1, <2>2 DEF TypeOK, JudgeFlags, history
<1>5. CASE JudgeResult
  <2>1. said' \subseteq {"error", "X"} /\ err' \in BOOLEAN
    BY <1>5, VerdictRanges, CountsType DEF TypeOK, JudgeResult
  <2>2. fpu' \in [mode : Modes, flags : SUBSET Flags]
    BY <1>5 DEF TypeOK, JudgeResult, FpuUsed
  <2>3. wrong' \in BOOLEAN
    BY <1>5, Zenon DEF JudgeResult
  <2> QED BY <1>5, <2>1, <2>2, <2>3 DEF TypeOK, JudgeResult
<1>6. CASE Return
  BY <1>6 DEF TypeOK, Return, history
<1>7. CASE UNCHANGED vars
  BY <1>7 DEF TypeOK, vars
<1> QED BY <1>1, <1>2, <1>3, <1>4, <1>5, <1>6, <1>7 DEF Next

\* The variables of a driver keep their types.
THEOREM TypeCorrect == Spec => []TypeOK
<1>1. ASSUME Init PROVE TypeOK
  <2>1. fpu \in [mode : Modes, flags : SUBSET Flags]
    BY <1>1 DEF Init, Modes
  <2>2. {err, exact, wrong} \subseteq BOOLEAN
    BY <1>1 DEF Init
  <2> QED BY <1>1, <2>1, <2>2 DEF Init, TypeOK
<1> QED BY <1>1, NextTypeOK, PTL DEF Spec

-----------------------------------------------------------------------------
(* ulperr is a distance. *)

\* In the binade below, an ulp is half as large.
LEMMA HalfAnUlp ==
  ASSUME NEW m \in Nat, m >= 2 * Normal, m <= Largest
  PROVE  eulp(m) = 2 * eulp(m \div 2)
BY FormatAssumption DEF eulp, Largest

\* To halve the number and its ulp alike changes no quotient.
LEMMA HalvedQuotient ==
  ASSUME NEW a \in Int, NEW k \in {1, 2}
  PROVE  (2 * a) \div (2 * k) = a \div k
OBVIOUS

\* Where want has a binade below it, ulperr is the distance exactly; without
\* one, both are beyond every bound up to three times the smallest normal
\* number, in ulps.
LEMMA UlperrMeasures ==
  ASSUME NEW got \in Float, NEW want \in Float, NEW dw \in -4..4,
         want.kind = "number", want.mag <= Largest, ~isnan(got),
         ~(got.mag = 0 /\ want.mag = 0 /\ got.kind = "number"),
         NEW bound \in Nat, bound <= 12 * Normal - 2
  PROVE  Below(ulperr(got, want, dw), bound) <=> Abs(Distance(got, want) + dw) < bound
<1> DEFINE g == Value(got)
           w == Value(want)
<1>1. /\ g \in Int /\ w \in Int /\ want.mag \in Nat /\ w \in {want.mag, -want.mag}
      /\ got.mag \in Nat /\ Normal \in Nat \ {0} /\ eulp(want.mag) \in {1, 2, 4}
  BY FormatAssumption DEF Value, Float, eulp
<1>2. CASE Equal(got, want)
  <2>1. ~isinf(got) /\ g = w /\ signbit(got) = signbit(want)
    BY <1>2 DEF Equal, isinf, isnan, signbit, Value, Float
  <2>2. ulperr(got, want, dw) = Error(dw)
    BY <1>2, <2>1 DEF ulperr, isnan
  <2>3. Distance(got, want) = 0
    BY <1>1, <2>1 DEF Distance, isinf
  <2> QED BY <2>2, <2>3 DEF Below, Error
<1>3. CASE ~Equal(got, want) /\ ~isinf(got)
  <2>1. ulperr(got, want, dw) = Error((4 * (g - w)) \div eulp(want.mag) + dw)
    BY <1>3 DEF ulperr, isnan, isinf
  <2>2. Distance(got, want) = (4 * (g - w)) \div eulp(want.mag)
    BY <1>3 DEF Distance, isinf
  <2> QED BY <2>1, <2>2 DEF Below, Error
<1>4. CASE isinf(got)
  <2> DEFINE top == IF got.neg THEN -LargestPower ELSE LargestPower
             half == 4 * top - 2 * w
  <2>1. top \in {4 * Normal, -4 * Normal} /\ half \in Int
    BY <1>1 DEF LargestPower
  <2>2. ulperr(got, want, dw) = Error(half \div eulp(want.mag \div 2) + dw)
    BY <1>4 DEF ulperr, isnan, isinf, Equal
  <2>3. Distance(got, want) = (4 * (2 * top - w)) \div eulp(want.mag)
    <3>1. (IF got.neg THEN -2 ELSE 2) * LargestPower = 2 * top
      BY <1>1 DEF LargestPower
    <3> QED BY <1>4, <3>1 DEF Distance, isinf
  <2>4. 4 * (2 * top - w) = 2 * half
    BY <1>1, <2>1
  <2> HIDE DEF top, half, g, w
  <2>5. CASE want.mag >= 2 * Normal
    <3>1. eulp(want.mag \div 2) \in {1, 2} /\ eulp(want.mag) = 2 * eulp(want.mag \div 2)
      BY <1>1, <2>5, HalfAnUlp DEF eulp, Largest
    <3>2. (2 * half) \div eulp(want.mag) = half \div eulp(want.mag \div 2)
      BY <2>1, <3>1, HalvedQuotient
    <3> QED BY <2>2, <2>3, <2>4, <3>2 DEF Below, Error
  <2>6. CASE want.mag < 2 * Normal
    <3>1. eulp(want.mag) = 1 /\ eulp(want.mag \div 2) = 1
      BY <1>1, <2>6 DEF eulp
    <3>2. half >= 12 * Normal + 2 \/ half <= -(12 * Normal + 2)
      BY <1>1, <2>1, <2>6 DEF half
    <3>3. half \div 1 = half /\ (2 * half) \div 1 = 2 * half
      BY <2>1
    <3>4. Abs(half + dw) >= bound /\ Abs(2 * half + dw) >= bound
      BY <1>1, <2>1, <3>2 DEF Abs
    <3> QED BY <2>1, <2>2, <2>3, <2>4, <3>1, <3>3, <3>4 DEF Below, Error, Abs
  <2> QED BY <1>1, <2>5, <2>6
<1> QED BY <1>2, <1>3, <1>4

\* ulperr, which halves what it compares lest it overflow, lies on the same
\* side of every bound of a driver as the distance of result and expected value
\* does: in every format in which a normal number has three bits or more.
THEOREM UlperrIsDistanceHolds ==
  ASSUME Normal >= 4
  PROVE  Spec => []UlperrIsDistance
<1>1. IInv => UlperrIsDistance
  <2> SUFFICES ASSUME IInv, pc = "result", call.v.y.kind = "number", ~isnan(call.res.y),
                      ~(call.res.y.mag = 0 /\ call.v.y.mag = 0 /\ call.res.y.kind = "number"),
                      NEW bound \in {4, 6, 8, 10, 12, 16, 20, 22, 44}
               PROVE  Below(ulperr(call.res.y, call.v.y, call.v.dy), bound) <=>
                        Abs(Distance(call.res.y, call.v.y) + call.v.dy) < bound
    BY Zenon DEF UlperrIsDistance
  <2>1. call \in Calls
    BY DEF IInv
  <2>2. /\ call.v.y \in Float /\ call.res.y \in Float /\ call.v.dy \in -4..4
        /\ call.v.y.mag <= Largest
    BY <2>1, CallsAssumption DEF Call, Vector, Results, Representable
  <2>3. bound \in Nat /\ bound <= 12 * Normal - 2
    BY FormatAssumption
  <2> QED BY <2>2, <2>3, UlperrMeasures
<1> QED BY <1>1, Invariance, PTL

\* The flags a driver judges are those that the call has raised, and none that
\* an earlier vector or ulperr and printf have left in the processor.
THEOREM OwnEnvironmentHolds == Spec => []OwnEnvironment
<1>1. IInv => OwnEnvironment
  BY DEF IInv, OwnEnvironment
<1> QED BY <1>1, Invariance, PTL

\* A driver says nothing and exits with 0 when every call returns and raises
\* what its vector says, and it passes over no blunder of the function in
\* silence: for every format, table and way to judge.
THEOREM RightVerdictHolds == Spec => []RightVerdict
<1>1. IInv => RightVerdict
  BY DEF IInv, RightVerdict, NoFalseAlarm, NeverSilent
<1> QED BY <1>1, Invariance, PTL
=============================================================================
