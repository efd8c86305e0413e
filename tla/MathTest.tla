------------------------------ MODULE MathTest -------------------------------
(***************************************************************************)
(* The loop that all drivers of src/math have: for each vector set the     *)
(* rounding mode, clear the exception flags, call the function, read the   *)
(* flags, judge flags and results, and exit with 1 if anything was wrong.  *)
(* The rounding mode and the flags are state of the processor that every   *)
(* floating-point operation may use or change, the driver's own included.  *)
(***************************************************************************)
EXTENDS MathDrivers

CONSTANTS
  Drivers,    \* the ways to judge that are looked at
  Calls,      \* vectors, each with what a function may return and raise for it
  MaxVectors  \* bound: the length of a table

Modes == {"RN", "RD", "RU", "RZ"}
Float == [kind : {"number", "nan", "inf"}, neg : BOOLEAN, mag : Nat]
\* A vector whose r is "none" is for a mode that the platform does not have.
Vector == [r : Modes \cup {"none"}, x : {"negative", "positive", "nan", "-inf", "inf"},
           y : Float, dy : Int, y2 : Float, i : Int, flags : SUBSET Flags]
Results == [y : Float, y2 : Float, i : Int]
Call == [v : Vector, res : Results, raised : SUBSET Flags]

\* The expected values of the tables are within half an ulp of the exact ones
\* to nearest and within one ulp in the directed modes, and only a number is
\* rounded at all.  Values are values of the format.
ASSUME CallsAssumption ==
  /\ Calls \subseteq Call
  /\ \A c \in Calls : /\ c.v.dy \in -4..4 /\ (c.v.r = "RN" => c.v.dy \in -2..2)
                      /\ c.v.y.kind # "number" => c.v.dy = 0
                      /\ Representable(c.v.y.mag) /\ Representable(c.res.y.mag)
ASSUME DriversAssumption == Drivers \subseteq Judges /\ MaxVectors \in Nat

VARIABLES
  judge,   \* the driver, as its way to judge
  left,    \* how many vectors are left
  pc,      \* where main() is
  call,    \* the vector p, and what the call for it will do
  fpu,     \* the rounding mode and the exception flags of the processor
  e,       \* e
  err,     \* is err not zero?
  said,    \* the messages there were: an error, or one with an X in front
  exact,   \* (history) has every call returned and raised what its vector says?
  wrong    \* (history) was there a blunder of a function, see below?

vars == <<judge, left, pc, call, fpu, e, err, said, exact, wrong>>
history == <<exact, wrong>>

TypeOK ==
  /\ judge \in Drivers /\ left \in 0..MaxVectors
  /\ pc \in {"loop", "prepare", "evaluate", "flags", "result", "exit"}
  /\ pc \notin {"loop", "exit"} => call \in Call /\ call.v.r \in Modes
  /\ fpu \in [mode : Modes, flags : SUBSET Flags]
  /\ e \subseteq Flags /\ said \subseteq {"error", "X"}
  /\ {err, exact, wrong} \subseteq BOOLEAN

NoCall == <<>>

Init ==
  /\ judge \in Drivers /\ left \in 0..MaxVectors /\ pc = "loop"
  /\ call = NoCall /\ fpu = [mode |-> "RN", flags |-> {}] /\ e = {}
  /\ err = FALSE /\ said = {} /\ exact = TRUE /\ wrong = FALSE

-----------------------------------------------------------------------------

\* The tables of the Bessel functions of the second kind have NaN or -inf
\* below zero.
InTable(v) == judge.pole /\ Negative(v.x) => isnan(v.y) \/ v.y = Infinity(TRUE)

\* Mutant: the loop goes one vector too far.
TakeOneMore(c) ==
  /\ pc = "loop" /\ InTable(c.v)
  /\ left' = left - 1
  /\ IF c.v.r = "none" THEN UNCHANGED <<pc, call>> ELSE pc' = "prepare" /\ call' = c
  /\ UNCHANGED <<judge, fpu, e, err, said, history>>

\* The next vector of the table; one for an unknown mode is passed over.
Take(c) ==
  /\ pc = "loop" /\ left > 0 /\ InTable(c.v)
  /\ left' = left - 1
  /\ IF c.v.r = "none" THEN UNCHANGED <<pc, call>> ELSE pc' = "prepare" /\ call' = c
  /\ UNCHANGED <<judge, fpu, e, err, said, history>>

\* Mutant: the flags are cleared before the loop only.
PrepareNoClear ==
  /\ pc = "prepare"
  /\ fpu' = [fpu EXCEPT !.mode = call.v.r]
  /\ pc' = "evaluate"
  /\ UNCHANGED <<judge, left, call, e, err, said, history>>

\* fesetround(p->r); feclearexcept(FE_ALL_EXCEPT);
Prepare ==
  /\ pc = "prepare"
  /\ fpu' = [mode |-> call.v.r, flags |-> {}]
  /\ pc' = "evaluate"
  /\ UNCHANGED <<judge, left, call, e, err, said, history>>

IsExact(c) == c.res.y = c.v.y /\ c.res.y2 = c.v.y2 /\ c.res.i = c.v.i /\ c.raised = c.v.flags

\* The call, and e = fetestexcept(...).
Evaluate ==
  /\ pc = "evaluate"
  /\ fpu' = [fpu EXCEPT !.flags = @ \cup call.raised]
  /\ e' = fpu.flags \cup call.raised
  /\ exact' = (exact /\ IsExact(call))
  /\ pc' = "flags"
  /\ UNCHANGED <<judge, left, call, err, said, wrong>>

\* printf and ulperr are floating-point code, and may raise any flags.
FpuUsed == \E s \in {{}, Flags} : fpu' = [fpu EXCEPT !.flags = @ \cup s]

\* err++ and a message, or just a message that begins with X.
Counts(verdict) ==
  /\ err' = (err \/ verdict = "bad")
  /\ said' = said \cup (CASE verdict = "good" -> {}
                          [] verdict = "bad" -> {"error"}
                          [] verdict = "tolerated" -> {"X"})

JudgeFlags ==
  /\ pc = "flags"
  /\ Counts(FlagsVerdict(judge, call.v, e, call.res))
  /\ FpuUsed
  /\ pc' = "result"
  /\ UNCHANGED <<judge, left, call, e, history>>

isZero(x) == x.kind = "number" /\ x.mag = 0

\* A blunder: INVALID, DIVBYZERO or OVERFLOW raised or left out, a NaN for a
\* number or infinity or the other way round, anything else for an infinity,
\* the wrong sign of zero, a wrong integer.
Blunder(c) ==
  LET got == c.res.y
      want == c.v.y
      grave == {"INVALID", "DIVBYZERO", "OVERFLOW"}
  IN \/ c.raised \cap grave # c.v.flags \cap grave
     \/ IF judge.result \in {"lrint", "ilogb"}
          THEN "INVALID" \notin c.v.flags /\ c.res.i # c.v.i
          ELSE \/ isnan(got) # isnan(want)
               \/ isinf(want) /\ got # want
               \/ isZero(want) /\ isZero(got) /\ got.neg # want.neg

\* Where the drivers are not meant to tell right from wrong: they do not care
\* which of two results a function has below its domain, and for tgammal and
\* lgammal they compare with 2 ulp instead of calling checkulp.
Unjudged(c) == (judge.pole /\ Negative(c.v.x)) \/ judge.result = "2ulp"

JudgeResult ==
  /\ pc = "result"
  /\ Counts(ResultVerdict(judge, call.v, call.res))
  /\ FpuUsed
  /\ wrong' = (wrong \/ (Blunder(call) /\ ~Unjudged(call)))
  /\ pc' = "loop" /\ call' = NoCall /\ e' = {}
  /\ UNCHANGED <<judge, left, exact>>

\* return !!err;
Return ==
  /\ pc = "loop" /\ left = 0
  /\ pc' = "exit"
  /\ UNCHANGED <<judge, left, call, fpu, e, err, said, history>>

Next == (\E c \in Calls : Take(c)) \/ Prepare \/ Evaluate \/ JudgeFlags
        \/ JudgeResult \/ Return

Spec == Init /\ [][Next]_vars

-----------------------------------------------------------------------------
(* Properties. *)

\* A driver says nothing and exits with 0 when every call returns and raises
\* exactly what the vectors say, whatever its own computations do to flags and
\* mode ("tests should return 0 on success", "on success no message should be
\* printed", README lines 36-38).
NoFalseAlarm == exact /\ pc \in {"loop", "exit"} => ~err /\ said = {}

\* No driver passes over a blunder of the function in silence; one that
\* tolerates nothing fails.  A blunder must not slip through a comparison that
\* is false for a NaN.
NeverSilent ==
  /\ wrong => said # {}
  /\ wrong /\ ~judge.directed /\ judge.limit = 0 /\ judge.flags # "tiny" => err

\* Every driver judges the function rightly as far as it judges at all.
RightVerdict == NoFalseAlarm /\ NeverSilent

\* The flags that are judged are those that the call itself has raised, none
\* that another vector or the driver's own operations have left over.
OwnEnvironment == pc = "flags" => e = call.raised

\* The distance of got and want in quarters of an ulp of want, where infinity
\* is the power of two above the largest number.
Distance(got, want) ==
  LET extended(x) == IF isinf(x) THEN (IF x.neg THEN -2 ELSE 2) * LargestPower ELSE Value(x)
  IN (4 * (extended(got) - extended(want))) \div eulp(want.mag)

\* ulperr, which avoids overflow by halving want, measures that distance: the
\* two lie on the same side of every bound that a driver compares with.
UlperrIsDistance ==
  pc = "result" /\ call.v.y.kind = "number" /\ ~isnan(call.res.y)
    /\ ~(call.res.y.mag = 0 /\ call.v.y.mag = 0 /\ call.res.y.kind = "number") =>
    \A bound \in {4, 6, 8, 10, 12, 16, 20, 22, 44} :
      Below(ulperr(call.res.y, call.v.y, call.v.dy), bound) <=>
        Abs(Distance(call.res.y, call.v.y) + call.v.dy) < bound

=============================================================================
