----------------------------- MODULE TestVerdict -----------------------------
(***************************************************************************)
(* What running one test promises to the rest of the build (README, lines  *)
(* 36-38 and 52-54): the test ends in some way, and what is reported about *)
(* it is a failure exactly when it did not end with exit status 0.         *)
(***************************************************************************)

VARIABLES
  outcome,   \* how the test ended: "none" yet, "ok" (exit status 0) or "bad"
  verdict    \* what the report says of it: "none" yet, "pass" or "fail"

vars == <<outcome, verdict>>

TypeOK ==
  /\ outcome \in {"none", "ok", "bad"}
  /\ verdict \in {"none", "pass", "fail"}

Init == outcome = "none" /\ verdict = "none"

\* The test exits, crashes or is killed.
End(o) ==
  /\ outcome = "none"
  /\ outcome' = o
  /\ UNCHANGED verdict

\* The end of the test is reported, once.
Report ==
  /\ outcome # "none"
  /\ verdict = "none"
  /\ verdict' = IF outcome = "ok" THEN "pass" ELSE "fail"
  /\ UNCHANGED outcome

\* The test cannot even be started, which is a failure as well.
NoStart ==
  /\ outcome = "none"
  /\ outcome' = "bad"
  /\ verdict' = "fail"

Next == (\E o \in {"ok", "bad"} : End(o)) \/ Report \/ NoStart

Spec == Init /\ [][Next]_vars /\ WF_vars(Report)

\* A test that ended is eventually reported (README, lines 52-54).
Reported == (outcome # "none") ~> (verdict # "none")
=============================================================================
