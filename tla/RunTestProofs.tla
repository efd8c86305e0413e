---------------------------- MODULE RunTestProofs ----------------------------
(***************************************************************************)
(* Proofs about RunTest for any set of exit statuses, with and without     *)
(* stopped tests and job control.  The inductive invariant IInv says where *)
(* the child is when runtest is at each point of main() (ChildInStep),     *)
(* what the report holds before the verdict (ReportSoFar), and why a test  *)
(* was killed (KillHasReason).                                             *)
(***************************************************************************)
EXTENDS RunTest, TLAPS, SequenceTheorems

\* The disposition that SetMask leaves behind is what keeps the child a
\* zombie until waitpid; before fork there is no child.
ChildInStep ==
  /\ pc \in {"args", "mask", "start"} => child = "none"
  /\ pc \in {"timedwait", "waiting", "kill", "waitpid"} => child \notin {"none", "reaped"}
  /\ pc = "verdict" => child = "reaped"
  /\ pc = "done" => child \in {"none", "reaped"}
  /\ pc \notin {"args", "mask", "done"} => disp = "handler"
  /\ wstatus = NoStatus <=> child \notin {"exiting", "zombie", "reaped"}

\* Before the end there is no FAIL line and, unless the wait was interrupted,
\* no error.
ReportSoFar ==
  /\ pc # "done" => ~Failed /\ "usage" \notin Lines
  /\ pc # "done" /\ ~WasInterrupted => tStatus = 0
  /\ pc = "done" /\ child = "none" => Failed \/ "usage" \in Lines
  /\ child # "none" => "usage" \notin Lines

\* Only a deadline that passed, or an interrupted wait, leads to the kill.
KillHasReason ==
  /\ timeout => timer = "expired"
  /\ pc \in {"args", "mask", "start", "timedwait"} => ~timeout
  /\ pc = "kill" \/ wstatus = Signaled(SIGKILL) => timeout \/ WasInterrupted

IInv == /\ TypeOK /\ ChildInStep /\ ReportSoFar /\ KillHasReason
        /\ Truthful /\ OwnSignal /\ StatusMatchesReport

-----------------------------------------------------------------------------

\* What the lines of a report are after one more is written.
LEMMA LinesAfter ==
  ASSUME TypeOK, NEW x \in FailLines \cup ErrorLines, report' = Append(report, x)
  PROVE  /\ report' \in Seq(FailLines \cup ErrorLines)
         /\ Lines' = Lines \cup {x}
         /\ Len(report') = Len(report) + 1
         /\ \A i \in 1..Len(report) : report'[i] = report[i]
         /\ report'[Len(report) + 1] = x
<1> DEFINE S == FailLines \cup ErrorLines
<1>1. report \in Seq(S)
  BY DEF TypeOK
<1>2. /\ report' \in Seq(S)
      /\ Len(report') = Len(report) + 1
      /\ \A i \in 1..Len(report) : report'[i] = report[i]
      /\ report'[Len(report) + 1] = x
  BY <1>1, AppendProperties
<1>3. Len(report) \in Nat
  BY <1>1, LenProperties
<1>4. Lines' = Lines \cup {x}
  BY <1>2, <1>3 DEF Lines
<1> QED
  BY <1>2, <1>4

\* The two lines that a failure inside of runtest writes.
LEMMA LinesAfterTwo ==
  ASSUME TypeOK, NEW x \in FailLines \cup ErrorLines, NEW y \in FailLines \cup ErrorLines,
         report' = report \o <<x, y>>
  PROVE  /\ report' \in Seq(FailLines \cup ErrorLines)
         /\ Lines' = Lines \cup {x, y}
         /\ Len(report') = Len(report) + 2
         /\ \A i \in 1..Len(report) : report'[i] = report[i]
         /\ report'[Len(report) + 1] = x
         /\ report'[Len(report) + 2] = y
<1> DEFINE S == FailLines \cup ErrorLines
<1>1. report \in Seq(S)
  BY DEF TypeOK
<1>2. <<x, y>> \in Seq(S) /\ Len(<<x, y>>) = 2
  OBVIOUS
<1>3. Len(report) \in Nat
  BY <1>1, LenProperties
<1>4. /\ report' \in Seq(S)
      /\ Len(report') = Len(report) + 2
      /\ \A i \in 1..Len(report) + 2 :
           report'[i] = IF i <= Len(report) THEN report[i] ELSE <<x, y>>[i - Len(report)]
  BY <1>1, <1>2, ConcatProperties
<1>5. /\ \A i \in 1..Len(report) : report'[i] = report[i]
      /\ report'[Len(report) + 1] = x
      /\ report'[Len(report) + 2] = y
  BY <1>3, <1>4
<1>6. \A i \in 1..Len(report) + 2 :
        i \in 1..Len(report) \/ i = Len(report) + 1 \/ i = Len(report) + 2
  BY <1>3
<1>7. Lines' = Lines \cup {x, y}
  BY <1>3, <1>4, <1>5, <1>6 DEF Lines
<1> QED
  BY <1>4, <1>5, <1>7

\* A step that writes nothing keeps the lines.
LEMMA LinesSame ==
  ASSUME report' = report
  PROVE  Lines' = Lines
BY DEF Lines

\* Wait statuses are told apart by how the child ended and by the value.
LEMMA StatusesDiffer ==
  /\ NoStatus.how = "none"
  /\ \A x : Exited(x) # NoStatus /\ Exited(x).how = "exited"
  /\ \A x : Signaled(x) # NoStatus /\ Signaled(x).how = "signaled"
  /\ \A x, y : Exited(x) # Signaled(y)
  /\ Signaled(SIGKILL) # Signaled(SIGSEGV)
BY DEF NoStatus, Exited, Signaled, SIGKILL, SIGSEGV

\* A step of main() or of the child that writes nothing before the end.
LEMMA QuietStep ==
  ASSUME IInv, pc # "done", pc' # "done", UNCHANGED <<report, tStatus>>,
         TypeOK', ChildInStep', KillHasReason'
  PROVE  IInv'
<1>1. Lines' = Lines
  BY LinesSame
<1>2. ReportSoFar'
  <2>1. ~Failed' /\ "usage" \notin Lines'
    BY <1>1 DEF IInv, ReportSoFar, Failed
  <2>2. ~WasInterrupted' => tStatus' = 0
    BY <1>1 DEF IInv, ReportSoFar, WasInterrupted
  <2> QED
    BY <2>1, <2>2 DEF ReportSoFar
<1>3. OwnSignal'
  BY <1>1 DEF IInv, ReportSoFar, OwnSignal, Failed, FailLines
<1>4. Truthful' /\ StatusMatchesReport'
  BY DEF Truthful, StatusMatchesReport, Ran
<1> QED
  BY <1>2, <1>3, <1>4 DEF IInv

-----------------------------------------------------------------------------

LEMMA InitIInv == Init => IInv
<1> SUFFICES ASSUME Init PROVE IInv
  OBVIOUS
<1>1. Lines = {}
  BY DEF Init, Lines
<1>2. TypeOK
  <2>1. report \in Seq(FailLines \cup ErrorLines)
    BY DEF Init
  <2> QED
    BY <2>1 DEF Init, TypeOK, WaitStatuses
<1>3. ChildInStep /\ KillHasReason
  BY DEF Init, ChildInStep, KillHasReason, NoStatus, Signaled
<1>4. ReportSoFar
  BY <1>1 DEF Init, ReportSoFar, Failed, WasInterrupted
<1>5. Truthful /\ OwnSignal /\ StatusMatchesReport
  BY <1>1 DEF Init, Truthful, OwnSignal, StatusMatchesReport, Ran
<1> QED
  BY <1>2, <1>3, <1>4, <1>5 DEF IInv

-----------------------------------------------------------------------------
(* The kernel and the child. *)

LEMMA ChildStep ==
  ASSUME IInv, Exec \/ Test \/ Die \/ Expire
  PROVE  IInv'
<1> USE DEF IInv
<1>1. CASE Die
  <2>1. pc # "done" /\ pc' = pc /\ UNCHANGED <<report, tStatus>> /\ child' = "zombie"
    BY <1>1 DEF Die, ChildInStep, sup
  <2>2. TypeOK'
    BY <1>1, <2>1 DEF Die, TypeOK, sup, PostChld
  <2>3. ChildInStep' /\ KillHasReason'
    BY <1>1, <2>1 DEF Die, ChildInStep, KillHasReason, WasInterrupted, Lines, sup
  <2> QED
    BY <2>1, <2>2, <2>3, QuietStep
<1>2. CASE Expire
  <2>1. TypeOK' /\ ChildInStep' /\ KillHasReason'
    BY <1>2 DEF Expire, TypeOK, ChildInStep, KillHasReason, WasInterrupted, Lines
  <2> QED
    BY <1>2, <2>1, QuietStep DEF Expire
<1>3. ASSUME NEW w \in WaitStatuses \ {NoStatus}, TestEnds(w), w # Signaled(SIGKILL)
      PROVE  IInv'
  <2>1. TypeOK'
    BY <1>3 DEF TestEnds, FixStatus, TypeOK, sup
  <2>2. pc # "done" /\ ChildInStep' /\ KillHasReason'
    BY <1>3 DEF TestEnds, FixStatus, ChildInStep, KillHasReason, WasInterrupted, Lines, sup
  <2> QED
    BY <1>3, <2>1, <2>2, QuietStep DEF TestEnds, sup
<1>4. CASE TestStops \/ TestContinues
  <2>1. TypeOK'
    <3>1. pending' \in BOOLEAN
      BY <1>4, Zenon DEF TestStops, TestContinues, PostChld
    <3>2. child' \in {"running", "stopped"} /\ UNCHANGED <<sup, wstatus, report>>
      BY <1>4 DEF TestStops, TestContinues
    <3> QED
      BY <3>1, <3>2 DEF TypeOK, sup
  <2>2. pc # "done" /\ ChildInStep' /\ KillHasReason'
    <3>1. /\ child \in {"running", "stopped"} /\ child' \in {"running", "stopped"}
          /\ UNCHANGED <<sup, wstatus, report>>
      BY <1>4 DEF TestStops, TestContinues
    <3>2. WasInterrupted' <=> WasInterrupted
      BY <3>1, LinesSame DEF WasInterrupted
    <3> QED
      BY <3>1, <3>2 DEF ChildInStep, KillHasReason, sup
  <2> QED
    BY <1>4, <2>1, <2>2, QuietStep DEF TestStops, TestContinues, sup
<1>5. CASE Test
  <2>1. ASSUME NEW s \in Statuses, TestEnds(Exited(s)) PROVE IInv'
    BY <1>3, <2>1, StatusesDiffer DEF WaitStatuses
  <2>2. ASSUME TestEnds(Signaled(SIGSEGV)) PROVE IInv'
    BY <1>3, <2>2, StatusesDiffer DEF WaitStatuses
  <2> QED
    BY <1>4, <1>5, <2>1, <2>2 DEF Test
<1>6. CASE Exec
  <2>1. pc # "done" /\ pc' = pc /\ tStatus' = tStatus /\ child # "none" /\ child # "reaped"
    BY <1>6 DEF Exec, ChildInStep, sup
  <2>2. CASE child' = "running" /\ UNCHANGED <<wstatus, report>>
    <3>1. TypeOK' /\ ChildInStep' /\ KillHasReason'
      BY ZenonT(30), <1>6, <2>2 DEF Exec, TypeOK, ChildInStep, KillHasReason, WasInterrupted, Lines, sup
    <3> QED
      BY <2>1, <2>2, <3>1, QuietStep
  <2>3. CASE FixStatus(Exited(1)) /\ report' = Append(report, "exec failed")
    <3>1. /\ report' \in Seq(FailLines \cup ErrorLines)
          /\ Lines' = Lines \cup {"exec failed"}
      BY <2>3, LinesAfter DEF ErrorLines
    <3>2. Exited(1) \in WaitStatuses
      BY StatusesAssumption DEF WaitStatuses
    <3>3. TypeOK'
      BY ZenonT(30), <1>6, <2>3, <3>1, <3>2 DEF Exec, FixStatus, TypeOK, sup
    <3>4. ChildInStep'
      BY <1>6, <2>3, StatusesDiffer DEF Exec, FixStatus, ChildInStep, sup
    <3>5. KillHasReason'
      BY <1>6, <2>3, <3>1, StatusesDiffer
         DEF Exec, FixStatus, KillHasReason, WasInterrupted, sup
    <3>6. ReportSoFar'
      BY <2>1, <3>1 DEF ReportSoFar, Failed, FailLines, WasInterrupted
    <3>7. OwnSignal' /\ Truthful' /\ StatusMatchesReport'
      BY <2>1, <2>3, StatusesDiffer
         DEF OwnSignal, Truthful, StatusMatchesReport, Ran, FixStatus
    <3> QED
      BY <3>3, <3>4, <3>5, <3>6, <3>7
  <2> QED
    BY <1>6, <2>2, <2>3 DEF Exec
<1> QED
  BY <1>1, <1>2, <1>5, <1>6

-----------------------------------------------------------------------------
(* runtest. *)

LEMMA ParseArgsStep == ASSUME IInv, ParseArgs PROVE IInv'
<1> USE DEF IInv
<1>1. CASE pc' = "mask" /\ UNCHANGED <<tStatus, report, ret>>
  <2>1. TypeOK' /\ ChildInStep' /\ KillHasReason'
    BY <1>1 DEF ParseArgs, TypeOK, ChildInStep, KillHasReason, WasInterrupted, Lines
  <2> QED
    BY <1>1, <2>1, QuietStep DEF ParseArgs
<1>2. CASE /\ pc' = "done" /\ tStatus' = 1 /\ ret' = -1
           /\ report' = Append(report, "usage")
  <2>1. /\ report' \in Seq(FailLines \cup ErrorLines)
        /\ Lines' = Lines \cup {"usage"}
    BY <1>2, LinesAfter DEF ErrorLines
  <2>2. TypeOK'
    BY <1>2, <2>1 DEF ParseArgs, TypeOK
  <2>3. child' = "none"
    BY DEF ParseArgs, ChildInStep
  <2>4. ChildInStep' /\ KillHasReason'
    BY <1>2, <2>1, <2>3 DEF ParseArgs, ChildInStep, KillHasReason, WasInterrupted
  <2>5. ReportSoFar'
    BY <1>2, <2>1, <2>3 DEF ReportSoFar
  <2>6. Truthful' /\ StatusMatchesReport'
    BY <2>3 DEF Truthful, StatusMatchesReport, Ran
  <2>7. OwnSignal'
    BY <2>1 DEF ParseArgs, OwnSignal, WasInterrupted
  <2> QED
    BY <2>2, <2>4, <2>5, <2>6, <2>7
<1> QED
  BY <1>1, <1>2 DEF ParseArgs

LEMMA StartStep == ASSUME IInv, Start PROVE IInv'
<1> USE DEF IInv
<1>1. CASE pc' = "timedwait" /\ child' = "forked" /\ UNCHANGED <<tStatus, report, ret>>
  <2>1. TypeOK' /\ ChildInStep' /\ KillHasReason'
    BY <1>1 DEF Start, TypeOK, ChildInStep, KillHasReason, WasInterrupted, Lines
  <2> QED
    BY <1>1, <2>1, QuietStep DEF Start
<1>2. CASE /\ pc' = "done" /\ tStatus' = 1 /\ ret' = -1
           /\ report' = report \o <<"fork failed", "FAIL [internal]">>
           /\ UNCHANGED child
  <2>1. /\ report' \in Seq(FailLines \cup ErrorLines)
        /\ Lines' = Lines \cup {"fork failed", "FAIL [internal]"}
    BY <1>2, LinesAfterTwo DEF ErrorLines, FailLines
  <2>2. TypeOK'
    BY <1>2, <2>1 DEF Start, TypeOK
  <2>3. child' = "none"
    BY <1>2 DEF Start, ChildInStep
  <2>4. ChildInStep' /\ KillHasReason'
    BY <1>2, <2>1, <2>3 DEF Start, ChildInStep, KillHasReason, WasInterrupted
  <2>5. ReportSoFar'
    BY <1>2, <2>1, <2>3 DEF ReportSoFar, Failed, FailLines
  <2>6. Truthful' /\ StatusMatchesReport'
    BY <2>3 DEF Truthful, StatusMatchesReport, Ran
  <2>7. OwnSignal'
    BY <2>1 DEF Start, OwnSignal, WasInterrupted
  <2> QED
    BY <2>2, <2>4, <2>5, <2>6, <2>7
<1> QED
  BY <1>1, <1>2 DEF Start

LEMMA WaitStep ==
  ASSUME IInv, SetMask \/ SigTimedWait \/ GotChld \/ TimedOut
  PROVE  IInv'
<1> USE DEF IInv, SetMask, SigTimedWait, GotChld, TimedOut
<1>1. TypeOK'
  BY ZenonT(30) DEF TypeOK
<1>2. ChildInStep'
  BY DEF ChildInStep
<1>3. WasInterrupted' <=> WasInterrupted
  <2>1. report' = report
    OBVIOUS
  <2> QED
    BY <2>1, LinesSame DEF WasInterrupted
<1>4. KillHasReason'
  <2>1. ~(pc' = "kill") \/ TimedOut
    OBVIOUS
  <2> QED
    BY <1>3, <2>1 DEF KillHasReason, ChildInStep
<1> QED
  BY <1>1, <1>2, <1>4, QuietStep

LEMMA InterruptedStep == ASSUME IInv, Interrupted PROVE IInv'
<1> USE DEF IInv
<1>1. /\ report' \in Seq(FailLines \cup ErrorLines)
      /\ Lines' = Lines \cup {"sigtimedwait failed"}
  BY LinesAfter DEF Interrupted, ErrorLines
<1>2. TypeOK' /\ ChildInStep'
  BY <1>1 DEF Interrupted, TypeOK, ChildInStep
<1>3. KillHasReason' /\ OwnSignal'
  BY <1>1 DEF Interrupted, KillHasReason, OwnSignal, WasInterrupted
<1>4. ReportSoFar'
  BY <1>1 DEF Interrupted, ReportSoFar, Failed, FailLines, WasInterrupted
<1>5. Truthful' /\ StatusMatchesReport'
  BY DEF Interrupted, Truthful, StatusMatchesReport, Ran
<1> QED
  BY <1>2, <1>3, <1>4, <1>5

LEMMA KillStep == ASSUME IInv, Kill PROVE IInv'
<1> USE DEF IInv
<1>1. child # "reaped" /\ child # "none"
  BY DEF Kill, ChildInStep
<1>2. Signaled(SIGKILL) \in WaitStatuses
  BY DEF WaitStatuses
<1>3. TypeOK'
  BY <1>1, <1>2 DEF Kill, FixStatus, TypeOK
<1>4. ChildInStep'
  BY <1>1, StatusesDiffer DEF Kill, FixStatus, ChildInStep
<1>5. KillHasReason'
  BY <1>1 DEF Kill, KillHasReason, WasInterrupted, Lines
<1> QED
  BY <1>1, <1>3, <1>4, <1>5, QuietStep DEF Kill

LEMMA WaitpidStep == ASSUME IInv, Waitpid PROVE IInv'
<1> USE DEF IInv
<1>1. child = "zombie"
  BY DEF Waitpid, ChildInStep
<1>2. TypeOK' /\ ChildInStep' /\ KillHasReason'
  BY <1>1 DEF Waitpid, TypeOK, ChildInStep, KillHasReason, WasInterrupted, Lines
<1> QED
  BY <1>1, <1>2, QuietStep DEF Waitpid

LEMMA VerdictStep == ASSUME IInv, Verdict PROVE IInv'
<1> USE DEF IInv
<1>1. /\ pc = "verdict" /\ pc' = "done" /\ child = "reaped" /\ ~Failed
      /\ wstatus # NoStatus /\ "usage" \notin Lines
      /\ UNCHANGED <<blocked, disp, pending, timer, timeout, child, wstatus>>
  BY DEF Verdict, ChildInStep, ReportSoFar
<1>2. ChildInStep'
  BY <1>1 DEF ChildInStep
<1>3. CASE wstatus = Exited(0)
  <2>1. Lines' = Lines /\ report' = report /\ ret' = tStatus /\ tStatus' = tStatus
    BY <1>3, LinesSame DEF Verdict
  <2>2. TypeOK'
    BY <1>1, <2>1 DEF TypeOK
  <2>3. ~Failed'
    BY <1>1, <2>1 DEF Failed
  <2>4. ReportSoFar' /\ KillHasReason'
    BY <1>1, <2>1 DEF ReportSoFar, KillHasReason, WasInterrupted
  <2>5. Truthful'
    <3>1. Lines' \cap FailLines = {}
      BY <2>3 DEF Failed
    <3>2. \A i \in 1..Len(report') : report'[i] \notin FailLines
      BY <3>1 DEF Lines
    <3>3. "FAIL [status]" \notin Lines' /\ "FAIL [timed out]" \notin Lines'
      BY <3>1 DEF FailLines
    <3> QED
      BY <1>1, <1>3, <2>3, <3>2, <3>3 DEF Truthful
  <2>6. OwnSignal'
    BY <1>1, <2>1 DEF OwnSignal, WasInterrupted
  <2>7. StatusMatchesReport'
    BY <1>1, <2>1, <2>3 DEF StatusMatchesReport, ReportSoFar, WasInterrupted
  <2> QED
    BY <1>2, <2>2, <2>4, <2>5, <2>6, <2>7
<1>4. CASE wstatus # Exited(0)
  <2> DEFINE x == FailLine(wstatus, timeout)
  <2>1. /\ wstatus.how = "exited" => x = "FAIL [status]"
        /\ wstatus.how = "signaled" => x = IF timeout THEN "FAIL [timed out]"
                                                      ELSE "FAIL [signal]"
    BY DEF FailLine, TypeOK
  <2>2. wstatus.how \in {"exited", "signaled"}
    BY <1>1, StatusesDiffer DEF TypeOK, WaitStatuses
  <2>3. x \in {"FAIL [status]", "FAIL [timed out]", "FAIL [signal]"}
    BY <2>1, <2>2
  <2>4. ret' = 1 /\ tStatus' = 1 /\ report' = Append(report, x)
    BY <1>4 DEF Verdict
  <2> HIDE DEF x
  <2>5. /\ report' \in Seq(FailLines \cup ErrorLines)
        /\ Lines' = Lines \cup {x}
        /\ Len(report') = Len(report) + 1
        /\ \A i \in 1..Len(report) : report'[i] = report[i]
    BY <2>3, <2>4, LinesAfter DEF FailLines
  <2>6. TypeOK'
    BY <1>1, <2>4, <2>5 DEF TypeOK
  <2>7. Failed' /\ "usage" \notin Lines' /\ (WasInterrupted' <=> WasInterrupted)
    BY <1>1, <2>3, <2>5 DEF Failed, FailLines, WasInterrupted
  <2>8. ReportSoFar' /\ KillHasReason'
    BY <1>1, <2>7 DEF ReportSoFar, KillHasReason
  <2>9. Truthful'
    <3>1. Lines \cap FailLines = {}
      BY <1>1 DEF Failed
    <3>2. Len(report) \in Nat
      BY LenProperties DEF TypeOK
    <3>3. \A i \in 1..Len(report') : report'[i] \in FailLines => i = Len(report) + 1
      <4>1. \A i \in 1..Len(report) : report'[i] \notin FailLines
        BY <2>5, <3>1 DEF Lines
      <4> QED
        BY <2>5, <3>2, <4>1
    <3>4. "FAIL [status]" \in Lines' => wstatus.how = "exited"
      BY <2>1, <2>2, <2>5, <3>1 DEF FailLines
    <3>5. "FAIL [timed out]" \in Lines' => timer = "expired" /\ wstatus.how = "signaled"
      BY <2>1, <2>2, <2>5, <3>1 DEF FailLines, KillHasReason
    <3> QED
      BY <1>1, <1>4, <2>7, <3>3, <3>4, <3>5 DEF Truthful
  <2>10. OwnSignal'
    <3>1. SUFFICES ASSUME wstatus = Signaled(SIGKILL), ~WasInterrupted
                   PROVE  "FAIL [signal]" \notin Lines'
      BY <1>1, <2>7 DEF OwnSignal
    <3>2. timeout /\ wstatus.how = "signaled"
      BY <3>1, StatusesDiffer DEF KillHasReason
    <3> QED
      BY <1>1, <2>1, <2>5, <3>2 DEF Failed, FailLines
  <2>11. StatusMatchesReport'
    BY <2>4, <2>7 DEF StatusMatchesReport
  <2> QED
    BY <1>2, <2>6, <2>8, <2>9, <2>10, <2>11
<1> QED
  BY <1>3, <1>4

LEMMA StepIInv == IInv /\ [Next]_vars => IInv'
<1> SUFFICES ASSUME IInv, [Next]_vars PROVE IInv'
  OBVIOUS
<1>1. CASE Supervisor
  BY <1>1, ParseArgsStep, StartStep, WaitStep, KillStep, WaitpidStep, VerdictStep
     DEF Supervisor
<1>2. CASE Exec \/ Test \/ Die \/ Expire
  BY <1>2, ChildStep
<1>3. CASE UNCHANGED vars
  <2>1. Lines' = Lines
    BY <1>3, LinesSame DEF vars
  <2>2. (Failed' <=> Failed) /\ (WasInterrupted' <=> WasInterrupted) /\ (Ran' <=> Ran)
    BY <1>3, <2>1 DEF vars, Failed, WasInterrupted, Ran
  <2>3. TypeOK' /\ ChildInStep'
    BY <1>3 DEF vars, IInv, TypeOK, ChildInStep
  <2>4. ReportSoFar' /\ KillHasReason'
    BY <1>3, <2>1, <2>2 DEF vars, IInv, ReportSoFar, KillHasReason
  <2>5. Truthful' /\ OwnSignal' /\ StatusMatchesReport'
    BY <1>3, <2>1, <2>2 DEF vars, IInv, Truthful, OwnSignal, StatusMatchesReport
  <2> QED
    BY <2>3, <2>4, <2>5 DEF IInv
<1> QED
  BY <1>1, <1>2, <1>3, InterruptedStep DEF Next, Finished

-----------------------------------------------------------------------------
(* The theorems. *)

\* The inductive invariant holds of every run of the supervisor.
THEOREM Invariance == Spec => []IInv
BY InitIInv, StepIInv, PTL DEF Spec

\* Every variable of the supervisor stays in its set (runtest.c 49-100).
THEOREM TypeCorrect == Spec => []TypeOK
<1>1. IInv => TypeOK
  BY DEF IInv
<1> QED
  BY <1>1, Invariance, PTL

\* The FAIL line says what happened to the test, also when runtest killed it,
\* and the exit status agrees with the line (runtest.c 76-99).
THEOREM ReportIsRightHolds == Spec => []ReportIsRight
<1>1. IInv => ReportIsRight
  BY DEF IInv, ReportIsRight
<1> QED
  BY <1>1, Invariance, PTL

\* Nothing but the child is killed, only after its deadline unless the wait was
\* interrupted, and it is reaped at the end, whatever disposition of SIGCHLD
\* runtest inherits (runtest.c 66-69, 76-82 and 84).
THEOREM KillsRightlyHolds == Spec => []KillsRightly
<1>1. IInv => KillsRightly
  BY DEF IInv, ChildInStep, KillHasReason, KillsRightly, ReapedOnce, KilledOnlyWhenLate, Ran
<1> QED
  BY <1>1, Invariance, PTL

\* The deadline ends the wait only if no SIGCHLD is pending, and a zombie has
\* one pending as long as runtest waits (runtest.c 66-76).
ChldPending ==
  /\ pc \in {"start", "timedwait", "waiting"} => blocked
  /\ pc \in {"timedwait", "waiting"} /\ child = "zombie" => pending

LEMMA StepChldPending == IInv /\ ChldPending /\ [Next]_vars => ChldPending'
<1> SUFFICES ASSUME IInv, ChldPending, [Next]_vars PROVE ChldPending'
  OBVIOUS
<1> USE DEF IInv, ChldPending
<1>1. CASE Die
  BY <1>1 DEF Die, PostChld, sup, ChildInStep
<1>2. CASE Exec \/ Expire
  BY <1>2 DEF Exec, Expire, FixStatus, sup
<1>3. CASE Test
  BY <1>3 DEF Test, TestEnds, TestStops, TestContinues, FixStatus, sup
<1>4. CASE ParseArgs \/ SetMask \/ Start \/ SigTimedWait
  BY <1>4 DEF ParseArgs, SetMask, Start, SigTimedWait, ChildInStep
<1>5. CASE GotChld \/ TimedOut \/ Kill \/ Waitpid \/ Verdict \/ Interrupted
  BY <1>5 DEF GotChld, TimedOut, Kill, Waitpid, Verdict, Interrupted
<1>6. CASE UNCHANGED vars
  BY <1>6 DEF vars
<1> QED
  BY <1>1, <1>2, <1>3, <1>4, <1>5, <1>6 DEF Next, Supervisor, Finished

\* A SIGCHLD sent between fork and sigtimedwait is not lost: the wait never
\* ends by the deadline over a zombie (runtest.c 66-76).
THEOREM NoLostChldHolds == Spec => NoLostChld
<1>1. Init => ChldPending
  BY DEF Init, ChldPending
<1>2. IInv /\ ChldPending /\ [Next]_vars =>
        [pc = "waiting" /\ timeout' # timeout => child # "zombie"]_vars
  <2> SUFFICES ASSUME IInv, ChldPending, Next, pc = "waiting", timeout' # timeout
               PROVE  child # "zombie"
    OBVIOUS
  <2>1. CASE TimedOut
    BY <2>1 DEF TimedOut, ChldPending
  <2>2. CASE ~TimedOut
    BY <2>2 DEF Next, Supervisor, Test, ParseArgs, SetMask, Start, SigTimedWait, GotChld,
                Kill, Waitpid, Verdict, Interrupted, TestEnds, TestStops, TestContinues,
                Exec, Die, Expire, Finished, sup, vars
  <2> QED
    BY <2>1, <2>2
<1> QED
  BY <1>1, <1>2, StepChldPending, Invariance, PTL DEF Spec, NoLostChld

-----------------------------------------------------------------------------
(* The implementation of TestVerdict.                                      *)

\* What the refinement mapping makes of the state of runtest.
Outcome == IF pc = "done" /\ Failed /\ child = "none" THEN "bad"
           ELSE IF wstatus = NoStatus THEN "none"
           ELSE IF wstatus = Exited(0) THEN "ok" ELSE "bad"
Told == IF pc # "done" \/ "usage" \in Lines THEN "none"
        ELSE IF Failed THEN "fail" ELSE "pass"

\* A step before the end that fixes no wait status changes neither.
LEMMA StutterBefore ==
  ASSUME pc # "done", pc' # "done", wstatus' = wstatus
  PROVE  Outcome' = Outcome /\ Told' = Told
BY DEF Outcome, Told

\* A step that fixes the wait status is the end of the test.
LEMMA EndOfTest ==
  ASSUME IInv, NEW w, w # NoStatus, FixStatus(w), child \notin {"exiting", "zombie", "reaped"},
         pc # "done", pc' # "done"
  PROVE  Outcome = "none" /\ Outcome' \in {"ok", "bad"} /\ Told' = Told
<1>1. wstatus = NoStatus
  BY DEF IInv, ChildInStep
<1>2. wstatus' # NoStatus
  BY DEF FixStatus
<1> QED
  BY <1>1, <1>2 DEF Outcome, Told

LEMMA StepRefines ==
  ASSUME IInv, IInv', [Next]_vars
  PROVE  \/ Outcome = "none" /\ Outcome' \in {"ok", "bad"} /\ Told' = Told
         \/ /\ Outcome # "none" /\ Told = "none" /\ Outcome' = Outcome
            /\ Told' = IF Outcome = "ok" THEN "pass" ELSE "fail"
         \/ Outcome = "none" /\ Outcome' = "bad" /\ Told' = "fail" /\ Told = "none"
         \/ Outcome' = Outcome /\ Told' = Told
<1> USE DEF IInv
<1>1. CASE ParseArgs
  <2>1. CASE pc' = "mask" /\ UNCHANGED <<tStatus, report, ret>>
    BY <1>1, <2>1, StutterBefore DEF ParseArgs
  <2>2. CASE pc' = "done" /\ report' = Append(report, "usage")
    <3>1. Lines' = Lines \cup {"usage"}
      BY <2>2, LinesAfter DEF ErrorLines
    <3>2. ~Failed' /\ child = "none" /\ wstatus = NoStatus
      BY <1>1, <3>1 DEF ParseArgs, ChildInStep, ReportSoFar, Failed, FailLines
    <3> QED
      BY <1>1, <3>1, <3>2 DEF ParseArgs, Outcome, Told
  <2> QED
    BY <1>1, <2>1, <2>2 DEF ParseArgs
<1>2. CASE Start
  <2>1. CASE pc' = "timedwait"
    BY <1>2, <2>1, StutterBefore DEF Start
  <2>2. CASE /\ pc' = "done" /\ UNCHANGED child
             /\ report' = report \o <<"fork failed", "FAIL [internal]">>
    <3>1. Lines' = Lines \cup {"fork failed", "FAIL [internal]"}
      BY <2>2, LinesAfterTwo DEF ErrorLines, FailLines
    <3>2. Failed' /\ "usage" \notin Lines' /\ child' = "none" /\ wstatus = NoStatus
      BY <1>2, <2>2, <3>1 DEF Start, ChildInStep, ReportSoFar, Failed, FailLines
    <3> QED
      BY <1>2, <2>2, <3>2 DEF Start, Outcome, Told
  <2> QED
    BY <1>2, <2>1, <2>2 DEF Start
<1>3. CASE SetMask \/ SigTimedWait \/ GotChld \/ TimedOut \/ Interrupted
  BY <1>3, StutterBefore DEF SetMask, SigTimedWait, GotChld, TimedOut, Interrupted
<1>4. CASE Waitpid
  <2>1. pc # "done" /\ pc' = "verdict" /\ wstatus' = wstatus
    BY <1>4 DEF Waitpid, ChildInStep
  <2> QED
    BY <2>1, StutterBefore
<1>5. CASE Kill
  <2>1. pc # "done" /\ pc' # "done"
    BY <1>5 DEF Kill
  <2>2. CASE child \in {"forked", "running", "stopped"}
    <3>1. FixStatus(Signaled(SIGKILL))
      BY <1>5, <2>2 DEF Kill
    <3> QED
      BY <2>1, <2>2, <3>1, EndOfTest, StatusesDiffer
  <2>3. CASE child \notin {"forked", "running", "stopped"}
    BY <1>5, <2>1, <2>3, StutterBefore DEF Kill
  <2> QED
    BY <2>2, <2>3
<1>6. CASE Verdict
  <2>1. /\ pc = "verdict" /\ pc' = "done" /\ wstatus # NoStatus
        /\ child = "reaped" /\ UNCHANGED <<child, wstatus>>
    BY <1>6 DEF Verdict, ChildInStep
  <2>2. Failed' <=> wstatus # Exited(0)
    BY <2>1 DEF Truthful, Ran
  <2>3. "usage" \notin Lines'
    BY <2>1 DEF ReportSoFar
  <2> QED
    BY <2>1, <2>2, <2>3 DEF Outcome, Told
<1>7. CASE Exec
  <2>1. pc # "done" /\ pc' = pc /\ child = "forked"
    BY <1>7 DEF Exec, ChildInStep, sup
  <2>2. CASE FixStatus(Exited(1))
    BY <2>1, <2>2, EndOfTest, StatusesDiffer
  <2>3. CASE wstatus' = wstatus
    BY <2>1, <2>3, StutterBefore
  <2> QED
    BY <1>7, <2>2, <2>3 DEF Exec
<1>8. CASE Test
  <2>1. ASSUME NEW w, w # NoStatus, TestEnds(w)
        PROVE  Outcome = "none" /\ Outcome' \in {"ok", "bad"} /\ Told' = Told
    <3>1. pc # "done" /\ pc' = pc /\ child = "running" /\ FixStatus(w)
      BY <2>1 DEF TestEnds, ChildInStep, sup
    <3> QED
      BY <2>1, <3>1, EndOfTest
  <2>2. CASE TestStops \/ TestContinues
    <3>1. pc # "done" /\ pc' = pc /\ wstatus' = wstatus
      BY <2>2 DEF TestStops, TestContinues, ChildInStep, sup
    <3> QED
      BY <3>1, StutterBefore
  <2> QED
    BY <1>8, <2>1, <2>2, StatusesDiffer DEF Test
<1>9. CASE Die
  <2>1. pc # "done" /\ pc' = pc /\ wstatus' = wstatus
    BY <1>9 DEF Die, ChildInStep, sup
  <2> QED
    BY <2>1, StutterBefore
<1>10. CASE Expire
  BY <1>10, StutterBefore DEF Expire
<1>11. CASE UNCHANGED vars
  BY <1>11, LinesSame DEF vars, Outcome, Told, Failed
<1> QED
  BY <1>1, <1>2, <1>3, <1>4, <1>5, <1>6, <1>7, <1>8, <1>9, <1>10, <1>11
     DEF Next, Supervisor, Finished

\* runtest implements the safety part of the abstract verdict: one verdict,
\* after the end of the test, and the right one (runtest.c 70-99).
THEOREM VerdictRefinement == Spec => Abstract!Init /\ [][Abstract!Next]_(Abstract!vars)
<1>1. Init => Abstract!Init
  BY DEF Init, Abstract!Init, Lines, Failed
<1>2. IInv /\ IInv' /\ [Next]_vars => [Abstract!Next]_(Abstract!vars)
  <2> SUFFICES ASSUME IInv, IInv', [Next]_vars
               PROVE  [Abstract!Next]_(Abstract!vars)
    OBVIOUS
  <2> QED
    BY StepRefines DEF Outcome, Told, Abstract!Next, Abstract!End, Abstract!Report,
                       Abstract!NoStart, Abstract!vars
<1> QED
  BY <1>1, <1>2, Invariance, PTL DEF Spec
=============================================================================
