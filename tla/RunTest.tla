------------------------------- MODULE RunTest -------------------------------
(***************************************************************************)
(* src/common/runtest.c: the supervisor that starts one test in a child    *)
(* process, waits for its end or for a deadline with sigtimedwait, kills   *)
(* it after the deadline, reaps it and writes the verdict.                 *)
(*                                                                         *)
(* Processes: runtest itself (pc) and the child (child).  The kernel is    *)
(* between them: SIGCHLD is a pending bit, the deadline a timer, and the   *)
(* end of the child takes two steps (its wait status is fixed, then it is  *)
(* a zombie and SIGCHLD is sent), because kill may come between the two.   *)
(***************************************************************************)
EXTENDS Integers, Sequences

CONSTANTS
  Statuses,     \* the exit statuses a test ends with, 0 for success
  CanStop,      \* may a signal stop the test (SIGSTOP, SIGTTIN, ...)?
  JobControl    \* may runtest itself be stopped and continued while it waits?

ASSUME StatusesAssumption == Statuses \subseteq Nat /\ {0, 1} \subseteq Statuses
ASSUME SwitchAssumption == CanStop \in BOOLEAN /\ JobControl \in BOOLEAN

VARIABLES
  pc,        \* where runtest is in main()
  blocked,   \* is SIGCHLD in runtest's signal mask?
  disp,      \* runtest's disposition of SIGCHLD
  pending,   \* is a SIGCHLD pending for runtest?
  timer,     \* the timeout of the sigtimedwait call
  timeout,   \* the local variable of that name
  tStatus,   \* t_status: set by every t_error and t_printf
  child,     \* the state of the child process
  wstatus,   \* the wait status of the child, once it is fixed
  report,    \* the lines runtest and start() write to standard output
  ret        \* the exit status of runtest

vars == <<pc, blocked, disp, pending, timer, timeout, tStatus, child, wstatus,
          report, ret>>
sup == <<pc, blocked, disp, timer, timeout, tStatus, ret>>

NoStatus == [how |-> "none", val |-> 0]
Exited(s) == [how |-> "exited", val |-> s]
Signaled(s) == [how |-> "signaled", val |-> s]
SIGKILL == 9
SIGSEGV == 11
WaitStatuses == {NoStatus, Signaled(SIGKILL), Signaled(SIGSEGV)}
                \cup {Exited(s) : s \in Statuses}

FailLines == {"FAIL [internal]", "FAIL [status]", "FAIL [timed out]",
              "FAIL [signal]", "FAIL [unknown]"}
ErrorLines == {"usage", "fork failed", "exec failed", "sigtimedwait failed",
               "kill failed", "waitpid failed"}

TypeOK ==
  /\ pc \in {"args", "mask", "start", "timedwait", "waiting", "kill",
             "waitpid", "verdict", "done"}
  /\ blocked \in BOOLEAN /\ pending \in BOOLEAN /\ timeout \in BOOLEAN
  /\ disp \in {"default", "ignore", "handler"}
  /\ timer \in {"off", "armed", "expired"}
  /\ tStatus \in {0, 1}
  /\ child \in {"none", "forked", "running", "stopped", "exiting", "zombie",
                "reaped"}
  /\ wstatus \in WaitStatuses
  /\ report \in Seq(FailLines \cup ErrorLines)
  /\ ret \in {-1, 0, 1}

\* The disposition of SIGCHLD is inherited; a shell or make may ignore it.
Init ==
  /\ pc = "args"
  /\ blocked = FALSE /\ pending = FALSE /\ timeout = FALSE
  /\ disp \in {"default", "ignore"}
  /\ timer = "off"
  /\ tStatus = 0
  /\ child = "none" /\ wstatus = NoStatus
  /\ report = <<>>
  /\ ret = 0

-----------------------------------------------------------------------------
(* The kernel. *)

\* SIGCHLD is sent to runtest: kept when it is blocked or awaited, otherwise
\* handled by the empty handler or discarded.
PostChld == pending' = (pending \/ blocked \/ pc = "waiting")

\* The child's wait status is fixed: it only has to be torn down.
FixStatus(w) == child' = "exiting" /\ wstatus' = w

\* A child that is torn down is a zombie, or is gone if SIGCHLD is ignored.
Die ==
  /\ child = "exiting"
  /\ child' = IF disp = "ignore" THEN "reaped" ELSE "zombie"
  /\ PostChld
  /\ UNCHANGED <<sup, wstatus, report>>

\* The deadline of the sigtimedwait call passes.
Expire ==
  /\ pc = "waiting" /\ timer = "armed"
  /\ timer' = "expired"
  /\ UNCHANGED <<pc, blocked, disp, timeout, tStatus, ret, pending, child,
                 wstatus, report>>

-----------------------------------------------------------------------------
(* The child: start() up to execv, then the test. *)

\* execv succeeds, or fails and the child exits with status 1.  A t_setrlim that
\* fails (line 23) prints a line and changes nothing else, and is left out.
Exec ==
  /\ child = "forked"
  /\ \/ child' = "running" /\ UNCHANGED <<wstatus, report>>
     \/ FixStatus(Exited(1)) /\ report' = Append(report, "exec failed")
  /\ UNCHANGED <<sup, pending>>

\* The test exits or is ended by a signal of its own making.
TestEnds(w) ==
  /\ child = "running"
  /\ FixStatus(w)
  /\ UNCHANGED <<sup, pending, report>>

\* A signal stops the test: runtest gets SIGCHLD, as signal() on line 69
\* does not set SA_NOCLDSTOP.
TestStops ==
  /\ CanStop
  /\ child = "running"
  /\ child' = "stopped"
  /\ PostChld
  /\ UNCHANGED <<sup, wstatus, report>>

TestContinues ==
  /\ child = "stopped"
  /\ child' = "running"
  /\ PostChld
  /\ UNCHANGED <<sup, wstatus, report>>

-----------------------------------------------------------------------------
(* runtest. *)

\* Lines 51-64: a bad command line ends in usage().
ParseArgs ==
  /\ pc = "args"
  /\ \/ pc' = "mask" /\ UNCHANGED <<tStatus, report, ret>>
     \/ pc' = "done" /\ tStatus' = 1 /\ ret' = -1
        /\ report' = Append(report, "usage")
  /\ UNCHANGED <<blocked, disp, pending, timer, timeout, child, wstatus>>

\* Mutant: the inherited disposition of SIGCHLD is kept.
SetMaskNoHandler ==
  /\ pc = "mask"
  /\ pc' = "start" /\ blocked' = TRUE
  /\ UNCHANGED <<disp, pending, timer, timeout, tStatus, child, wstatus, report,
                 ret>>

\* Mutant: SIGCHLD is given a handler but not blocked.
SetMaskNoBlock ==
  /\ pc = "mask"
  /\ pc' = "start" /\ disp' = "handler"
  /\ UNCHANGED <<blocked, pending, timer, timeout, tStatus, child, wstatus,
                 report, ret>>

\* Lines 66-69: SIGCHLD is blocked and given a handler before the fork.
SetMask ==
  /\ pc = "mask"
  /\ pc' = "start"
  /\ blocked' = TRUE /\ disp' = "handler"
  /\ UNCHANGED <<pending, timer, timeout, tStatus, child, wstatus, report, ret>>

\* Lines 70-75: fork, which may fail.
Start ==
  /\ pc = "start"
  /\ \/ /\ pc' = "timedwait" /\ child' = "forked"
        /\ UNCHANGED <<tStatus, report, ret>>
     \/ /\ pc' = "done" /\ tStatus' = 1 /\ ret' = -1
        /\ report' = report \o <<"fork failed", "FAIL [internal]">>
        /\ UNCHANGED child
  /\ UNCHANGED <<blocked, disp, pending, timer, timeout, wstatus>>

\* Line 76: sigtimedwait is called; its timeout starts to run.
SigTimedWait ==
  /\ pc = "timedwait"
  /\ pc' = "waiting" /\ timer' = "armed"
  /\ UNCHANGED <<blocked, disp, pending, timeout, tStatus, child, wstatus,
                 report, ret>>

\* Line 76: it takes a pending SIGCHLD, before it looks at the timer.
GotChld ==
  /\ pc = "waiting" /\ pending
  /\ pending' = FALSE
  /\ pc' = "waitpid"
  /\ UNCHANGED <<blocked, disp, timer, timeout, tStatus, child, wstatus,
                 report, ret>>

\* Mutant: runtest goes on to waitpid without a kill.
TimedOutNoKill ==
  /\ pc = "waiting" /\ ~pending /\ timer = "expired"
  /\ pc' = "waitpid" /\ timeout' = TRUE
  /\ UNCHANGED <<blocked, disp, pending, timer, tStatus, child, wstatus,
                 report, ret>>

\* Lines 76-78: EAGAIN.
TimedOut ==
  /\ pc = "waiting" /\ ~pending /\ timer = "expired"
  /\ pc' = "kill" /\ timeout' = TRUE
  /\ UNCHANGED <<blocked, disp, pending, timer, tStatus, child, wstatus,
                 report, ret>>

\* Lines 79-80: EINTR, the result of sigtimedwait after SIGCONT.
Interrupted ==
  /\ JobControl
  /\ pc = "waiting" /\ ~pending
  /\ pc' = "kill"
  /\ tStatus' = 1 /\ report' = Append(report, "sigtimedwait failed")
  /\ UNCHANGED <<blocked, disp, pending, timer, timeout, child, wstatus, ret>>

\* Lines 81-82: SIGKILL ends the child unless its end has already begun.
Kill ==
  /\ pc = "kill"
  /\ pc' = "waitpid"
  /\ IF child \in {"forked", "running", "stopped"}
       THEN FixStatus(Signaled(SIGKILL))
       ELSE UNCHANGED <<child, wstatus>>
  /\ IF child = "reaped"
       THEN tStatus' = 1 /\ report' = Append(report, "kill failed")
       ELSE UNCHANGED <<tStatus, report>>
  /\ UNCHANGED <<blocked, disp, pending, timer, timeout, ret>>

\* Lines 84-88: waitpid, without WUNTRACED, blocks until the child is a
\* zombie and reaps it; it fails if there is no child to wait for.
Waitpid ==
  /\ pc = "waitpid" /\ child \in {"zombie", "reaped"}
  /\ child' = "reaped"
  /\ IF child = "zombie"
       THEN pc' = "verdict" /\ UNCHANGED <<tStatus, report, ret>>
       ELSE /\ pc' = "done" /\ tStatus' = 1 /\ ret' = -1
            /\ report' = report \o <<"waitpid failed", "FAIL [internal]">>
  /\ UNCHANGED <<blocked, disp, pending, timer, timeout, wstatus>>

\* Mutant: the deadline is looked at before the wait status.
FailLineLateFirst(w, late) ==
  CASE late -> "FAIL [timed out]"
    [] ~late /\ w.how = "exited" -> "FAIL [status]"
    [] OTHER -> "FAIL [signal]"

\* Lines 89-98: the line that is written when the status is not exit 0.
FailLine(w, late) ==
  CASE w.how = "exited" -> "FAIL [status]"
    [] w.how # "exited" /\ late -> "FAIL [timed out]"
    [] w.how = "signaled" /\ ~late -> "FAIL [signal]"
    [] OTHER -> "FAIL [unknown]"

\* Mutant: every exit of the test counts as success.
VerdictAnyExit ==
  /\ pc = "verdict"
  /\ pc' = "done"
  /\ IF wstatus.how = "exited"
       THEN ret' = tStatus /\ UNCHANGED <<tStatus, report>>
       ELSE /\ ret' = 1 /\ tStatus' = 1
            /\ report' = Append(report, FailLine(wstatus, timeout))
  /\ UNCHANGED <<blocked, disp, pending, timer, timeout, child, wstatus>>

\* Mutant: runtest exits with the status of the test.
VerdictPassOn ==
  /\ pc = "verdict"
  /\ pc' = "done"
  /\ ret' = wstatus.val
  /\ UNCHANGED <<blocked, disp, pending, timer, timeout, child, wstatus,
                 tStatus, report>>

\* Lines 89-99.
Verdict ==
  /\ pc = "verdict"
  /\ pc' = "done"
  /\ IF wstatus = Exited(0)
       THEN ret' = tStatus /\ UNCHANGED <<tStatus, report>>
       ELSE /\ ret' = 1 /\ tStatus' = 1
            /\ report' = Append(report, FailLine(wstatus, timeout))
  /\ UNCHANGED <<blocked, disp, pending, timer, timeout, child, wstatus>>

-----------------------------------------------------------------------------

Supervisor == \/ ParseArgs \/ SetMask \/ Start \/ SigTimedWait \/ GotChld
              \/ TimedOut \/ Kill \/ Waitpid \/ Verdict
Test == \/ \E s \in Statuses : TestEnds(Exited(s))
        \/ TestEnds(Signaled(SIGSEGV))
        \/ TestStops
        \/ TestContinues

\* runtest has exited and the child, if any, is gone.
Finished == pc = "done" /\ child \in {"none", "reaped"} /\ UNCHANGED vars

Next == Supervisor \/ Interrupted \/ Test \/ Exec \/ Die \/ Expire \/ Finished

\* runtest and the kernel make progress; nothing is assumed of the test,
\* which may hang, stop and never be continued.
Fairness == WF_vars(Supervisor) /\ WF_vars(Die) /\ WF_vars(Expire)

Spec == Init /\ [][Next]_vars /\ Fairness

-----------------------------------------------------------------------------
(* Properties. *)

Lines == {report[i] : i \in 1..Len(report)}
Failed == Lines \cap FailLines # {}
Ran == pc = "done" /\ child # "none"
\* Job control ended the wait (line 80).
WasInterrupted == "sigtimedwait failed" \in Lines

\* What the report says of the test is what happened to it: one FAIL line,
\* and only if it did not exit with status 0; [timed out] only for a test that
\* was still alive when the deadline passed, [status] only for a test that
\* exited by itself (lines 76-99).
Truthful ==
  Ran =>
    /\ Failed <=> wstatus # Exited(0)
    /\ \A i, j \in 1..Len(report) :
         report[i] \in FailLines /\ report[j] \in FailLines => i = j
    /\ "FAIL [status]" \in Lines => wstatus.how = "exited"
    /\ "FAIL [timed out]" \in Lines => timer = "expired" /\ wstatus.how = "signaled"

\* A test that runtest killed is never reported as one that died of a signal
\* of its own (line 93 is before line 95), unless the wait was interrupted.
OwnSignal ==
  ("FAIL [signal]" \in Lines /\ ~WasInterrupted) => wstatus # Signaled(SIGKILL)

\* The exit status of runtest and the FAIL line, which is all that the
\* Makefile looks at (lines 120-121 and 150-151), tell the same story, also
\* when the test exits with 0 between the deadline and the kill.
StatusMatchesReport == (Ran /\ ~WasInterrupted) => (ret = 0 <=> ~Failed)

\* The lines of the report and the exit status are right (lines 76-99).
ReportIsRight == Truthful /\ OwnSignal /\ StatusMatchesReport

\* When the wait ends by the deadline the test is not already a zombie: a
\* SIGCHLD sent between fork and sigtimedwait is not lost (lines 66-76).
NoLostChld == [][pc = "waiting" /\ timeout' # timeout => child # "zombie"]_vars

\* runtest ends with its child reaped, and kills only a child it has not
\* reaped yet, so the signal cannot hit another process with the same pid.
ReapedOnce ==
  /\ Ran => child = "reaped"
  /\ pc = "kill" => child # "reaped"

\* A test is killed only after its deadline (README lines 52-53: "kills the
\* test process after a timeout"), unless the wait was interrupted: a test
\* that ends or stops in time is not.
KilledOnlyWhenLate == (pc = "kill" /\ ~WasInterrupted) => timer = "expired"

\* Only the test is killed, and only when it is late; it is always reaped
\* (lines 76-84).
KillsRightly == ReapedOnce /\ KilledOnlyWhenLate

\* The test process is killed after the deadline and a verdict is reached
\* (README lines 52-54), whatever the test does.
AlwaysFinishes == <>(pc = "done")

\* The same for a test that is never stopped: one that hangs is killed.
FinishesUnlessStopped == [](child # "stopped") => AlwaysFinishes

-----------------------------------------------------------------------------
(* The promise this implements. *)

Abstract == INSTANCE TestVerdict WITH
  outcome <- IF pc = "done" /\ Failed /\ child = "none" THEN "bad"
             ELSE IF wstatus = NoStatus THEN "none"
             ELSE IF wstatus = Exited(0) THEN "ok" ELSE "bad",
  verdict <- IF pc # "done" \/ "usage" \in Lines THEN "none"
             ELSE IF Failed THEN "fail" ELSE "pass"

\* runtest implements the abstract verdict of one test.
ImplementsVerdict == Abstract!Spec
=============================================================================
