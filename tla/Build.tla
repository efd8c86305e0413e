-------------------------------- MODULE Build --------------------------------
(***************************************************************************)
(* src/Makefile: how make builds the tests of one directory, runs them     *)
(* under runtest and collects the verdict.  A target is remade when its    *)
(* file is absent, older than a prerequisite, or a prerequisite was remade *)
(* in the same session; up to Jobs recipes run at a time.  Several         *)
(* sessions follow each other on the same files, with edits in between;    *)
(* every recipe ends in `|| true' or `|| echo BUILDERROR', so that none    *)
(* fails.                                                                  *)
(***************************************************************************)
EXTENDS Integers, FiniteSets

CONSTANTS
  Setups,   \* the directories and ways to use make that are looked at
  Dir       \* stands for the directory in the names of its targets

\* A directory and the sessions of make on it.
SetupsOver(AllTests) ==
  [tests : SUBSET AllTests,              \* the tests of the directory
   static : SUBSET AllTests,             \* those that are built statically as well
   goals : SUBSET {"all", "run", "dirrun", "clean", "cleanall", "dirclean"},
                                         \* what make is asked for
   jobs : Nat \ {0},                     \* make -j
   harnessMayFail : BOOLEAN,             \* may runtest.exe fail to build?
   canKill : BOOLEAN,                    \* may make and all its jobs be killed?
   maxSessions : Nat]                    \* bound: how many times make is started

ASSUME SetupsAssumption ==
  \A s \in Setups : /\ s \in SetupsOver(s.tests \cup s.static)
                    /\ s.static \subseteq s.tests /\ Dir \notin s.tests

-----------------------------------------------------------------------------
VARIABLES
  setup,     \* the directory and what is done with it
  status,    \* what make knows of a target: "idle", "running", "settled"
  remade,    \* the targets that make has remade in this session
  exists,    \* the files there are
  stale,     \* the files that are older than a prerequisite, or its source
  log,       \* what is in an .err file: a FAIL line or "nothing"
  fails,     \* the FAIL lines in a REPORT, as the tests they are about
  result,    \* (history) how the test, as it is now, last ended
  goal,      \* the goal of the session
  verdict,   \* what the session ended with: line 121, or "end" without it
  sessions,  \* how many sessions there were
  cut        \* (history) the targets whose recipe was killed and has not run since

files == <<exists, stale, log, fails>>
vars == <<setup, status, remade, files, result, goal, verdict, sessions, cut>>

Tests == setup.tests
Static == setup.static
Jobs == setup.jobs

-----------------------------------------------------------------------------
(* The targets and their prerequisites. *)

RunTest == <<"runtest.exe", Dir>>
CleanErr == <<"cleanerr", Dir>>
DirReport == <<"dir/REPORT", Dir>>
Report == <<"REPORT", Dir>>
Obj(t) == <<"o", t>>
Exe(t) == <<"exe", t>>
StaticExe(t) == <<"static.exe", t>>
Err(t) == <<"err", t>>
StaticErr(t) == <<"static.err", t>>

DynErrs == {Err(t) : t \in Tests}
StaticErrs == {StaticErr(t) : t \in Static}
Errs == DynErrs \cup StaticErrs
Binaries == {Exe(t) : t \in Tests} \cup {StaticExe(t) : t \in Static}
Compiled == {RunTest} \cup {Obj(t) : t \in Tests} \cup Binaries
Reports == {DirReport, Report}
Files == Compiled \cup Errs \cup Reports
Targets == Files \cup {CleanErr}

BinaryOf(e) == IF e \in DynErrs THEN Exe(e[2]) ELSE StaticExe(e[2])

\* Mutant: lines 59-60 are missing.
PrereqsUnordered(f) ==
  CASE f \in Binaries -> {Obj(f[2])}
    [] f \in Errs -> {BinaryOf(f), RunTest}
    [] f = DirReport -> Errs
    [] f = Report -> {DirReport}
    [] OTHER -> {}

\* Lines 57, 60, 83, 86, 98: what a target depends on.
Prereqs(f) ==
  CASE f \in Binaries -> {Obj(f[2])}
    [] f \in DynErrs -> {BinaryOf(f), RunTest}
    [] f \in StaticErrs -> {BinaryOf(f), RunTest, Err(f[2])}
    [] f = DirReport -> Errs
    [] f = Report -> {DirReport}
    [] OTHER -> {}

Dependents(f) == {g \in Files : f \in Prereqs(g)}

-----------------------------------------------------------------------------
TypeOK ==
  /\ setup \in Setups
  /\ status \in [Targets -> {"idle", "running", "settled"}]
  /\ remade \subseteq Targets /\ exists \subseteq Files /\ stale \subseteq Files
  /\ log \in [Errs -> {"nothing", "FAIL"}]
  /\ fails \in [Reports -> SUBSET Errs]
  /\ result \in [Errs -> {"untested", "pass", "fail"}]
  /\ goal \in setup.goals \cup {"none"}
  /\ verdict \in {"none", "PASS", "FAIL", "end"}
  /\ sessions \in 0..setup.maxSessions /\ cut \subseteq Targets
  /\ Cardinality({f \in Targets : status[f] = "running"}) <= Jobs

\* A fresh checkout.
Init ==
  /\ setup \in Setups
  /\ status = [f \in Targets |-> "idle"]
  /\ remade = {} /\ exists = {} /\ stale = {}
  /\ log = [e \in Errs |-> "nothing"]
  /\ fails = [r \in Reports |-> {}]
  /\ result = [e \in Errs |-> "untested"]
  /\ goal = "none" /\ verdict = "none"
  /\ sessions = 0 /\ cut = {}

Running == {f \in Targets : status[f] = "running"}
Settled(f) == status[f] = "settled"

\* The targets of a goal (lines 78, 85 and 120).
Wanted == IF goal = "all" THEN Files
          ELSE IF goal = "run" THEN Targets
          ELSE IF goal = "dirrun" THEN Targets \ {Report}
          ELSE {}

\* Mutant: make waits for the files of the prerequisites.
ReadyIfBuilt(f) ==
  /\ f \in Wanted /\ status[f] = "idle"
  /\ \A p \in Prereqs(f) : Settled(p) /\ p \in exists

\* A target make may look at: its prerequisites have been dealt with.
Ready(f) == f \in Wanted /\ status[f] = "idle" /\ \A p \in Prereqs(f) : Settled(p)

\* Mutant: REPORT before cleanerr on line 78.
InTurnReportFirst(f) ==
  /\ Jobs = 1 => Running = {}
  /\ goal = "dirrun" /\ f = CleanErr => Settled(DirReport)

\* make looks at prerequisites from left to right.  Line 78 has cleanerr
\* before REPORT; on line 120, whose prerequisites come before those of line
\* 85 as it has the recipe, REPORT comes before the cleanerr of line 78.
\* With one job make waits for each recipe; otherwise it goes on.
InTurn(f) ==
  /\ Jobs = 1 => Running = {}
  /\ goal = "dirrun" /\ f # CleanErr => status[CleanErr] # "idle"
  /\ goal = "run" /\ f = CleanErr =>
       /\ Jobs = 1 => Settled(Report)
       /\ \A g \in Files : ~Ready(g)

MustRemake(f) ==
  \/ f \notin exists
  \/ f \in stale
  \/ Prereqs(f) \cap remade # {}

-----------------------------------------------------------------------------
(* A session of make. *)

StartMake(g) ==
  /\ goal = "none" /\ sessions < setup.maxSessions
  /\ goal' = g /\ verdict' = "none" /\ sessions' = sessions + 1
  /\ status' = [f \in Targets |-> "idle"] /\ remade' = {}
  /\ UNCHANGED <<setup, files, result, cut>>

\* make finds a file up to date.
UpToDate(f) ==
  /\ Ready(f) /\ InTurn(f) /\ ~MustRemake(f)
  /\ status' = [status EXCEPT ![f] = "settled"]
  /\ UNCHANGED <<remade, files, result, goal, verdict, setup, sessions, cut>>

\* A file is written: it is now younger than what it depends on and older
\* than what depends on it.
Write(f, there) ==
  /\ exists' = IF there THEN exists \cup {f} ELSE exists \ {f}
  /\ stale' = (stale \ {f}) \cup Dependents(f)

\* Mutant: make does not count its jobs.
StartJobUnlimited(f) ==
  /\ Ready(f) /\ InTurn(f) /\ MustRemake(f)
  /\ status' = [status EXCEPT ![f] = "running"]
  /\ IF f \in Errs \cup Reports THEN Write(f, TRUE) ELSE UNCHANGED <<exists, stale>>
  /\ log' = [e \in Errs |-> IF e = f THEN "nothing" ELSE log[e]]
  /\ fails' = [r \in Reports |-> IF r = f THEN {} ELSE fails[r]]
  /\ UNCHANGED <<remade, result, goal, verdict, setup, sessions, cut>>

\* make starts a recipe.  The shell empties the file that the output of a
\* recipe goes to before the recipe runs (lines 84, 127 and 151).
StartJob(f) ==
  /\ Ready(f) /\ InTurn(f) /\ MustRemake(f)
  /\ Cardinality(Running) < Jobs
  /\ status' = [status EXCEPT ![f] = "running"]
  /\ IF f \in Errs \cup Reports THEN Write(f, TRUE) ELSE UNCHANGED <<exists, stale>>
  /\ log' = [e \in Errs |-> IF e = f THEN "nothing" ELSE log[e]]
  /\ fails' = [r \in Reports |-> IF r = f THEN {} ELSE fails[r]]
  /\ UNCHANGED <<remade, result, goal, verdict, setup, sessions, cut>>

\* make sees the end of a recipe.
Reap(f) ==
  /\ status[f] = "running"
  /\ status' = [status EXCEPT ![f] = "settled"]
  /\ remade' = remade \cup {f}
  /\ cut' = cut \ {f}
  /\ UNCHANGED <<goal, verdict, setup, sessions>>

\* Lines 129-140: a compiler or linker that fails leaves no file, but not an
\* error for make; a link needs the object file.
EndCompile(f) ==
  /\ f \in Compiled
  /\ Reap(f)
  /\ \E ok \in BOOLEAN :
       /\ f = RunTest => ok \/ setup.harnessMayFail
       /\ Write(f, ok /\ Prereqs(f) \subseteq exists)
  /\ UNCHANGED <<log, fails, result>>

\* Mutant: a failing test makes its recipe, and with it make, fail.
EndTestFatal(e) ==
  /\ e \in Errs
  /\ \E pass \in BOOLEAN :
       /\ BinaryOf(e) \notin exists => ~pass
       /\ IF pass
            THEN Reap(e)
            ELSE /\ status' = [f \in Targets |-> "settled"]
                 /\ UNCHANGED <<remade, goal, verdict, setup, sessions, cut>>
       /\ result' = [result EXCEPT ![e] = IF pass THEN "pass" ELSE "fail"]
       /\ log' = [log EXCEPT ![e] = IF pass THEN "nothing" ELSE "FAIL"]
  /\ status[e] = "running"
  /\ UNCHANGED <<exists, stale, fails>>

\* Lines 150-151: runtest writes a FAIL line unless the test passes, and a
\* binary that is not there fails.  What is written to a file that has been
\* removed meanwhile is lost; without runtest nothing is run or written.
EndTest(e) ==
  /\ e \in Errs
  /\ Reap(e)
  /\ \E pass \in BOOLEAN :
       /\ BinaryOf(e) \notin exists => ~pass
       /\ result' = IF RunTest \in exists
                      THEN [result EXCEPT ![e] = IF pass THEN "pass" ELSE "fail"]
                      ELSE result
       /\ log' = IF RunTest \in exists /\ ~pass /\ e \in exists
                   THEN [log EXCEPT ![e] = "FAIL"] ELSE log
  /\ UNCHANGED <<exists, stale, fails>>

\* Mutant: only the results of the dynamic binaries are concatenated.
EndReportDynamic(r) ==
  /\ r \in Reports
  /\ Reap(r)
  /\ fails' = [fails EXCEPT ![r] =
                 IF r = DirReport THEN {e \in DynErrs : e \in exists /\ log[e] = "FAIL"}
                 ELSE fails[DirReport]]
  /\ UNCHANGED <<exists, stale, log, result>>

\* Lines 84 and 127: the .err files, then the reports, are concatenated.
EndReport(r) ==
  /\ r \in Reports
  /\ Reap(r)
  /\ fails' = [fails EXCEPT ![r] =
                 IF r = DirReport THEN {e \in Errs : e \in exists /\ log[e] = "FAIL"}
                 ELSE fails[DirReport]]
  /\ UNCHANGED <<exists, stale, log, result>>

\* Lines 79-80: the results of the dynamic binaries are removed.
EndCleanErr ==
  /\ Reap(CleanErr)
  /\ exists' = exists \ DynErrs
  /\ log' = [e \in Errs |-> IF e \in DynErrs THEN "nothing" ELSE log[e]]
  /\ UNCHANGED <<stale, fails, result>>

\* The goal is reached; lines 120-121 look for FAIL in the top REPORT.
EndMake ==
  /\ goal # "none" /\ \A f \in Wanted : Settled(f)
  /\ goal' = "none"
  /\ verdict' = IF goal = "dirrun" THEN "end"
                ELSE IF fails[Report] = {} THEN "PASS" ELSE "FAIL"
  /\ UNCHANGED <<status, remade, files, result, setup, sessions, cut>>

\* Lines 82, 123 and 125: what the goals that clean up remove.
Cleaned(g) ==
  CASE g = "clean" -> Files \ Reports
    [] g = "cleanall" -> Files
    [] g = "dirclean" -> Files \ (Reports \cup {RunTest})

\* A session that only removes files, or, when it is interrupted, only some of
\* them.
Clean(g, gone) ==
  /\ goal = "none" /\ sessions < setup.maxSessions
  /\ gone \subseteq Cleaned(g)
  /\ exists' = exists \ gone
  /\ log' = [e \in Errs |-> IF e \in gone THEN "nothing" ELSE log[e]]
  /\ fails' = [r \in Reports |-> IF r \in gone THEN {} ELSE fails[r]]
  /\ verdict' = "none" /\ sessions' = sessions + 1
  /\ UNCHANGED <<setup, status, remade, stale, result, goal, cut>>

\* The source of a test is edited while make does not run, if that makes a
\* difference to what make does or to what is known of the test.
Edit(t) ==
  /\ goal = "none" /\ sessions < setup.maxSessions
  /\ Obj(t) \notin stale
  /\ Obj(t) \in exists \/ \E e \in Errs : e[2] = t /\ result[e] # "untested"
  /\ stale' = stale \cup {Obj(t)}
  /\ verdict' = "none"
  /\ result' = [e \in Errs |-> IF e[2] = t THEN "untested" ELSE result[e]]
  /\ UNCHANGED <<status, remade, exists, log, fails, goal, setup, sessions, cut>>

\* make and its jobs are killed (SIGKILL, a crash: an interrupted make would
\* remove what it is making): the files stay as they are.
KillMake ==
  /\ setup.canKill /\ goal # "none"
  /\ goal' = "none" /\ status' = [f \in Targets |-> "idle"] /\ remade' = {}
  /\ cut' = cut \cup (Running \cap Files)
  /\ UNCHANGED <<files, result, verdict, setup, sessions>>

-----------------------------------------------------------------------------

Work == \/ \E f \in Targets : \/ UpToDate(f) \/ StartJob(f) \/ EndCompile(f)
                              \/ EndTest(f) \/ EndReport(f)
        \/ EndCleanErr
        \/ EndMake

\* Nobody starts make again.
Rest == goal = "none" /\ sessions = setup.maxSessions /\ UNCHANGED vars

Next == \/ Work
        \/ \E g \in setup.goals \cap {"all", "run", "dirrun"} : StartMake(g)
        \/ \E g \in setup.goals \cap {"clean", "cleanall", "dirclean"} :
             \E gone \in SUBSET Cleaned(g) : Clean(g, gone)
        \/ \E t \in Tests : Edit(t)
        \/ KillMake \/ Rest

\* make works on until its goal is reached: runtest bounds every test.
Spec == Init /\ [][Next]_vars /\ WF_vars(Work)

-----------------------------------------------------------------------------
(* Properties. *)

\* PASS means that every binary, as it is now, was run to its end and passed
\* ("build failure, crash or unexpected results are all failures", README
\* line 23), also when sessions were killed, unless a kill hit a recipe that no
\* session has repeated: its half-written file counts as up to date.
PassIsReal == verdict = "PASS" /\ cut = {} => \A e \in Errs : result[e] = "pass"

\* "failure of one test should not interfere with others" (README line 22):
\* whatever failed, a session ends with a result for every binary.
NoInterference ==
  verdict \in {"PASS", "FAIL"} /\ cut = {} => \A e \in Errs : result[e] # "untested"

\* "make sure dynamic and static binaries are not run parallel" (line 59).
DynStaticExclusive ==
  \A t \in Static : ~(status[Err(t)] = "running" /\ status[StaticErr(t)] = "running")

\* "run reruns the dynamically linked executables" (README lines 71-72).  With
\* several jobs cleanerr may be too late: make looks at the .err files while it
\* removes them.
RunReruns ==
  [][(Jobs = 1 /\ goal \in {"run", "dirrun"} /\ goal' = "none" /\ verdict' # "none")
       => DynErrs \subseteq remade]_vars

\* A session of make ends: it never waits for a target nothing will settle.
SessionsEnd == (goal # "none") ~> (goal = "none")
=============================================================================
