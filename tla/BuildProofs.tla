----------------------------- MODULE BuildProofs ------------------------------
(***************************************************************************)
(* For all tests, any of them with a static binary, any number of jobs,    *)
(* sessions, edits and clean-ups: make never runs the two binaries of a    *)
(* test at a time, and if runtest.exe can be built, its PASS and its FAIL  *)
(* are true.                                                               *)
(***************************************************************************)
EXTENDS Build, FiniteSetTheorems, TLAPS

-----------------------------------------------------------------------------
(* The targets. *)

\* How the targets depend on each other, whatever the tests are.
LEMMA Graph ==
  ASSUME setup \in Setups
  PROVE  /\ RunTest \in Compiled /\ Prereqs(RunTest) = {}
         /\ \A f \in Compiled : f \notin Errs /\ f \notin Reports /\ Prereqs(f) \subseteq Compiled
         /\ \A e \in Errs : /\ e \notin Compiled /\ e \notin Reports /\ e[2] \in Tests
                            /\ Prereqs(e) \subseteq Compiled \cup Errs
                            /\ BinaryOf(e) \in Prereqs(e) /\ RunTest \in Prereqs(e)
                            /\ BinaryOf(e) \in Compiled /\ Obj(e[2]) \in Compiled
                            /\ Obj(e[2]) \in Prereqs(BinaryOf(e))
         /\ \A f \in Compiled \ {RunTest} :
              \/ \E e \in Errs : f \in Prereqs(e)
              \/ \E g \in Compiled : f \in Prereqs(g) /\ \E e \in Errs : g \in Prereqs(e)
         /\ \A t \in Tests : Obj(t) \in Compiled
         /\ Prereqs(DirReport) = Errs /\ Prereqs(Report) = {DirReport}
         /\ Reports = {DirReport, Report} /\ DirReport # Report
         /\ Files = Compiled \cup Errs \cup Reports
         /\ CleanErr \notin Files /\ Targets = Files \cup {CleanErr}
         /\ DynErrs \subseteq Errs
         /\ \A t \in Static : StaticErr(t) \in Errs /\ Err(t) \in Prereqs(StaticErr(t))
<1>1. Static \subseteq Tests
  BY SetupsAssumption DEF Static, Tests
<1> USE DEF RunTest, CleanErr, DirReport, Report, Obj, Exe, StaticExe, Err, StaticErr
<1>2. \A f \in Binaries : f \notin Errs /\ f \notin Reports /\ f # RunTest
  BY DEF Binaries, Errs, DynErrs, StaticErrs, Reports
<1>3. \A f \in Compiled : f \notin Errs /\ f \notin Reports
  BY DEF Compiled, Binaries, Errs, DynErrs, StaticErrs, Reports
<1>4. \A t \in Tests : Obj(t) \in Compiled /\ Prereqs(Obj(t)) = {}
  BY <1>3 DEF Compiled, Prereqs, Binaries, Errs, DynErrs, StaticErrs, Reports
<1>5. RunTest \in Compiled /\ Prereqs(RunTest) = {}
  BY DEF Compiled, Prereqs, Binaries, Errs, DynErrs, StaticErrs, Reports
<1>6. ASSUME NEW t \in Tests
      PROVE  Exe(t) \in Compiled /\ Prereqs(Exe(t)) = {Obj(t)}
  <2>1. Exe(t) \in Binaries /\ Exe(t)[2] = t
    BY DEF Binaries
  <2>2. Exe(t) \notin Errs /\ Exe(t) # DirReport /\ Exe(t) # Report
    BY DEF Errs, DynErrs, StaticErrs
  <2> HIDE DEF RunTest, CleanErr, DirReport, Report, Obj, Exe, StaticExe, Err, StaticErr
  <2> QED BY <2>1, <2>2 DEF Compiled, Prereqs, Errs
<1>7. ASSUME NEW t \in Static
      PROVE  StaticExe(t) \in Compiled /\ Prereqs(StaticExe(t)) = {Obj(t)}
  <2>1. StaticExe(t) \in Binaries /\ StaticExe(t)[2] = t
    BY DEF Binaries
  <2>2. StaticExe(t) \notin Errs /\ StaticExe(t) # DirReport /\ StaticExe(t) # Report
    BY DEF Errs, DynErrs, StaticErrs
  <2> HIDE DEF RunTest, CleanErr, DirReport, Report, Obj, Exe, StaticExe, Err, StaticErr
  <2> QED BY <2>1, <2>2 DEF Compiled, Prereqs, Errs
<1>8. \A f \in Compiled : Prereqs(f) \subseteq Compiled
  <2> SUFFICES ASSUME NEW f \in Compiled PROVE Prereqs(f) \subseteq Compiled
    OBVIOUS
  <2>1. f = RunTest \/ (\E t \in Tests : f = Obj(t)) \/ (\E t \in Tests : f = Exe(t))
          \/ \E t \in Static : f = StaticExe(t)
    BY DEF Compiled, Binaries
  <2> HIDE DEF RunTest, CleanErr, DirReport, Report, Obj, Exe, StaticExe, Err, StaticErr
  <2> QED BY <1>1, <1>4, <1>5, <1>6, <1>7, <2>1
<1>9. ASSUME NEW t \in Tests
      PROVE  Prereqs(Err(t)) = {Exe(t), RunTest} /\ BinaryOf(Err(t)) = Exe(t)
  <2>1. Err(t) \in DynErrs /\ Err(t)[2] = t
    BY DEF DynErrs
  <2>2. Err(t) \notin Binaries /\ Err(t) \notin StaticErrs /\ Err(t) # DirReport /\ Err(t) # Report
    BY DEF Binaries, StaticErrs
  <2> HIDE DEF RunTest, CleanErr, DirReport, Report, Obj, Exe, StaticExe, Err, StaticErr
  <2> QED BY <2>1, <2>2 DEF Prereqs, BinaryOf
<1>10. ASSUME NEW t \in Static
       PROVE  /\ Prereqs(StaticErr(t)) = {StaticExe(t), RunTest, Err(t)}
              /\ BinaryOf(StaticErr(t)) = StaticExe(t)
  <2>1. StaticErr(t) \in StaticErrs /\ StaticErr(t)[2] = t
    BY DEF StaticErrs
  <2>2. StaticErr(t) \notin Binaries /\ StaticErr(t) \notin DynErrs
        /\ StaticErr(t) # DirReport /\ StaticErr(t) # Report
    BY DEF Binaries, DynErrs
  <2> HIDE DEF RunTest, CleanErr, DirReport, Report, Obj, Exe, StaticExe, Err, StaticErr
  <2> QED BY <2>1, <2>2 DEF Prereqs, BinaryOf
<1>11. Prereqs(DirReport) = Errs /\ Prereqs(Report) = {DirReport} /\ DirReport # Report
  BY DEF Prereqs, Binaries, DynErrs, StaticErrs
<1>12. CleanErr \notin Files
  BY DEF Files, Compiled, Binaries, Errs, DynErrs, StaticErrs, Reports
<1>13. \A t \in Tests : Err(t)[2] = t /\ StaticErr(t)[2] = t
  OBVIOUS
<1>14. \A e \in Errs : (\E t \in Tests : e = Err(t)) \/ \E t \in Static : e = StaticErr(t)
  BY DEF Errs, DynErrs, StaticErrs
<1>15. \A f \in Compiled \ {RunTest} : (\E t \in Tests : f = Obj(t)) \/ (\E t \in Tests : f = Exe(t))
          \/ \E t \in Static : f = StaticExe(t)
  BY DEF Compiled, Binaries
<1>16. /\ \A t \in Tests : Err(t) \in Errs
       /\ \A t \in Static : StaticErr(t) \in Errs
  BY DEF Errs, DynErrs, StaticErrs
<1> HIDE DEF RunTest, CleanErr, DirReport, Report, Obj, Exe, StaticExe, Err, StaticErr
<1>17. ASSUME NEW e \in Errs
       PROVE  /\ e[2] \in Tests /\ Prereqs(e) \subseteq Compiled \cup Errs
              /\ BinaryOf(e) \in Prereqs(e) /\ RunTest \in Prereqs(e)
              /\ BinaryOf(e) \in Compiled /\ Obj(e[2]) \in Compiled
              /\ Obj(e[2]) \in Prereqs(BinaryOf(e))
  <2>1. CASE \E t \in Tests : e = Err(t)
    BY <1>4, <1>5, <1>6, <1>9, <1>13, <2>1
  <2>2. CASE \E t \in Static : e = StaticErr(t)
    BY <1>1, <1>4, <1>5, <1>7, <1>10, <1>13, <1>16, <2>2
  <2> QED BY <1>14, <2>1, <2>2
<1>18. ASSUME NEW f \in Compiled \ {RunTest}
       PROVE  \/ \E e \in Errs : f \in Prereqs(e)
              \/ \E g \in Compiled : f \in Prereqs(g) /\ \E e \in Errs : g \in Prereqs(e)
  <2>1. CASE \E t \in Tests : f = Obj(t)
    <3>1. PICK t \in Tests : f = Obj(t)
      BY <2>1
    <3>2. f \in Prereqs(Exe(t)) /\ Exe(t) \in Compiled /\ Exe(t) \in Prereqs(Err(t)) /\ Err(t) \in Errs
      BY <1>6, <1>9, <1>16, <3>1
    <3> QED BY <3>2
  <2>2. CASE \E t \in Tests : f = Exe(t)
    BY <1>9, <1>16, <2>2
  <2>3. CASE \E t \in Static : f = StaticExe(t)
    BY <1>10, <1>16, <2>3
  <2> QED BY <1>15, <2>1, <2>2, <2>3
<1>19. \A t \in Static : StaticErr(t) \in Errs /\ Err(t) \in Prereqs(StaticErr(t))
  BY <1>10, <1>16
<1> QED BY <1>3, <1>4, <1>5, <1>8, <1>11, <1>12, <1>17, <1>18, <1>19 DEF Files, Targets, Reports, Errs

\* The directory stays what it is.
LEMMA Frame ==
  ASSUME setup' = setup
  PROVE  /\ Tests' = Tests /\ Static' = Static /\ Jobs' = Jobs
         /\ Errs' = Errs /\ Compiled' = Compiled /\ Files' = Files /\ Targets' = Targets
         /\ \A f : Prereqs(f)' = Prereqs(f)
         /\ \A e : BinaryOf(e)' = BinaryOf(e)
         /\ \A t : Obj(t)' = Obj(t)
<1>1. Tests' = Tests /\ Static' = Static /\ Jobs' = Jobs
  BY DEF Tests, Static, Jobs
<1>2. /\ Binaries' = Binaries /\ DynErrs' = DynErrs /\ StaticErrs' = StaticErrs
      /\ Errs' = Errs /\ Compiled' = Compiled /\ Files' = Files /\ Targets' = Targets
  BY <1>1 DEF Binaries, DynErrs, StaticErrs, Errs, Compiled, Files, Targets
<1>3. \A f : Prereqs(f)' = Prereqs(f)
  BY <1>2 DEF Prereqs
<1>4. \A e : BinaryOf(e)' = BinaryOf(e)
  BY <1>2 DEF BinaryOf
<1>5. \A t : Obj(t)' = Obj(t)
  BY DEF Obj
<1> QED BY <1>1, <1>2, <1>3, <1>4, <1>5

-----------------------------------------------------------------------------
\* What the guarantees about verdicts need: runtest.exe can be built, and with
\* several jobs `run', whose cleanerr may come at any time, is not used.
Orderly == \A s \in Setups : ~s.harnessMayFail /\ ("run" \in s.goals => s.jobs = 1)

(* The inductive invariant. *)

Types ==
  /\ setup \in Setups
  /\ status \in [Targets -> {"idle", "running", "settled"}]
  /\ remade \subseteq Targets /\ exists \subseteq Files /\ stale \subseteq Files
  /\ log \in [Errs -> {"nothing", "FAIL"}]
  /\ fails \in [Reports -> SUBSET Errs]
  /\ result \in [Errs -> {"untested", "pass", "fail"}]
  /\ goal \in (setup.goals \cap {"all", "run", "dirrun"}) \cup {"none"}
  /\ verdict \in {"none", "PASS", "FAIL", "end"}
  /\ sessions \in 0..setup.maxSessions /\ cut \subseteq Files

\* Only what the session is about runs, so that nothing does between sessions,
\* and a target that make has got to has its prerequisites settled.
Order ==
  /\ \A f \in Targets : status[f] = "running" => f \in Wanted
  /\ \A f \in Files : status[f] # "idle" => \A q \in Prereqs(f) : status[q] = "settled"

\* What make has settled in a session is there and younger than what it depends
\* on, and the reports still to come are older than what is being remade.
InSession ==
  /\ \A f \in Files : status[f] = "settled" => f \notin stale
  /\ \A f \in Errs \cup Reports : status[f] # "idle" => f \notin stale
  /\ \A r \in Reports : status[r] # "idle" => r \in exists
  /\ status[RunTest] = "settled" => RunTest \in exists
  /\ \A e \in Errs : status[e] = "running" => DirReport \in stale
  /\ status[DirReport] = "running" => Report \in stale

\* In a session that ends with a verdict, results are removed only when the
\* verdict is there.
CleansLate ==
  IF status[CleanErr] = "idle" THEN \A e \in Errs : status[e] # "idle" => e \in exists
  ELSE status[Report] = "settled"

Fresh(f) == f \in exists /\ f \notin stale /\ f \notin cut /\ status[f] # "running"
\* The binary of e was run, and a failure was told.
Accounted(e, told) == result[e] = "pass" \/ (result[e] = "fail" /\ told)
AllFresh ==
  /\ \A e \in Errs : e \in exists /\ e \notin cut
  /\ \A f \in Compiled \cup Errs : f \notin stale

\* Files that are not older than what they depend on tell the truth.
ErrsTell ==
  \A e \in Errs : Fresh(e) /\ Obj(e[2]) \notin stale /\ BinaryOf(e) \notin stale =>
                    Accounted(e, log[e] = "FAIL")
DirReportTells ==
  AllFresh /\ Fresh(DirReport) => \A e \in Errs : Accounted(e, e \in fails[DirReport])
ReportTells ==
  AllFresh /\ Fresh(DirReport) /\ Fresh(Report) =>
    \A e \in Errs : Accounted(e, e \in fails[Report])

\* Once cleanerr has begun, REPORT stands.
VerdictStands ==
  status[CleanErr] # "idle" /\ cut = {} => \A e \in Errs : Accounted(e, e \in fails[Report])

\* What the properties say.
VerdictIsReal ==
  /\ verdict # "none" => goal = "none"
  /\ verdict \in {"PASS", "FAIL"} /\ cut = {} =>
       \A e \in Errs : result[e] = "pass" \/ (verdict = "FAIL" /\ result[e] = "fail")

IInv ==
  /\ Types /\ Order
  /\ ~setup.harnessMayFail /\ ("run" \in setup.goals => setup.jobs = 1)
  /\ goal # "none" => InSession
  /\ goal \in {"all", "run"} => CleansLate /\ VerdictStands
  /\ ErrsTell /\ DirReportTells /\ ReportTells
  /\ VerdictIsReal

-----------------------------------------------------------------------------
(* Types, and the number of jobs. *)

LEMMA InitTypes == Init => Types
<1> SUFFICES ASSUME Init PROVE Types
  OBVIOUS
<1>1. \A s \in Setups : s.maxSessions \in Nat
  BY SetupsAssumption DEF SetupsOver
<1> QED BY <1>1 DEF Init, Types, Errs, Reports

LEMMA TypesStep == Types /\ [Next]_vars => Types'
<1> SUFFICES ASSUME Types, [Next]_vars PROVE Types'
  OBVIOUS
<1>1. setup \in Setups /\ setup.maxSessions \in Nat
  BY SetupsAssumption DEF Types, SetupsOver
<1>2. setup' = setup => Errs' = Errs /\ Files' = Files /\ Targets' = Targets /\ Reports' = Reports
  BY Frame DEF Reports, DirReport, Report
<1>3. Errs \subseteq Files /\ Reports \subseteq Files /\ Files \subseteq Targets
  BY <1>1, Graph
<1> USE <1>1, <1>2 DEF Types
<1>4. ASSUME NEW f \in Targets, Reap(f), exists' \subseteq Files, stale' \subseteq Files,
             log' \in [Errs -> {"nothing", "FAIL"}], fails' \in [Reports -> SUBSET Errs],
             result' \in [Errs -> {"untested", "pass", "fail"}]
      PROVE  Types'
  BY <1>4 DEF Reap
<1>5. ASSUME NEW f \in Files, NEW there \in BOOLEAN, Write(f, there)
      PROVE  exists' \subseteq Files /\ stale' \subseteq Files
  BY <1>5 DEF Write, Dependents
<1>6. ASSUME NEW g \in setup.goals \cap {"all", "run", "dirrun"}, StartMake(g) PROVE Types'
  BY <1>6 DEF StartMake, files
<1>7. ASSUME NEW f \in Targets, UpToDate(f) PROVE Types'
  BY <1>7 DEF UpToDate, files
<1>8. ASSUME NEW f \in Targets, StartJob(f) PROVE Types'
  <2>1. exists' \subseteq Files /\ stale' \subseteq Files
    BY <1>3, <1>5, <1>8 DEF StartJob
  <2> QED BY <1>8, <2>1 DEF StartJob
<1>9. ASSUME NEW f \in Targets, EndCompile(f) PROVE Types'
  <2>1. Reap(f) /\ f \in Files /\ log' = log /\ fails' = fails /\ result' = result
    BY <1>1, <1>9, Graph DEF EndCompile
  <2>2. exists' \subseteq Files /\ stale' \subseteq Files
    BY <1>5, <1>9, <2>1 DEF EndCompile
  <2> QED BY <1>4, <2>1, <2>2
<1>10. ASSUME NEW f \in Targets, EndTest(f) PROVE Types'
  <2>1. /\ Reap(f) /\ exists' = exists /\ stale' = stale /\ fails' = fails
        /\ result' \in [Errs -> {"untested", "pass", "fail"}]
        /\ log' \in [Errs -> {"nothing", "FAIL"}]
    BY <1>10 DEF EndTest
  <2> QED BY <1>4, <2>1
<1>11. ASSUME NEW f \in Targets, EndReport(f) PROVE Types'
  <2>1. DirReport \in Reports
    BY <1>1, Graph
  <2>2. /\ Reap(f) /\ exists' = exists /\ stale' = stale /\ log' = log /\ result' = result
        /\ fails' \in [Reports -> SUBSET Errs]
    BY <1>11, <2>1 DEF EndReport
  <2> QED BY <1>4, <2>2
<1>12. CASE EndCleanErr
  <2>1. /\ Reap(CleanErr) /\ CleanErr \in Targets /\ exists' \subseteq Files /\ stale' = stale
        /\ log' \in [Errs -> {"nothing", "FAIL"}] /\ fails' = fails /\ result' = result
    BY <1>12, Graph DEF EndCleanErr
  <2> QED BY <1>4, <2>1
<1>13. CASE EndMake
  BY <1>13 DEF EndMake, files
<1>14. ASSUME NEW g, NEW gone, Clean(g, gone) PROVE Types'
  BY <1>14 DEF Clean
<1>15. ASSUME NEW t \in Tests, Edit(t) PROVE Types'
  <2>1. Obj(t) \in Files
    BY <1>1, Graph
  <2> QED BY <1>15, <2>1 DEF Edit
<1>16. CASE KillMake
  BY <1>16 DEF KillMake, files
<1>17. CASE UNCHANGED vars
  BY <1>17 DEF vars, files
<1> QED BY <1>6, <1>7, <1>8, <1>9, <1>10, <1>11, <1>12, <1>13, <1>14, <1>15, <1>16, <1>17
        DEF Next, Work, Rest

LimitedJobs == IsFiniteSet(Running) /\ Cardinality(Running) <= Jobs

\* A step starts at most one job, and only if there is a free one.
LEMMA LimitedJobsStep == Types /\ LimitedJobs /\ [Next]_vars => LimitedJobs'
<1> SUFFICES ASSUME Types, LimitedJobs, [Next]_vars PROVE LimitedJobs'
  OBVIOUS
<1>1. Jobs \in Nat /\ setup \in Setups
  BY SetupsAssumption DEF Types, SetupsOver, Jobs
<1>2. setup' = setup => Jobs' = Jobs /\ Targets' = Targets
  BY Frame
<1>3. ASSUME setup' = setup, Running' \subseteq Running PROVE LimitedJobs'
  <2>1. IsFiniteSet(Running') /\ Cardinality(Running') <= Cardinality(Running)
    BY <1>3, FS_Subset DEF LimitedJobs
  <2>2. Cardinality(Running) \in Nat /\ Cardinality(Running') \in Nat
    BY <2>1, FS_CardinalityType DEF LimitedJobs
  <2> QED BY <1>1, <1>2, <1>3, <2>1, <2>2 DEF LimitedJobs
<1>4. ASSUME NEW f \in Targets, StartJob(f) PROVE LimitedJobs'
  <2>1. Running' = Running \cup {f} /\ f \notin Running /\ setup' = setup
    BY <1>2, <1>4 DEF StartJob, Running, Ready, Types
  <2>2. IsFiniteSet(Running') /\ Cardinality(Running') = Cardinality(Running) + 1
    BY <2>1, FS_AddElement DEF LimitedJobs
  <2>3. Cardinality(Running) \in Nat /\ Cardinality(Running) < Jobs
    BY <1>4, FS_CardinalityType DEF LimitedJobs, StartJob
  <2> QED BY <1>1, <1>2, <2>1, <2>2, <2>3 DEF LimitedJobs
<1>5. ASSUME NEW f, Reap(f) PROVE LimitedJobs'
  <2>1. Running' \subseteq Running /\ setup' = setup
    BY <1>2, <1>5 DEF Reap, Running, Types
  <2> QED BY <1>3, <2>1
<1>6. ASSUME NEW g, StartMake(g) PROVE LimitedJobs'
  <2>1. Running' \subseteq Running /\ setup' = setup
    BY <1>2, <1>6 DEF StartMake, Running, Types
  <2> QED BY <1>3, <2>1
<1>7. ASSUME NEW f \in Targets, UpToDate(f) PROVE LimitedJobs'
  <2>1. Running' \subseteq Running /\ setup' = setup
    BY <1>2, <1>7 DEF UpToDate, Running, Types
  <2> QED BY <1>3, <2>1
<1>8. CASE KillMake
  <2>1. Running' \subseteq Running /\ setup' = setup
    BY <1>2, <1>8 DEF KillMake, Running, Types
  <2> QED BY <1>3, <2>1
<1>9. ASSUME setup' = setup, status' = status PROVE LimitedJobs'
  <2>1. Running' \subseteq Running
    BY <1>2, <1>9 DEF Running
  <2> QED BY <1>3, <1>9, <2>1
<1>10. CASE EndMake
  BY <1>9, <1>10 DEF EndMake
<1>11. ASSUME NEW g, NEW gone, Clean(g, gone) PROVE LimitedJobs'
  BY <1>9, <1>11 DEF Clean
<1>12. ASSUME NEW t, Edit(t) PROVE LimitedJobs'
  BY <1>9, <1>12 DEF Edit
<1>13. CASE UNCHANGED vars
  BY <1>9, <1>13 DEF vars
<1> QED BY <1>4, <1>5, <1>6, <1>7, <1>8, <1>10, <1>11, <1>12, <1>13
        DEF Next, Work, Rest, EndCompile, EndTest, EndReport, EndCleanErr

\* Type correctness, and make -j keeps its promise: at most that many recipes
\* run at a time.
THEOREM TypeCorrect == Spec => []TypeOK
<1>1. Init => Types /\ LimitedJobs
  <2> SUFFICES ASSUME Init PROVE Types /\ LimitedJobs
    OBVIOUS
  <2>1. Types
    BY InitTypes
  <2>2. Running = {} /\ Jobs \in Nat
    BY <2>1, SetupsAssumption DEF Init, Running, Types, SetupsOver, Jobs
  <2>3. IsFiniteSet(Running) /\ Cardinality(Running) = 0
    BY <2>2, FS_EmptySet
  <2> QED BY <2>1, <2>2, <2>3 DEF LimitedJobs
<1>2. Types /\ LimitedJobs => TypeOK
  <2> SUFFICES ASSUME Types, LimitedJobs PROVE TypeOK
    OBVIOUS
  <2>1. Files \subseteq Targets
    BY Graph DEF Types
  <2> QED BY <2>1 DEF Types, LimitedJobs, TypeOK, Running
<1> QED BY <1>1, <1>2, TypesStep, LimitedJobsStep, PTL DEF Spec

-----------------------------------------------------------------------------
(* The order of recipes. *)

LEMMA FrameWanted ==
  ASSUME setup' = setup, goal' = goal
  PROVE  Wanted' = Wanted
BY Frame DEF Wanted, Report, DirReport

LEMMA OrderStep == Types /\ Order /\ [Next]_vars => Order'
<1> SUFFICES ASSUME Types, Order, [Next]_vars PROVE Order'
  OBVIOUS
<1>1. setup \in Setups
  BY DEF Types
<1>2. setup' = setup => /\ Files' = Files /\ Targets' = Targets
                        /\ \A f : Prereqs(f)' = Prereqs(f)
  BY Frame
<1>3. Files \subseteq Targets /\ \A f \in Files : Prereqs(f) \subseteq Targets
  BY <1>1, Graph
<1>4. ASSUME NEW f, Reap(f) PROVE Order'
  <2>1. Wanted' = Wanted
    BY <1>4, FrameWanted DEF Reap
  <2> QED BY <1>2, <1>3, <1>4, <2>1 DEF Reap, Order, Types
<1>5. ASSUME NEW f \in Targets, Ready(f), setup' = setup, goal' = goal,
             status' = [status EXCEPT ![f] = "running"]
               \/ status' = [status EXCEPT ![f] = "settled"]
      PROVE  Order'
  <2>1. Wanted' = Wanted /\ f \in Wanted
    BY <1>5, FrameWanted DEF Ready
  <2>2. \A q \in Prereqs(f) : status[q] = "settled"
    BY <1>5 DEF Ready, Settled
  <2>3. f \notin Prereqs(f) /\ \A g \in Files : status[g] # "idle" => f \notin Prereqs(g)
    BY <1>5 DEF Ready, Order, Settled
  <2>4. \A g \in Files : g # f => (status'[g] # "idle" => \A q \in Prereqs(g) : status'[q] = "settled")
    BY <1>3, <1>5, <2>3 DEF Order, Types
  <2>5. \A q \in Prereqs(f) \cap Targets : status'[q] = "settled"
    BY <1>3, <1>5, <2>2, <2>3 DEF Types
  <2>6. \A g \in Targets : status'[g] = "running" => g \in Wanted
    BY <1>5, <2>1 DEF Order, Types
  <2> QED BY <1>2, <1>3, <1>5, <2>1, <2>4, <2>5, <2>6 DEF Order
<1>6. ASSUME setup' = setup, Targets' = Targets, \A f \in Targets : status'[f] = "idle" PROVE Order'
  BY <1>2, <1>3, <1>6 DEF Order
<1>7. ASSUME NEW g, StartMake(g) PROVE Order'
  BY <1>2, <1>6, <1>7 DEF StartMake
<1>8. CASE KillMake
  BY <1>2, <1>6, <1>8 DEF KillMake
<1>9. CASE EndMake
  <2>1. \A f \in Targets : status[f] # "running"
    BY <1>9 DEF EndMake, Order, Settled
  <2> QED BY <1>2, <1>9, <2>1 DEF EndMake, Order
<1>10. ASSUME setup' = setup, goal' = goal, status' = status PROVE Order'
  BY <1>2, <1>10, FrameWanted DEF Order
<1>11. ASSUME NEW f \in Targets, UpToDate(f) \/ StartJob(f) PROVE Order'
  BY <1>5, <1>11 DEF UpToDate, StartJob
<1>12. ASSUME NEW g, NEW gone, Clean(g, gone) PROVE Order'
  BY <1>10, <1>12 DEF Clean
<1>13. ASSUME NEW t, Edit(t) PROVE Order'
  BY <1>10, <1>13 DEF Edit
<1>14. CASE UNCHANGED vars
  BY <1>10, <1>14 DEF vars
<1> QED BY <1>4, <1>7, <1>8, <1>9, <1>11, <1>12, <1>13, <1>14
        DEF Next, Work, Rest, EndCompile, EndTest, EndReport, EndCleanErr

LEMMA TypesAndOrder == Spec => [](Types /\ Order)
<1>1. Init => Order
  <2> SUFFICES ASSUME Init PROVE Order
    OBVIOUS
  <2>1. setup \in Setups
    BY DEF Init
  <2>2. Files \subseteq Targets
    BY <2>1, Graph
  <2> QED BY <2>2 DEF Init, Order
<1> QED BY <1>1, InitTypes, TypesStep, OrderStep, PTL DEF Spec

\* The static binary of a test is never run while the dynamic one is, with any
\* number of jobs and after any number of sessions, killed ones included.
THEOREM DynStaticExclusiveHolds == Spec => []DynStaticExclusive
<1>1. Types /\ Order => DynStaticExclusive
  <2> SUFFICES ASSUME Types, Order, NEW t \in Static,
                      status[Err(t)] = "running", status[StaticErr(t)] = "running"
               PROVE  FALSE
    BY DEF DynStaticExclusive
  <2>1. StaticErr(t) \in Files /\ Err(t) \in Prereqs(StaticErr(t))
    BY Graph DEF Types
  <2> QED BY <2>1 DEF Order
<1> QED BY <1>1, TypesAndOrder, PTL

-----------------------------------------------------------------------------
(* What make knows in a session. *)

\* One recipe at a time works on a file, and what depends on it waits.
LEMMA DependentsWait ==
  ASSUME Types, Order, NEW f \in Files, status[f] # "settled"
  PROVE  /\ f \notin Prereqs(f) \/ status[f] = "idle"
         /\ \A g \in Dependents(f) : g \in Files /\ status[g] = "idle"
BY DEF Order, Dependents

\* Two steps that write.
LEMMA StartJobEffect ==
  ASSUME Types, Order, NEW f \in Targets, StartJob(f)
  PROVE  /\ status[f] = "idle" /\ status' = [status EXCEPT ![f] = "running"]
         /\ \A q \in Prereqs(f) : status[q] = "settled"
         /\ f \in Errs \cup Reports =>
              exists' = exists \cup {f} /\ stale' = (stale \ {f}) \cup Dependents(f)
         /\ f \notin Errs \cup Reports => exists' = exists /\ stale' = stale
         /\ \A e \in Errs \ {f} : log'[e] = log[e]
         /\ \A r \in Reports \ {f} : fails'[r] = fails[r]
         /\ result' = result /\ goal' = goal /\ setup' = setup /\ cut' = cut /\ verdict' = verdict
BY DEF StartJob, Ready, Settled, Write, Types

LEMMA EndCompileEffect ==
  ASSUME Types, Order, NEW f \in Targets, EndCompile(f)
  PROVE  /\ f \in Compiled /\ status[f] = "running"
         /\ status' = [status EXCEPT ![f] = "settled"] /\ cut' = cut \ {f}
         /\ exists' = exists \cup {f} \/ exists' = exists \ {f}
         /\ f = RunTest /\ ~setup.harnessMayFail => exists' = exists \cup {f}
         /\ stale' = (stale \ {f}) \cup Dependents(f)
         /\ log' = log /\ fails' = fails /\ result' = result
         /\ goal' = goal /\ setup' = setup /\ verdict' = verdict
<1>1. Prereqs(RunTest) = {}
  BY Graph DEF Types
<1> QED BY <1>1 DEF EndCompile, Reap, Write

SessionStep == goal # "none" => InSession

LEMMA InSessionStep ==
  ASSUME Types, Order, ~setup.harnessMayFail, SessionStep, [Next]_vars
  PROVE  SessionStep'
<1>1. setup \in Setups /\ (setup' = setup => Files' = Files /\ Errs' = Errs /\ Reports' = Reports)
  BY Frame DEF Types, Reports, DirReport, Report
<1>2. /\ Files = Compiled \cup Errs \cup Reports /\ Files \subseteq Targets
      /\ Reports = {DirReport, Report} /\ DirReport # Report
      /\ Prereqs(DirReport) = Errs /\ Prereqs(Report) = {DirReport}
      /\ RunTest \in Compiled /\ CleanErr \notin Files
      /\ \A f \in Compiled : f \notin Errs /\ f \notin Reports
      /\ \A e \in Errs : e \notin Reports
      /\ DynErrs \subseteq Errs
  BY <1>1, Graph
<1>3. RunTest' = RunTest /\ DirReport' = DirReport /\ Report' = Report
  BY DEF RunTest, DirReport, Report
<1>4. ASSUME goal' = "none" PROVE SessionStep'
  BY <1>4 DEF SessionStep
<1>5. ASSUME NEW g, StartMake(g) PROVE SessionStep'
  <2>1. \A f \in Files : status'[f] = "idle"
    BY <1>2, <1>5 DEF StartMake
  <2> QED BY <1>1, <1>2, <1>3, <1>5, <2>1 DEF SessionStep, InSession, StartMake
<1>6. ASSUME NEW f \in Targets, UpToDate(f), goal # "none" PROVE InSession'
  <2>1. status' = [status EXCEPT ![f] = "settled"] /\ f \in exists /\ f \notin stale
        /\ exists' = exists /\ stale' = stale /\ setup' = setup
    BY <1>6 DEF UpToDate, MustRemake, files
  <2> QED BY <1>1, <1>2, <1>3, <1>6, <2>1 DEF SessionStep, InSession, Types
<1>7. ASSUME NEW f \in Targets, StartJob(f), goal # "none" PROVE InSession'
  <2>1. CASE f \in Errs \cup Reports
    <3>1. /\ status[f] = "idle" /\ status' = [status EXCEPT ![f] = "running"]
          /\ \A q \in Prereqs(f) : status[q] = "settled"
          /\ exists' = exists \cup {f} /\ stale' = (stale \ {f}) \cup Dependents(f)
          /\ setup' = setup
      BY <1>7, <2>1, StartJobEffect
    <3>2. f \in Files /\ f \notin Prereqs(f) /\ \A g \in Dependents(f) : g \in Files /\ status[g] = "idle"
      BY <1>2, <2>1, <3>1, DependentsWait
    <3>3. f \notin Dependents(f)
      BY <3>2 DEF Dependents
    <3>4. /\ \A g \in Files : status'[g] = "settled" => g \notin stale'
          /\ \A g \in Errs \cup Reports : status'[g] # "idle" => g \notin stale'
      BY <1>2, <1>7, <3>1, <3>2, <3>3 DEF SessionStep, InSession, Types
    <3>5. /\ \A r \in Reports : status'[r] # "idle" => r \in exists'
          /\ status'[RunTest] = "settled" => RunTest \in exists'
      BY <1>2, <1>7, <3>1 DEF SessionStep, InSession, Types
    <3>6. \A e \in Errs : status'[e] = "running" => DirReport \in stale'
      BY <1>2, <1>7, <3>1, <3>2 DEF SessionStep, InSession, Types, Dependents
    <3>7. status'[DirReport] = "running" => Report \in stale'
      BY <1>2, <1>7, <3>1, <3>2 DEF SessionStep, InSession, Types, Dependents
    <3> QED BY <1>1, <1>3, <3>1, <3>4, <3>5, <3>6, <3>7 DEF InSession
  <2>2. CASE f \notin Errs \cup Reports
    <3>1. /\ status' = [status EXCEPT ![f] = "running"]
          /\ exists' = exists /\ stale' = stale /\ setup' = setup
      BY <1>7, <2>2, StartJobEffect
    <3> QED BY <1>1, <1>2, <1>3, <1>7, <2>2, <3>1 DEF SessionStep, InSession, Types
  <2> QED BY <2>1, <2>2
<1>8. ASSUME NEW f \in Targets, EndCompile(f), goal # "none" PROVE InSession'
  <2>1. /\ f \in Compiled /\ status[f] = "running"
        /\ status' = [status EXCEPT ![f] = "settled"]
        /\ exists' = exists \cup {f} \/ exists' = exists \ {f}
        /\ f = RunTest => exists' = exists \cup {f}
        /\ stale' = (stale \ {f}) \cup Dependents(f) /\ setup' = setup
    BY <1>8, EndCompileEffect
  <2>2. f \in Files /\ f \notin Prereqs(f) /\ \A g \in Dependents(f) : g \in Files /\ status[g] = "idle"
    BY <1>2, <2>1, DependentsWait
  <2>3. f \notin Dependents(f)
    BY <2>2 DEF Dependents
  <2>4. /\ \A g \in Files : status'[g] = "settled" => g \notin stale'
        /\ \A g \in Errs \cup Reports : status'[g] # "idle" => g \notin stale'
    BY <1>2, <1>8, <2>1, <2>2, <2>3 DEF SessionStep, InSession, Types
  <2>5. /\ \A r \in Reports : status'[r] # "idle" => r \in exists'
        /\ status'[RunTest] = "settled" => RunTest \in exists'
    BY <1>2, <1>8, <2>1 DEF SessionStep, InSession, Types
  <2>6. /\ \A e \in Errs : status'[e] = "running" => DirReport \in stale'
        /\ status'[DirReport] = "running" => Report \in stale'
    BY <1>2, <1>8, <2>1 DEF SessionStep, InSession, Types
  <2> QED BY <1>1, <1>3, <2>1, <2>4, <2>5, <2>6 DEF InSession
<1>9. ASSUME NEW f \in Targets, EndTest(f) \/ EndReport(f), goal # "none" PROVE InSession'
  <2>1. /\ f \in Errs \cup Reports /\ status[f] = "running"
        /\ status' = [status EXCEPT ![f] = "settled"]
        /\ exists' = exists /\ stale' = stale /\ setup' = setup
    BY <1>9 DEF EndTest, EndReport, Reap
  <2> QED BY <1>1, <1>2, <1>3, <1>9, <2>1 DEF SessionStep, InSession, Types
<1>10. ASSUME EndCleanErr, goal # "none" PROVE InSession'
  <2>1. /\ status' = [status EXCEPT ![CleanErr] = "settled"]
        /\ exists' = exists \ DynErrs /\ stale' = stale /\ setup' = setup
    BY <1>10 DEF EndCleanErr, Reap
  <2> QED BY <1>1, <1>2, <1>3, <1>10, <2>1 DEF SessionStep, InSession, Types
<1>11. CASE EndMake \/ KillMake
  BY <1>4, <1>11 DEF EndMake, KillMake
<1>12. ASSUME NEW g, NEW gone, Clean(g, gone) PROVE SessionStep'
  BY <1>4, <1>12 DEF Clean
<1>13. ASSUME NEW t, Edit(t) PROVE SessionStep'
  BY <1>4, <1>13 DEF Edit
<1>14. CASE UNCHANGED vars
  BY <1>1, <1>3, <1>14 DEF vars, files, SessionStep, InSession
<1>15. ASSUME Work, goal = "none" PROVE SessionStep'
  <2>1. ASSUME NEW f, Reap(f) PROVE goal' = "none"
    BY <1>15, <2>1 DEF Reap
  <2> QED BY <1>4, <1>15, <2>1
          DEF Work, UpToDate, StartJob, EndCompile, EndTest, EndReport, EndCleanErr, EndMake
<1>16. ASSUME Work, goal # "none" PROVE SessionStep'
  BY <1>6, <1>7, <1>8, <1>9, <1>10, <1>11, <1>16 DEF Work, SessionStep
<1> QED BY <1>5, <1>11, <1>12, <1>13, <1>14, <1>15, <1>16 DEF Next, Rest

-----------------------------------------------------------------------------
(* What the files tell. *)

\* An .err file that is not older than its binary tells how the test ended.
LEMMA ErrsTellStep ==
  ASSUME Types, Order, SessionStep, ErrsTell, [Next]_vars
  PROVE  ErrsTell'
<1>1. setup' = setup => /\ Errs' = Errs /\ Files' = Files
                        /\ \A e : BinaryOf(e)' = BinaryOf(e)
                        /\ \A t : Obj(t)' = Obj(t)
  BY Frame
<1>2. setup' = setup
  BY DEF Next, Work, UpToDate, StartJob, EndCompile, EndTest, EndReport, EndCleanErr, EndMake,
         Reap, StartMake, Clean, Edit, KillMake, Rest, vars
<1> SUFFICES ASSUME NEW e \in Errs, e \in exists', e \notin stale', e \notin cut',
                    status'[e] # "running", Obj(e[2]) \notin stale', BinaryOf(e) \notin stale'
             PROVE  result'[e] = "pass" \/ (result'[e] = "fail" /\ log'[e] = "FAIL")
  BY <1>1, <1>2 DEF ErrsTell, Fresh, Accounted
<1>3. ASSUME e \in exists, e \notin stale, e \notin cut, status[e] # "running",
             Obj(e[2]) \notin stale, BinaryOf(e) \notin stale,
             result'[e] = result[e], log'[e] = log[e]
      PROVE  result'[e] = "pass" \/ (result'[e] = "fail" /\ log'[e] = "FAIL")
  BY <1>3 DEF ErrsTell, Fresh, Accounted
<1>4. /\ e \in Files /\ e \in Targets /\ e \notin Reports /\ e \notin Compiled /\ e[2] \in Tests
      /\ BinaryOf(e) \in Compiled /\ Obj(e[2]) \in Compiled /\ BinaryOf(e) \in Files
      /\ BinaryOf(e) \in Prereqs(e) /\ RunTest \in Prereqs(e)
      /\ Obj(e[2]) \in Prereqs(BinaryOf(e))
      /\ e # CleanErr /\ Files \subseteq Targets
      /\ \A f \in Compiled : f \notin Errs /\ f \notin Reports
  BY Graph DEF Types
<1>5. goal = "none" => status[e] # "running"
  BY <1>4 DEF Order, Wanted
<1>6. ASSUME NEW g, StartMake(g)
      PROVE  result'[e] = "pass" \/ (result'[e] = "fail" /\ log'[e] = "FAIL")
  BY <1>3, <1>5, <1>6 DEF StartMake, files
<1>7. ASSUME NEW f \in Targets, UpToDate(f)
      PROVE  result'[e] = "pass" \/ (result'[e] = "fail" /\ log'[e] = "FAIL")
  <2>1. status[e] # "running"
    BY <1>4, <1>7 DEF UpToDate, Ready, Types
  <2> QED BY <1>3, <1>7, <2>1 DEF UpToDate, files
<1>8. ASSUME NEW f \in Targets, StartJob(f)
      PROVE  result'[e] = "pass" \/ (result'[e] = "fail" /\ log'[e] = "FAIL")
  <2>1. /\ status' = [status EXCEPT ![f] = "running"]
        /\ f \in Errs \cup Reports =>
             exists' = exists \cup {f} /\ stale' = (stale \ {f}) \cup Dependents(f)
        /\ f \notin Errs \cup Reports => exists' = exists /\ stale' = stale
        /\ f # e => log'[e] = log[e]
        /\ result' = result /\ cut' = cut
    BY <1>8, StartJobEffect
  <2>2. f # e
    BY <1>4, <2>1 DEF Types
  <2>3. f \in Errs \cup Reports => f # Obj(e[2]) /\ f # BinaryOf(e)
    BY <1>4
  <2>4. /\ e \in exists /\ e \notin stale /\ e \notin cut /\ status[e] # "running"
        /\ Obj(e[2]) \notin stale /\ BinaryOf(e) \notin stale
    BY <1>4, <2>1, <2>2, <2>3 DEF Types
  <2> QED BY <1>3, <2>1, <2>2, <2>4
<1>9. ASSUME NEW f \in Targets, EndCompile(f)
      PROVE  result'[e] = "pass" \/ (result'[e] = "fail" /\ log'[e] = "FAIL")
  <2>1. /\ f \in Compiled /\ status' = [status EXCEPT ![f] = "settled"] /\ cut' = cut \ {f}
        /\ exists' = exists \cup {f} \/ exists' = exists \ {f}
        /\ stale' = (stale \ {f}) \cup Dependents(f)
        /\ log' = log /\ result' = result
    BY <1>9, EndCompileEffect
  <2>2. f # BinaryOf(e) /\ f # Obj(e[2])
    BY <1>4, <2>1 DEF Dependents
  <2>3. /\ e \in exists /\ e \notin stale /\ e \notin cut /\ status[e] # "running"
        /\ Obj(e[2]) \notin stale /\ BinaryOf(e) \notin stale
    BY <1>4, <2>1, <2>2 DEF Types
  <2> QED BY <1>3, <2>1, <2>3
<1>10. ASSUME NEW f \in Targets, EndTest(f)
       PROVE  result'[e] = "pass" \/ (result'[e] = "fail" /\ log'[e] = "FAIL")
  <2>1. /\ f \in Errs /\ status[f] = "running" /\ status' = [status EXCEPT ![f] = "settled"]
        /\ cut' = cut \ {f} /\ exists' = exists /\ stale' = stale
    BY <1>10 DEF EndTest, Reap
  <2>2. CASE f = e
    <3>1. RunTest \in exists
      BY <1>4, <1>5, <2>1, <2>2 DEF Order, SessionStep, InSession
    <3> QED BY <1>10, <2>1, <2>2, <3>1 DEF EndTest, Types
  <2>3. CASE f # e
    <3>1. result'[e] = result[e] /\ log'[e] = log[e]
      BY <1>10, <2>3 DEF EndTest, Types
    <3>2. e \notin cut /\ status[e] # "running"
      BY <1>4, <2>1, <2>3 DEF Types
    <3> QED BY <1>3, <2>1, <3>1, <3>2
  <2> QED BY <2>2, <2>3
<1>11. ASSUME NEW f \in Targets, EndReport(f)
       PROVE  result'[e] = "pass" \/ (result'[e] = "fail" /\ log'[e] = "FAIL")
  <2>1. /\ f \in Reports /\ status' = [status EXCEPT ![f] = "settled"]
        /\ cut' = cut \ {f} /\ exists' = exists /\ stale' = stale /\ log' = log /\ result' = result
    BY <1>11 DEF EndReport, Reap
  <2>2. e \notin cut /\ status[e] # "running"
    BY <1>4, <2>1 DEF Types
  <2> QED BY <1>3, <2>1, <2>2
<1>12. ASSUME EndCleanErr
       PROVE  result'[e] = "pass" \/ (result'[e] = "fail" /\ log'[e] = "FAIL")
  <2>1. /\ status' = [status EXCEPT ![CleanErr] = "settled"] /\ cut' = cut \ {CleanErr}
        /\ exists' = exists \ DynErrs /\ stale' = stale /\ result' = result
        /\ e \notin DynErrs => log'[e] = log[e]
    BY <1>12 DEF EndCleanErr, Reap
  <2>2. e \in exists /\ e \notin DynErrs /\ e \notin cut /\ status[e] # "running"
    BY <1>4, <2>1 DEF Types
  <2> QED BY <1>3, <2>1, <2>2
<1>13. ASSUME EndMake
       PROVE  result'[e] = "pass" \/ (result'[e] = "fail" /\ log'[e] = "FAIL")
  BY <1>3, <1>13 DEF EndMake, files
<1>14. ASSUME NEW g, NEW gone, Clean(g, gone)
       PROVE  result'[e] = "pass" \/ (result'[e] = "fail" /\ log'[e] = "FAIL")
  <2>1. e \in exists /\ e \notin gone
    BY <1>14 DEF Clean
  <2>2. log'[e] = log[e]
    BY <1>14, <2>1 DEF Clean
  <2> QED BY <1>3, <1>14, <2>1, <2>2 DEF Clean
<1>15. ASSUME NEW t \in Tests, Edit(t)
       PROVE  result'[e] = "pass" \/ (result'[e] = "fail" /\ log'[e] = "FAIL")
  <2>1. e[2] # t
    BY <1>15 DEF Edit
  <2>2. result'[e] = result[e]
    BY <1>15, <2>1 DEF Edit
  <2> QED BY <1>3, <1>15, <2>2 DEF Edit
<1>16. ASSUME KillMake
       PROVE  result'[e] = "pass" \/ (result'[e] = "fail" /\ log'[e] = "FAIL")
  <2>1. e \notin cut /\ status[e] # "running"
    BY <1>4, <1>16 DEF KillMake, Running
  <2> QED BY <1>3, <1>16, <2>1 DEF KillMake, files
<1>17. ASSUME UNCHANGED vars
       PROVE  result'[e] = "pass" \/ (result'[e] = "fail" /\ log'[e] = "FAIL")
  BY <1>3, <1>17 DEF vars, files
<1> QED BY <1>6, <1>7, <1>8, <1>9, <1>10, <1>11, <1>12, <1>13, <1>14, <1>15, <1>16, <1>17
        DEF Next, Work, Rest

\* Everything is as DirReportTells asks for it.
Current == AllFresh /\ Fresh(DirReport)

\* If everything is current after a step that does not make the REPORT of the
\* directory, it was before, and the step has changed neither results nor that
\* REPORT.
LEMMA Undisturbed ==
  ASSUME Types, Order, SessionStep, [Next]_vars, Current', ~EndReport(DirReport), Errs # {}
  PROVE  Current /\ result' = result /\ fails'[DirReport] = fails[DirReport]
<1>1. setup' = setup
  BY DEF Next, Work, UpToDate, StartJob, EndCompile, EndTest, EndReport, EndCleanErr, EndMake,
         Reap, StartMake, Clean, Edit, KillMake, Rest, vars
<1>2. Errs' = Errs /\ Compiled' = Compiled /\ DirReport' = DirReport
  BY <1>1, Frame DEF DirReport
<1>3. /\ \A e \in Errs : e \in exists' /\ e \notin cut'
      /\ \A f \in Compiled \cup Errs : f \notin stale'
      /\ DirReport \in exists' /\ DirReport \notin stale' /\ DirReport \notin cut'
      /\ status'[DirReport] # "running"
  BY <1>2 DEF Current, AllFresh, Fresh
<1>4. ASSUME \A e \in Errs : e \in exists /\ e \notin cut,
             \A f \in Compiled \cup Errs : f \notin stale,
             DirReport \in exists, DirReport \notin stale, DirReport \notin cut,
             status[DirReport] # "running", result' = result,
             fails'[DirReport] = fails[DirReport]
      PROVE  Current /\ result' = result /\ fails'[DirReport] = fails[DirReport]
  BY <1>4 DEF Current, AllFresh, Fresh
<1>5. /\ RunTest \in Compiled /\ Prereqs(DirReport) = Errs
      /\ \A f \in Compiled : f \notin Errs /\ f \notin Reports
      /\ \A e \in Errs : e \notin Compiled /\ e \notin Reports /\ RunTest \in Prereqs(e)
      /\ \A f \in Compiled \ {RunTest} :
           (\E e \in Errs : f \in Prereqs(e)) \/ (\E g \in Compiled : f \in Prereqs(g))
      /\ \A t \in Tests : Obj(t) \in Compiled
      /\ Reports = {DirReport, Report} /\ DirReport # Report
      /\ Files = Compiled \cup Errs \cup Reports
      /\ CleanErr \notin Files /\ Targets = Files \cup {CleanErr}
  BY Graph DEF Types
<1>6. goal = "none" => status[DirReport] # "running"
  BY <1>5 DEF Order, Wanted
<1> HIDE DEF Current
<1> DEFINE Goal == Current /\ result' = result /\ fails'[DirReport] = fails[DirReport]
<1>7. ASSUME NEW g, StartMake(g) PROVE Goal
  BY <1>3, <1>4, <1>6, <1>7 DEF StartMake, files
<1>8. ASSUME NEW f \in Targets, UpToDate(f) PROVE Goal
  <2>1. status[DirReport] # "running"
    BY <1>3, <1>5, <1>8 DEF UpToDate, Ready, Types
  <2> QED BY <1>3, <1>4, <1>8, <2>1 DEF UpToDate, files
<1>9. ASSUME NEW f \in Targets, StartJob(f) PROVE Goal
  <2>1. /\ status' = [status EXCEPT ![f] = "running"]
        /\ f \in Errs \cup Reports =>
             exists' = exists \cup {f} /\ stale' = (stale \ {f}) \cup Dependents(f)
        /\ f \notin Errs \cup Reports => exists' = exists /\ stale' = stale
        /\ \A r \in Reports \ {f} : fails'[r] = fails[r]
        /\ result' = result /\ cut' = cut
    BY <1>9, StartJobEffect
  <2>2. f # DirReport
    BY <1>3, <1>5, <2>1 DEF Types
  <2>3. f \notin Errs
    BY <1>3, <1>5, <2>1 DEF Dependents
  <2>4. /\ \A e \in Errs : e \in exists
        /\ \A g \in Compiled \cup Errs : g \notin stale
        /\ DirReport \in exists /\ DirReport \notin stale /\ status[DirReport] # "running"
    BY <1>3, <1>5, <2>1, <2>2, <2>3 DEF Types
  <2>5. fails'[DirReport] = fails[DirReport]
    BY <1>5, <2>1, <2>2
  <2> QED BY <1>3, <1>4, <2>1, <2>4, <2>5
<1>10. ASSUME NEW f \in Targets, EndCompile(f) PROVE Goal
  <2>1. f \in Compiled /\ stale' = (stale \ {f}) \cup Dependents(f)
    BY <1>10, EndCompileEffect
  <2>2. \A g \in Compiled \cup Errs : f \notin Prereqs(g)
    BY <1>3, <1>5, <2>1 DEF Dependents
  <2> QED BY <1>5, <2>1, <2>2
<1>11. ASSUME NEW f \in Targets, EndTest(f) PROVE Goal
  <2>1. f \in Errs /\ status[f] = "running" /\ stale' = stale
    BY <1>11 DEF EndTest, Reap
  <2>2. goal # "none"
    BY <1>5, <2>1 DEF Order, Wanted
  <2> QED BY <1>3, <2>1, <2>2 DEF SessionStep, InSession
<1>12. ASSUME NEW f \in Targets, EndReport(f) PROVE Goal
  <2>1. /\ f = Report /\ status' = [status EXCEPT ![f] = "settled"]
        /\ cut' = cut \ {f} /\ exists' = exists /\ stale' = stale /\ result' = result
        /\ fails'[DirReport] = fails[DirReport]
    BY <1>5, <1>12 DEF EndReport, Reap, Types
  <2>2. (\A e \in Errs : e \notin cut) /\ DirReport \notin cut /\ status[DirReport] # "running"
    BY <1>3, <1>5, <2>1 DEF Types
  <2> QED BY <1>3, <1>4, <2>1, <2>2
<1>13. ASSUME EndCleanErr PROVE Goal
  <2>1. /\ status' = [status EXCEPT ![CleanErr] = "settled"] /\ cut' = cut \ {CleanErr}
        /\ exists' = exists \ DynErrs /\ stale' = stale /\ result' = result /\ fails' = fails
    BY <1>13 DEF EndCleanErr, Reap
  <2>2. (\A e \in Errs : e \notin cut) /\ DirReport \notin cut /\ status[DirReport] # "running"
    BY <1>3, <1>5, <2>1 DEF Types
  <2> QED BY <1>3, <1>4, <2>1, <2>2
<1>14. ASSUME EndMake PROVE Goal
  BY <1>3, <1>4, <1>14 DEF EndMake, files
<1>15. ASSUME NEW g, NEW gone, Clean(g, gone) PROVE Goal
  <2>1. /\ exists' = exists \ gone /\ stale' = stale /\ cut' = cut /\ status' = status
        /\ result' = result
        /\ DirReport \notin gone => fails'[DirReport] = fails[DirReport]
    BY <1>5, <1>15 DEF Clean
  <2> QED BY <1>3, <1>4, <2>1
<1>16. ASSUME NEW t \in Tests, Edit(t) PROVE Goal
  BY <1>3, <1>5, <1>16 DEF Edit
<1>17. ASSUME KillMake PROVE Goal
  <2>1. /\ exists' = exists /\ stale' = stale /\ result' = result /\ fails' = fails
        /\ cut' = cut \cup (Running \cap Files)
    BY <1>17 DEF KillMake, files
  <2>2. status[DirReport] # "running"
    BY <1>3, <1>5, <2>1 DEF Running
  <2> QED BY <1>3, <1>4, <2>1, <2>2
<1>18. ASSUME UNCHANGED vars PROVE Goal
  BY <1>3, <1>4, <1>18 DEF vars, files
<1> QED BY <1>7, <1>8, <1>9, <1>10, <1>11, <1>12, <1>13, <1>14, <1>15, <1>16, <1>17, <1>18
        DEF Next, Work, Rest

LEMMA DirReportTellsStep ==
  ASSUME Types, Order, SessionStep, ErrsTell, DirReportTells, [Next]_vars
  PROVE  DirReportTells'
<1>1. setup' = setup
  BY DEF Next, Work, UpToDate, StartJob, EndCompile, EndTest, EndReport, EndCleanErr, EndMake,
         Reap, StartMake, Clean, Edit, KillMake, Rest, vars
<1>2. Errs' = Errs /\ Compiled' = Compiled /\ DirReport' = DirReport
  BY <1>1, Frame DEF DirReport
<1> SUFFICES ASSUME Current', NEW e \in Errs
             PROVE  result'[e] = "pass" \/ (result'[e] = "fail" /\ e \in fails'[DirReport])
  BY <1>2 DEF DirReportTells, Accounted, Current
<1>3. CASE ~EndReport(DirReport)
  <2>1. Current /\ result' = result /\ fails'[DirReport] = fails[DirReport]
    BY <1>3, Undisturbed
  <2> QED BY <2>1 DEF DirReportTells, Accounted, Current
<1>4. CASE EndReport(DirReport)
  <2>1. /\ e \in exists' /\ e \notin cut' /\ \A f \in Compiled \cup Errs : f \notin stale'
    BY <1>2 DEF Current, AllFresh
  <2>2. /\ Prereqs(DirReport) = Errs /\ DirReport \in Reports /\ DirReport \in Files
        /\ BinaryOf(e) \in Compiled /\ Obj(e[2]) \in Compiled /\ e # DirReport
    BY Graph DEF Types
  <2>3. /\ status[DirReport] = "running" /\ cut' = cut \ {DirReport} /\ exists' = exists
        /\ stale' = stale /\ result' = result
        /\ fails'[DirReport] = {g \in Errs : g \in exists /\ log[g] = "FAIL"}
    BY <1>4, <2>2 DEF EndReport, Reap, Types
  <2>4. status[e] # "running"
    BY <2>2, <2>3 DEF Order
  <2>5. Accounted(e, log[e] = "FAIL")
    BY <2>1, <2>2, <2>3, <2>4 DEF ErrsTell, Fresh
  <2> QED BY <2>1, <2>3, <2>5 DEF Accounted
<1> QED BY <1>3, <1>4

LEMMA ReportTellsStep ==
  ASSUME Types, Order, SessionStep, DirReportTells, ReportTells, [Next]_vars
  PROVE  ReportTells'
<1>1. setup' = setup
  BY DEF Next, Work, UpToDate, StartJob, EndCompile, EndTest, EndReport, EndCleanErr, EndMake,
         Reap, StartMake, Clean, Edit, KillMake, Rest, vars
<1>2. Errs' = Errs /\ Compiled' = Compiled /\ DirReport' = DirReport /\ Report' = Report
  BY <1>1, Frame DEF DirReport, Report
<1> SUFFICES ASSUME Current', NEW e \in Errs,
                    Report \in exists', Report \notin stale', Report \notin cut',
                    status'[Report] # "running"
             PROVE  result'[e] = "pass" \/ (result'[e] = "fail" /\ e \in fails'[Report])
  BY <1>2 DEF ReportTells, Accounted, Current, Fresh
<1>3. /\ Reports = {DirReport, Report} /\ DirReport # Report
      /\ Prereqs(Report) = {DirReport} /\ Report \in Files /\ DirReport \in Files
      /\ Files \subseteq Targets /\ CleanErr \notin Files
      /\ Report \notin Errs /\ Report \notin Compiled
      /\ \A f \in Compiled : f \notin Errs /\ f \notin Reports
  BY Graph DEF Types
<1>4. ~EndReport(DirReport)
  <2> SUFFICES ASSUME EndReport(DirReport) PROVE FALSE
    OBVIOUS
  <2>1. status[DirReport] = "running" /\ stale' = stale
    BY DEF EndReport, Reap
  <2>2. goal # "none"
    BY <1>3, <2>1 DEF Order, Wanted
  <2> QED BY <2>1, <2>2 DEF SessionStep, InSession
<1>5. Current /\ result' = result /\ fails'[DirReport] = fails[DirReport]
  BY <1>4, Undisturbed
<1> DEFINE Goal == result'[e] = "pass" \/ (result'[e] = "fail" /\ e \in fails'[Report])
<1>6. ASSUME Report \in exists, Report \notin stale, Report \notin cut,
             status[Report] # "running", fails'[Report] = fails[Report]
      PROVE  Goal
  BY <1>5, <1>6 DEF ReportTells, Current, Fresh, Accounted
<1>7. ASSUME NEW g, StartMake(g) PROVE Goal
  <2>1. status[Report] # "running"
    BY <1>3, <1>7 DEF StartMake, Order, Wanted
  <2> QED BY <1>6, <1>7, <2>1 DEF StartMake, files
<1>8. ASSUME NEW f \in Targets, UpToDate(f) PROVE Goal
  <2>1. status[Report] # "running"
    BY <1>3, <1>8 DEF UpToDate, Ready, Types
  <2> QED BY <1>6, <1>8, <2>1 DEF UpToDate, files
<1>9. ASSUME NEW f \in Targets, StartJob(f) PROVE Goal
  <2>1. /\ status' = [status EXCEPT ![f] = "running"]
        /\ f \in Errs \cup Reports =>
             exists' = exists \cup {f} /\ stale' = (stale \ {f}) \cup Dependents(f)
        /\ f \notin Errs \cup Reports => exists' = exists /\ stale' = stale
        /\ \A r \in Reports \ {f} : fails'[r] = fails[r]
        /\ cut' = cut
    BY <1>9, StartJobEffect
  <2>2. f # Report
    BY <1>3, <2>1 DEF Types
  <2>3. Report \in exists /\ Report \notin stale /\ Report \notin cut /\ status[Report] # "running"
    BY <1>3, <2>1, <2>2 DEF Types
  <2> QED BY <1>3, <1>6, <2>1, <2>2, <2>3
<1>10. ASSUME NEW f \in Targets, EndCompile(f) PROVE Goal
  <2>1. /\ f \in Compiled /\ status' = [status EXCEPT ![f] = "settled"] /\ cut' = cut \ {f}
        /\ exists' = exists \cup {f} \/ exists' = exists \ {f}
        /\ stale' = (stale \ {f}) \cup Dependents(f) /\ fails' = fails
    BY <1>10, EndCompileEffect
  <2>2. Report \in exists /\ Report \notin stale /\ Report \notin cut /\ status[Report] # "running"
    BY <1>3, <2>1 DEF Types
  <2> QED BY <1>6, <2>1, <2>2
<1>11. ASSUME NEW f \in Targets, EndTest(f) PROVE Goal
  <2>1. /\ f \in Errs /\ status' = [status EXCEPT ![f] = "settled"] /\ cut' = cut \ {f}
        /\ exists' = exists /\ stale' = stale /\ fails' = fails
    BY <1>11 DEF EndTest, Reap
  <2>2. Report \notin cut /\ status[Report] # "running"
    BY <1>3, <2>1 DEF Types
  <2> QED BY <1>6, <2>1, <2>2
<1>12. ASSUME NEW f \in Targets, EndReport(f) PROVE Goal
  <2>1. f = Report
    BY <1>3, <1>4, <1>12 DEF EndReport
  <2>2. fails'[Report] = fails[DirReport]
    BY <1>3, <1>12, <2>1 DEF EndReport, Types
  <2> QED BY <1>5, <2>2 DEF DirReportTells, Current, Accounted
<1>13. ASSUME EndCleanErr PROVE Goal
  <2>1. /\ status' = [status EXCEPT ![CleanErr] = "settled"] /\ cut' = cut \ {CleanErr}
        /\ exists' = exists \ DynErrs /\ stale' = stale /\ fails' = fails
    BY <1>13 DEF EndCleanErr, Reap
  <2>2. Report \notin cut /\ status[Report] # "running"
    BY <1>3, <2>1 DEF Types
  <2> QED BY <1>6, <2>1, <2>2
<1>14. ASSUME EndMake PROVE Goal
  BY <1>6, <1>14 DEF EndMake, files
<1>15. ASSUME NEW g, NEW gone, Clean(g, gone) PROVE Goal
  <2>1. Report \in exists /\ (Report \notin gone => fails'[Report] = fails[Report]) /\ Report \notin gone
    BY <1>3, <1>15 DEF Clean
  <2> QED BY <1>6, <1>15, <2>1 DEF Clean
<1>16. ASSUME NEW t \in Tests, Edit(t) PROVE Goal
  BY <1>6, <1>16 DEF Edit
<1>17. ASSUME KillMake PROVE Goal
  <2>1. Report \notin cut /\ status[Report] # "running"
    BY <1>3, <1>17 DEF KillMake, Running
  <2> QED BY <1>6, <1>17, <2>1 DEF KillMake, files
<1>18. ASSUME UNCHANGED vars PROVE Goal
  BY <1>6, <1>18 DEF vars, files
<1> QED BY <1>7, <1>8, <1>9, <1>10, <1>11, <1>12, <1>13, <1>14, <1>15, <1>16, <1>17, <1>18
        DEF Next, Work, Rest

-----------------------------------------------------------------------------
(* The verdict. *)

CleanStep == goal \in {"all", "run"} => CleansLate

\* With one job cleanerr comes after REPORT, and without `run' it never comes.
LEMMA CleansLateStep ==
  ASSUME Types, Order, "run" \in setup.goals => setup.jobs = 1, CleanStep, [Next]_vars
  PROVE  CleanStep'
<1>1. setup \in Setups /\ (setup' = setup => Errs' = Errs)
  BY Frame DEF Types
<1>2. /\ Files = Compiled \cup Errs \cup Reports /\ Reports = {DirReport, Report}
      /\ CleanErr \notin Files /\ Targets = Files \cup {CleanErr}
      /\ \A f \in Compiled : f \notin Errs /\ f \notin Reports
      /\ \A e \in Errs : e \notin Reports
  BY <1>1, Graph
<1>3. CleanErr' = CleanErr /\ Report' = Report
  BY DEF CleanErr, Report
<1>4. ASSUME goal' \notin {"all", "run"} PROVE CleanStep'
  BY <1>4 DEF CleanStep
<1>5. ASSUME NEW g, StartMake(g) PROVE CleanStep'
  <2>1. \A f \in Targets : status'[f] = "idle"
    BY <1>5 DEF StartMake
  <2> QED BY <1>1, <1>2, <1>3, <1>5, <2>1 DEF CleanStep, CleansLate, StartMake
<1>6. ASSUME NEW f \in Targets, UpToDate(f), goal \in {"all", "run"} PROVE CleansLate'
  <2>1. status' = [status EXCEPT ![f] = "settled"] /\ f \in exists /\ exists' = exists
        /\ setup' = setup
    BY <1>6 DEF UpToDate, MustRemake, files
  <2>2. f # CleanErr
    BY <1>2, <2>1 DEF Types
  <2> QED BY <1>1, <1>2, <1>3, <1>6, <2>1, <2>2 DEF CleanStep, CleansLate, Types
<1>7. ASSUME NEW f \in Targets, StartJob(f), goal \in {"all", "run"} PROVE CleansLate'
  <2>1. /\ status[f] = "idle" /\ status' = [status EXCEPT ![f] = "running"]
        /\ f \in Errs => exists' = exists \cup {f}
        /\ exists \subseteq exists' /\ setup' = setup
    BY <1>7, StartJobEffect
  <2>2. CASE f = CleanErr
    <3>1. goal = "run"
      BY <1>2, <1>7, <2>2 DEF StartJob, Ready, Wanted
    <3>2. status[Report] = "settled"
      BY <1>7, <2>2, <3>1 DEF StartJob, InTurn, Settled, Types, Jobs
    <3> QED BY <1>2, <1>3, <2>1, <2>2, <3>2 DEF CleansLate, Types
  <2>3. CASE f # CleanErr
    BY <1>1, <1>2, <1>3, <1>7, <2>1, <2>3 DEF CleanStep, CleansLate, Types
  <2> QED BY <2>2, <2>3
<1>8. ASSUME NEW f \in Targets, EndCompile(f), goal \in {"all", "run"} PROVE CleansLate'
  <2>1. /\ f \in Compiled /\ status' = [status EXCEPT ![f] = "settled"]
        /\ exists' = exists \cup {f} \/ exists' = exists \ {f}
        /\ setup' = setup
    BY <1>8, EndCompileEffect
  <2> QED BY <1>1, <1>2, <1>3, <1>8, <2>1 DEF CleanStep, CleansLate, Types
<1>9. ASSUME NEW f \in Targets, EndTest(f) \/ EndReport(f), goal \in {"all", "run"}
      PROVE  CleansLate'
  <2>1. /\ f \in Errs \cup Reports /\ status[f] = "running"
        /\ status' = [status EXCEPT ![f] = "settled"]
        /\ exists' = exists /\ setup' = setup
    BY <1>9 DEF EndTest, EndReport, Reap
  <2> QED BY <1>1, <1>2, <1>3, <1>9, <2>1 DEF CleanStep, CleansLate, Types
<1>10. ASSUME EndCleanErr, goal \in {"all", "run"} PROVE CleansLate'
  <2>1. status[CleanErr] = "running" /\ status' = [status EXCEPT ![CleanErr] = "settled"]
    BY <1>10 DEF EndCleanErr, Reap
  <2> QED BY <1>2, <1>3, <1>10, <2>1 DEF CleanStep, CleansLate, Types
<1>11. CASE EndMake \/ KillMake
  BY <1>4, <1>11 DEF EndMake, KillMake
<1>12. ASSUME NEW g, NEW gone, Clean(g, gone) PROVE CleanStep'
  BY <1>4, <1>12 DEF Clean
<1>13. ASSUME NEW t, Edit(t) PROVE CleanStep'
  BY <1>4, <1>13 DEF Edit
<1>14. CASE UNCHANGED vars
  BY <1>1, <1>3, <1>14 DEF vars, files, CleanStep, CleansLate
<1>15. ASSUME Work, goal \notin {"all", "run"} PROVE CleanStep'
  <2>1. goal' = goal \/ goal' = "none"
    BY <1>15 DEF Work, UpToDate, StartJob, EndCompile, EndTest, EndReport, EndCleanErr, EndMake, Reap
  <2> QED BY <1>4, <1>15, <2>1
<1>16. ASSUME Work, goal \in {"all", "run"} PROVE CleanStep'
  BY <1>6, <1>7, <1>8, <1>9, <1>10, <1>11, <1>16 DEF Work, CleanStep
<1> QED BY <1>5, <1>11, <1>12, <1>13, <1>14, <1>15, <1>16 DEF Next, Rest

\* When REPORT is settled and nothing has been removed, all files are current.
LEMMA SettledIsCurrent ==
  ASSUME Types, Order, InSession, CleansLate, ReportTells,
         status[Report] = "settled", status[CleanErr] = "idle", cut = {}
  PROVE  \A e \in Errs : Accounted(e, e \in fails[Report])
<1> SUFFICES ASSUME NEW e \in Errs PROVE Accounted(e, e \in fails[Report])
  OBVIOUS
<1>1. /\ Files = Compiled \cup Errs \cup Reports /\ Reports = {DirReport, Report}
      /\ Prereqs(DirReport) = Errs /\ Prereqs(Report) = {DirReport}
      /\ RunTest \in Compiled
      /\ \A g \in Errs : RunTest \in Prereqs(g)
      /\ \A f \in Compiled \ {RunTest} :
           \/ \E g \in Errs : f \in Prereqs(g)
           \/ \E g \in Compiled : f \in Prereqs(g) /\ \E h \in Errs : g \in Prereqs(h)
  BY Graph DEF Types
<1>2. status[DirReport] = "settled"
  BY <1>1 DEF Order
<1>3. \A g \in Errs : status[g] = "settled"
  BY <1>1, <1>2 DEF Order
<1>4. \A g \in Errs : \A f \in Prereqs(g) : status[f] = "settled"
  BY <1>1, <1>3 DEF Order
<1>5. \A f \in Compiled : status[f] = "settled"
  <2> SUFFICES ASSUME NEW f \in Compiled PROVE status[f] = "settled"
    OBVIOUS
  <2>1. CASE \E g \in Errs : f \in Prereqs(g)
    BY <1>4, <2>1
  <2>2. CASE \E g \in Compiled : f \in Prereqs(g) /\ \E h \in Errs : g \in Prereqs(h)
    BY <1>1, <1>4, <2>2 DEF Order
  <2>3. CASE f = RunTest
    BY <1>1, <1>4, <2>3
  <2> QED BY <1>1, <2>1, <2>2, <2>3
<1>6. \A f \in Files : f \notin stale /\ status[f] # "running"
  BY <1>1, <1>2, <1>3, <1>5 DEF InSession
<1>7. (\A r \in Reports : r \in exists) /\ \A g \in Errs : g \in exists
  BY <1>1, <1>2, <1>3 DEF InSession, CleansLate
<1>8. AllFresh /\ Fresh(DirReport) /\ Fresh(Report)
  BY <1>1, <1>6, <1>7 DEF AllFresh, Fresh
<1> QED BY <1>8 DEF ReportTells

StandsStep == goal \in {"all", "run"} => VerdictStands

\* REPORT is settled when cleanerr starts, and stands from then on.
LEMMA VerdictStandsStep ==
  ASSUME Types, Order, "run" \in setup.goals => setup.jobs = 1,
         SessionStep, CleanStep, ReportTells, StandsStep, [Next]_vars
  PROVE  StandsStep'
<1>1. setup' = setup
  BY DEF Next, Work, UpToDate, StartJob, EndCompile, EndTest, EndReport, EndCleanErr, EndMake,
         Reap, StartMake, Clean, Edit, KillMake, Rest, vars
<1>2. Errs' = Errs /\ CleanErr' = CleanErr /\ Report' = Report
  BY <1>1, Frame DEF CleanErr, Report
<1>3. /\ Files = Compiled \cup Errs \cup Reports /\ CleanErr \notin Files
      /\ Targets = Files \cup {CleanErr} /\ Report \in Reports
      /\ RunTest \in Compiled
      /\ Reports = {DirReport, Report}
      /\ Prereqs(DirReport) = Errs /\ Prereqs(Report) = {DirReport}
  BY Graph DEF Types
<1> SUFFICES ASSUME goal' \in {"all", "run"}, status'[CleanErr] # "idle", cut' = {}, NEW e \in Errs
             PROVE  result'[e] = "pass" \/ (result'[e] = "fail" /\ e \in fails'[Report])
  BY <1>2 DEF StandsStep, VerdictStands, Accounted
<1> DEFINE Goal == result'[e] = "pass" \/ (result'[e] = "fail" /\ e \in fails'[Report])
<1>4. ASSUME goal \in {"all", "run"}, status[CleanErr] # "idle", cut = {},
             result' = result, fails' = fails
      PROVE  Goal
  BY <1>4 DEF StandsStep, VerdictStands, Accounted
<1>5. ASSUME NEW g, StartMake(g) PROVE Goal
  BY <1>3, <1>5 DEF StartMake
<1>6. ASSUME NEW f \in Targets, UpToDate(f) PROVE Goal
  <2>1. f # CleanErr
    BY <1>3, <1>6 DEF UpToDate, MustRemake, Types
  <2> QED BY <1>3, <1>4, <1>6, <2>1 DEF UpToDate, files, Types
\* Without e nothing needs runtest.exe, so that it may still be running then.
<1>7. ASSUME goal \in {"all", "run"}, status[CleanErr] # "idle", NEW f \in Files, status[f] # "settled"
      PROVE  FALSE
  <2>1. status[Report] = "settled"
    BY <1>7 DEF CleanStep, CleansLate
  <2>2. status[DirReport] = "settled"
    BY <1>3, <2>1 DEF Order
  <2>3. \A g \in Errs : status[g] = "settled"
    BY <1>3, <2>2 DEF Order
  <2>4. \A g \in Errs : \A q \in Prereqs(g) : status[q] = "settled"
    BY <1>3, <2>3 DEF Order
  <2>5. f \in Compiled
    BY <1>3, <1>7, <2>1, <2>2, <2>3
  <2>6. /\ RunTest \in Prereqs(e)
        /\ f # RunTest => \/ \E g \in Errs : f \in Prereqs(g)
                          \/ \E g \in Compiled : f \in Prereqs(g) /\ \E h \in Errs : g \in Prereqs(h)
    BY <2>5, Graph DEF Types
  <2> QED BY <1>3, <1>7, <2>4, <2>6 DEF Order
<1>8. ASSUME NEW f \in Targets, StartJob(f) PROVE Goal
  <2>1. /\ status[f] = "idle" /\ status' = [status EXCEPT ![f] = "running"]
        /\ \A r \in Reports \ {f} : fails'[r] = fails[r]
        /\ result' = result /\ goal' = goal /\ cut' = cut
    BY <1>8, StartJobEffect
  <2>2. CASE f = CleanErr
    <3>1. status[CleanErr] = "idle" /\ cut = {} /\ goal \in {"all", "run"}
      BY <2>1, <2>2
    <3>2. status[Report] = "settled"
      <4>1. CleansLate'
        BY <1>8, <2>1, CleansLateStep DEF CleanStep
      <4> QED BY <1>2, <1>3, <2>1, <2>2, <4>1 DEF CleansLate, Types
    <3>3. Accounted(e, e \in fails[Report])
      BY <3>1, <3>2, SettledIsCurrent DEF SessionStep, CleanStep
    <3>4. fails'[Report] = fails[Report]
      BY <1>3, <2>1, <2>2
    <3> QED BY <2>1, <3>3, <3>4 DEF Accounted
  <2>3. CASE f # CleanErr
    BY <1>3, <1>7, <2>1, <2>3 DEF Types
  <2> QED BY <2>2, <2>3
<1>9. ASSUME NEW f \in Targets, EndCompile(f) \/ EndTest(f) \/ EndReport(f) PROVE Goal
  <2>1. /\ f \in Files /\ status[f] = "running" /\ goal' = goal
        /\ status' = [status EXCEPT ![f] = "settled"]
    BY <1>3, <1>9 DEF EndCompile, EndTest, EndReport, Reap
  <2> QED BY <1>3, <1>7, <2>1 DEF Types
<1>10. ASSUME EndCleanErr PROVE Goal
  <2>1. /\ status[CleanErr] = "running" /\ cut' = cut \ {CleanErr} /\ goal' = goal
        /\ result' = result /\ fails' = fails
    BY <1>10 DEF EndCleanErr, Reap
  <2>2. cut = {}
    BY <1>3, <2>1 DEF Types
  <2> QED BY <1>4, <2>1, <2>2
<1>11. CASE EndMake \/ KillMake
  BY <1>11 DEF EndMake, KillMake
<1>12. ASSUME NEW g, NEW gone, Clean(g, gone) PROVE Goal
  BY <1>12 DEF Clean
<1>13. ASSUME NEW t, Edit(t) PROVE Goal
  BY <1>13 DEF Edit
<1>14. CASE UNCHANGED vars
  BY <1>4, <1>14 DEF vars, files
<1> QED BY <1>5, <1>6, <1>8, <1>9, <1>10, <1>11, <1>12, <1>13, <1>14 DEF Next, Work, Rest

\* make says PASS or FAIL of what REPORT holds.
LEMMA VerdictIsRealStep ==
  ASSUME Types, Order, SessionStep, CleanStep, ReportTells, StandsStep, VerdictIsReal, [Next]_vars
  PROVE  VerdictIsReal'
<1>1. setup' = setup
  BY DEF Next, Work, UpToDate, StartJob, EndCompile, EndTest, EndReport, EndCleanErr, EndMake,
         Reap, StartMake, Clean, Edit, KillMake, Rest, vars
<1>2. Errs' = Errs /\ Report' = Report
  BY <1>1, Frame DEF Report
<1>3. ASSUME verdict' = "none" PROVE VerdictIsReal'
  BY <1>3 DEF VerdictIsReal
<1>4. CASE EndMake
  <2>1. /\ goal # "none" /\ goal' = "none" /\ cut' = cut /\ result' = result
        /\ verdict' = IF goal = "dirrun" THEN "end"
                      ELSE IF fails[Report] = {} THEN "PASS" ELSE "FAIL"
        /\ \A f \in Wanted : status[f] = "settled"
    BY <1>4 DEF EndMake, Settled
  <2>2. CASE goal = "dirrun"
    BY <2>1, <2>2 DEF VerdictIsReal
  <2>3. CASE goal # "dirrun"
    <3>1. goal \in {"all", "run"}
      BY <2>1, <2>3 DEF Types
    <3>2. status[Report] = "settled"
      BY <2>1, <3>1, Graph DEF Types, Wanted
    <3>3. ASSUME cut = {} PROVE \A e \in Errs : Accounted(e, e \in fails[Report])
      <4>1. CASE status[CleanErr] = "idle"
        BY <2>1, <3>1, <3>2, <3>3, <4>1, SettledIsCurrent DEF SessionStep, CleanStep
      <4>2. CASE status[CleanErr] # "idle"
        BY <3>1, <3>3, <4>2 DEF StandsStep, VerdictStands
      <4> QED BY <4>1, <4>2
    <3> QED BY <1>2, <2>1, <2>3, <3>3 DEF VerdictIsReal, Accounted
  <2> QED BY <2>2, <2>3
<1>5. ASSUME Work, ~EndMake PROVE VerdictIsReal'
  <2>1. verdict' = verdict
    BY <1>5 DEF Work, UpToDate, StartJob, EndCompile, EndTest, EndReport, EndCleanErr, Reap
  <2>2. goal # "none"
    <3>1. ASSUME NEW f \in Targets, Reap(f) PROVE goal # "none"
      BY <3>1 DEF Reap, Order, Wanted
    <3>2. ASSUME NEW f \in Targets, Ready(f) PROVE goal # "none"
      BY <3>2 DEF Ready, Wanted
    <3>3. CleanErr \in Targets
      BY Graph DEF Types
    <3> QED BY <1>5, <3>1, <3>2, <3>3
            DEF Work, UpToDate, StartJob, EndCompile, EndTest, EndReport, EndCleanErr
  <2> QED BY <1>3, <2>1, <2>2 DEF VerdictIsReal
<1>6. ASSUME NEW g, StartMake(g) PROVE VerdictIsReal'
  BY <1>3, <1>6 DEF StartMake
<1>7. ASSUME NEW g, NEW gone, Clean(g, gone) PROVE VerdictIsReal'
  BY <1>3, <1>7 DEF Clean
<1>8. ASSUME NEW t, Edit(t) PROVE VerdictIsReal'
  BY <1>3, <1>8 DEF Edit
<1>9. CASE KillMake
  BY <1>3, <1>9 DEF KillMake, VerdictIsReal
<1>10. CASE UNCHANGED vars
  BY <1>2, <1>10 DEF vars, files, VerdictIsReal
<1> QED BY <1>4, <1>5, <1>6, <1>7, <1>8, <1>9, <1>10 DEF Next, Rest

LEMMA InitIInv == Orderly /\ Init => IInv
<1> SUFFICES ASSUME Orderly, Init PROVE IInv
  OBVIOUS
<1>1. Types
  BY InitTypes
<1>2. Files \subseteq Targets /\ DirReport \in Reports /\ Errs \subseteq Files
  BY <1>1, Graph DEF Types
<1>3. Order
  BY <1>2 DEF Init, Order
<1> QED BY <1>1, <1>2, <1>3
        DEF Init, Orderly, IInv, ErrsTell, DirReportTells, ReportTells, Fresh, VerdictIsReal

LEMMA NextIInv == IInv /\ [Next]_vars => IInv'
<1> SUFFICES ASSUME IInv, [Next]_vars PROVE IInv'
  OBVIOUS
<1>1. setup' = setup
  BY DEF Next, Work, UpToDate, StartJob, EndCompile, EndTest, EndReport, EndCleanErr, EndMake,
         Reap, StartMake, Clean, Edit, KillMake, Rest, vars
<1>2. Types' /\ Order'
  BY TypesStep, OrderStep DEF IInv
<1>3. SessionStep /\ CleanStep /\ StandsStep
  BY DEF IInv, SessionStep, CleanStep, StandsStep
<1>4. SessionStep' /\ CleanStep' /\ StandsStep'
  BY <1>3, InSessionStep, CleansLateStep, VerdictStandsStep DEF IInv
<1>5. ErrsTell' /\ DirReportTells' /\ ReportTells'
  BY <1>3, ErrsTellStep, DirReportTellsStep, ReportTellsStep DEF IInv
<1>6. VerdictIsReal'
  BY <1>3, VerdictIsRealStep DEF IInv
<1> QED BY <1>1, <1>2, <1>4, <1>5, <1>6 DEF IInv, SessionStep, CleanStep, StandsStep

LEMMA Invariance == Orderly /\ Spec => []IInv
BY InitIInv, NextIInv, PTL DEF Spec

\* PASS is real: every binary, as it is now, was run to its end and passed, for
\* any tests, jobs, sessions, edits and clean-ups, and after killed sessions
\* whose half-written files have been written again.
THEOREM PassIsRealHolds == Orderly /\ Spec => []PassIsReal
<1>1. IInv => PassIsReal
  BY DEF IInv, VerdictIsReal, PassIsReal
<1> QED BY <1>1, Invariance, PTL

\* A verdict is about every binary: no failure has kept another test from
\* being run.
THEOREM NoInterferenceHolds == Orderly /\ Spec => []NoInterference
<1>1. IInv => NoInterference
  BY DEF IInv, VerdictIsReal, NoInterference
<1> QED BY <1>1, Invariance, PTL
-----------------------------------------------------------------------------
(* <dir>/run reruns the tests. *)

\* With one job cleanerr comes first: until it is done nothing else is looked
\* at, and from then on an .err file that is there has been remade.
RerunsSoFar ==
  /\ verdict # "none" => goal = "none"
  /\ goal = "dirrun" /\ Jobs = 1 =>
       IF status[CleanErr] = "settled"
         THEN \A e \in DynErrs : /\ status[e] = "idle" => e \notin exists
                                 /\ status[e] = "settled" => e \in remade
         ELSE \A f \in Files : status[f] = "idle"

LEMMA RerunsStep == Types /\ RerunsSoFar /\ [Next]_vars => RerunsSoFar'
<1> SUFFICES ASSUME Types, RerunsSoFar, [Next]_vars PROVE RerunsSoFar'
  OBVIOUS
<1>1. setup \in Setups /\ CleanErr' = CleanErr
  BY DEF Types, CleanErr
<1>2. /\ CleanErr \notin Files /\ Targets = Files \cup {CleanErr} /\ DynErrs \subseteq Errs
      /\ Errs \subseteq Files /\ \A f \in Compiled : f \notin Errs
      /\ Reports \subseteq Files /\ \A r \in Reports : r \notin Errs
  BY <1>1, Graph
<1>3. setup' = setup => Jobs' = Jobs /\ Files' = Files /\ DynErrs' = DynErrs
  BY Frame DEF DynErrs
<1>4. ASSUME goal' = "none" PROVE RerunsSoFar'
  BY <1>4 DEF RerunsSoFar
<1>5. ASSUME NEW g, StartMake(g) PROVE RerunsSoFar'
  <2>1. \A f \in Targets : status'[f] = "idle"
    BY <1>5 DEF StartMake
  <2>2. setup' = setup /\ verdict' = "none"
    BY <1>5 DEF StartMake
  <2> QED BY <1>1, <1>2, <1>3, <2>1, <2>2 DEF RerunsSoFar
<1>6. ASSUME NEW f \in Targets, Ready(f), InTurn(f), goal = "dirrun", Jobs = 1
      PROVE  /\ status[f] = "idle"
             /\ f = CleanErr => \A g \in Files : status[g] = "idle"
             /\ f # CleanErr => status[CleanErr] = "settled" /\ f \in Files
  <2>1. status[f] = "idle" /\ Running = {}
    BY <1>6 DEF Ready, InTurn
  <2>2. f = CleanErr => \A g \in Files : status[g] = "idle"
    BY <1>6, <2>1 DEF RerunsSoFar
  <2>3. f # CleanErr => status[CleanErr] = "settled"
    BY <1>2, <1>6, <2>1 DEF InTurn, Running, Types
  <2> QED BY <1>2, <2>1, <2>2, <2>3
<1>7. ASSUME NEW f \in Targets, UpToDate(f) PROVE RerunsSoFar'
  <2>1. /\ status' = [status EXCEPT ![f] = "settled"] /\ f \in exists
        /\ exists' = exists /\ remade' = remade /\ goal' = goal /\ setup' = setup
        /\ verdict' = verdict
    BY <1>7 DEF UpToDate, MustRemake, files
  <2>2. f # CleanErr
    BY <1>2, <2>1 DEF Types
  <2>3. CASE goal = "dirrun" /\ Jobs = 1
    <3>1. status[CleanErr] = "settled" /\ status[f] = "idle" /\ f \notin DynErrs
      BY <1>6, <1>7, <2>1, <2>2, <2>3 DEF UpToDate, RerunsSoFar
    <3> QED BY <1>1, <1>2, <1>3, <2>1, <2>2, <2>3, <3>1 DEF RerunsSoFar, Types
  <2> QED BY <1>1, <1>3, <2>1, <2>3 DEF RerunsSoFar
<1>8. ASSUME NEW f \in Targets, StartJob(f) PROVE RerunsSoFar'
  <2>1. /\ status' = [status EXCEPT ![f] = "running"] /\ exists' \subseteq exists \cup {f}
        /\ remade' = remade /\ goal' = goal /\ setup' = setup /\ verdict' = verdict
    BY <1>8 DEF StartJob, Write
  <2>2. CASE goal = "dirrun" /\ Jobs = 1
    <3>1. /\ f = CleanErr => \A g \in Files : status[g] = "idle"
          /\ f # CleanErr => status[CleanErr] = "settled" /\ f \in Files
      BY <1>6, <1>8, <2>2 DEF StartJob
    <3>2. CASE f = CleanErr
      BY <1>1, <1>2, <1>3, <2>1, <2>2, <3>1, <3>2 DEF RerunsSoFar, Types
    <3>3. CASE f # CleanErr
      BY <1>1, <1>2, <1>3, <2>1, <2>2, <3>1, <3>3 DEF RerunsSoFar, Types
    <3> QED BY <3>2, <3>3
  <2> QED BY <1>1, <1>3, <2>1, <2>2 DEF RerunsSoFar
\* A recipe that ends was begun, so that cleanerr is the one or is done.
<1>9. ASSUME NEW f \in Files, Reap(f), exists' \cap DynErrs = exists \cap DynErrs
      PROVE  RerunsSoFar'
  <2>1. /\ status[f] = "running" /\ status' = [status EXCEPT ![f] = "settled"]
        /\ remade' = remade \cup {f} /\ goal' = goal /\ setup' = setup /\ verdict' = verdict
    BY <1>9 DEF Reap
  <2>2. f # CleanErr
    BY <1>2
  <2> QED BY <1>1, <1>2, <1>3, <1>9, <2>1, <2>2 DEF RerunsSoFar, Types
<1>10. ASSUME NEW f \in Targets, EndCompile(f) PROVE RerunsSoFar'
  <2>1. Reap(f) /\ f \in Compiled /\ (exists' = exists \cup {f} \/ exists' = exists \ {f})
    BY <1>10 DEF EndCompile, Write
  <2>2. f \notin DynErrs /\ f \in Files
    BY <1>2, <2>1 DEF Files
  <2> QED BY <1>9, <2>1, <2>2
<1>11. ASSUME NEW f \in Targets, EndTest(f) \/ EndReport(f) PROVE RerunsSoFar'
  <2>1. Reap(f) /\ f \in Errs \cup Reports /\ exists' = exists
    BY <1>11 DEF EndTest, EndReport
  <2> QED BY <1>2, <1>9, <2>1
<1>12. CASE EndCleanErr
  <2>1. /\ status[CleanErr] = "running" /\ status' = [status EXCEPT ![CleanErr] = "settled"]
        /\ exists' = exists \ DynErrs /\ goal' = goal /\ setup' = setup /\ verdict' = verdict
    BY <1>12 DEF EndCleanErr, Reap
  <2> QED BY <1>1, <1>2, <1>3, <2>1 DEF RerunsSoFar, Types
<1>13. CASE EndMake \/ KillMake
  BY <1>4, <1>13 DEF EndMake, KillMake
<1>14. ASSUME NEW g, NEW gone, Clean(g, gone) PROVE RerunsSoFar'
  BY <1>4, <1>14 DEF Clean
<1>15. ASSUME NEW t, Edit(t) PROVE RerunsSoFar'
  BY <1>4, <1>15 DEF Edit
<1>16. CASE UNCHANGED vars
  BY <1>1, <1>3, <1>16 DEF vars, files, RerunsSoFar
<1> QED BY <1>5, <1>7, <1>8, <1>10, <1>11, <1>12, <1>13, <1>14, <1>15, <1>16
        DEF Next, Work, Rest

\* `make <dir>/run' with one job remakes the result of every dynamic test, on
\* whatever files earlier sessions, kills, edits and clean-ups have left.
\* (`make run' does not: it looks at the .err files before it removes them.)
THEOREM RunRerunsHolds ==
  ASSUME \A s \in Setups : "run" \notin s.goals
  PROVE  Spec => RunReruns
<1>1. Init => RerunsSoFar
  BY DEF Init, RerunsSoFar
<1>2. ASSUME Types, RerunsSoFar, [Next]_vars, Jobs = 1, goal \in {"run", "dirrun"},
             goal' = "none", verdict' # "none"
      PROVE  DynErrs \subseteq remade
  <2>1. goal = "dirrun" /\ setup \in Setups /\ verdict = "none"
    BY <1>2 DEF Types, RerunsSoFar
  <2>2. EndMake
    BY <1>2, <2>1
       DEF Next, Work, UpToDate, StartJob, EndCompile, EndTest, EndReport, EndCleanErr, Reap,
           StartMake, Clean, Edit, KillMake, Rest, vars
  <2>3. \A f \in Targets \ {Report} : status[f] = "settled"
    BY <2>1, <2>2 DEF EndMake, Wanted, Settled
  <2>4. /\ CleanErr \in Targets /\ CleanErr # Report /\ DynErrs \subseteq Targets
        /\ Report \notin DynErrs
    BY <2>1, Graph
  <2>5. status[CleanErr] = "settled" /\ \A e \in DynErrs : status[e] = "settled"
    BY <2>3, <2>4
  <2> QED BY <1>2, <2>1, <2>5 DEF RerunsSoFar
<1> QED BY <1>1, <1>2, InitTypes, TypesStep, RerunsStep, PTL DEF Spec, RunReruns
=============================================================================
