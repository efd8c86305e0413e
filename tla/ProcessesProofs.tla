-------------------------- MODULE ProcessesProofs --------------------------
(***************************************************************************)
(* Proofs about Processes, for whatever programs the tests may be and      *)
(* however many threads there may be at a time: the types of its state,    *)
(* and that the tests that ProcessDiscipline calls tidy leave nothing.     *)
(***************************************************************************)
EXTENDS ProcessDiscipline, TLAPS, SequenceTheorems

-----------------------------------------------------------------------------
(* Types of threads, of memory and of calls. *)

LEMMA ThreadTyped ==
  ASSUME TypeOK, NEW a \in Actors
  PROVE  /\ th[a] \in Thread /\ mem[a] \in Memory
         /\ th[a].calls \in Seq(CallsOf(Programs[test]))
         /\ th[a].signals \in Seq({"count", "got", "fork"})
         /\ th[a].self \in Actors \cup {Nobody} /\ th[a].tsd \in Variables
         /\ th[a].code \in Int
<1>1. th[a] \in Thread /\ mem[a] \in Memory BY DEF TypeOK, ThreadsOK
<1> QED BY <1>1 DEF Thread

LEMMA NothingTyped == Nothing \in Thread /\ Nothing.state = "none"
<1>1. <<>> \in Seq(CallsOf(Programs[test])) /\ <<>> \in Seq({"count", "got", "fork"})
  OBVIOUS
<1> QED BY <1>1 DEF Nothing, Thread, Variables

LEMMA FreshTyped == Fresh \in Memory
<1> DEFINE v == [x \in Variables |-> IF x = "r" THEN Garbage ELSE 0]
<1>1. v \in [Variables -> Int] BY DEF Garbage
<1> HIDE DEF v
<1>2. Fresh = [status |-> 0, var |-> v, id |-> Failed, writes |-> FALSE, buffer |-> FALSE,
               atexit |-> "none"]
  BY DEF Fresh, v
<1> QED BY <1>1, <1>2 DEF Memory, Failed

\* Where a thread runs, its process lives and has a memory.
LEMMA RunnerLives ==
  ASSUME TypeOK, NEW a \in Actors, Runs(a)
  PROVE  /\ Me(a) \in Actors /\ Lives(Me(a)) /\ Mine(a) \in Memory
         /\ th[a].state = "running" /\ th[a].process = Me(a)
<1>1. th[a].state = "running" BY DEF Runs
<1>2. Me(a) \in Actors /\ Lives(Me(a)) BY <1>1 DEF TypeOK, FamiliesOK, Me
<1> QED BY <1>1, <1>2, ThreadTyped DEF Me, Mine

LEMMA NowNames ==
  ASSUME TypeOK, NEW a \in Actors, th[a].calls # <<>>
  PROVE  /\ Now(a) \in CallsOf(Programs[test]) /\ Names(Programs[test], Now(a))
         /\ Tail(th[a].calls) \in Seq(CallsOf(Programs[test]))
<1>1. th[a].calls \in Seq(CallsOf(Programs[test])) BY ThreadTyped
<1>2. Now(a) \in CallsOf(Programs[test]) /\ Tail(th[a].calls) \in Seq(CallsOf(Programs[test]))
  BY <1>1, HeadTailProperties DEF Now
<1>3. test \in Tests BY DEF TypeOK, FlagsOK
<1> QED BY <1>2, <1>3, ProgramsAssumption

LEMMA RoutineCalls ==
  ASSUME TypeOK, NEW r \in DOMAIN Programs[test]
  PROVE  Programs[test][r] \in Seq(CallsOf(Programs[test]))
<1>1. test \in Tests BY DEF TypeOK, FlagsOK
<1>2. Programs[test][r] \in Seq(CallsIn(Programs[test][r])) BY <1>1, ProgramsAssumption
<1>3. CallsIn(Programs[test][r]) \subseteq CallsOf(Programs[test]) BY DEF CallsOf
<1> QED BY <1>2, <1>3, SeqMonotonic

LEMMA MainRoutine == ASSUME TypeOK PROVE "main" \in DOMAIN Programs[test]
BY ProgramsAssumption DEF TypeOK, FlagsOK

\* What a call makes of the memory.
LEMMA JudgedTyped ==
  ASSUME NEW m \in Memory, NEW c, NEW r PROVE Judged(m, c, r) \in Memory
BY DEF Judged, Memory

LEMMA VarTyped ==
  ASSUME NEW m \in Memory, NEW x \in Variables, NEW v \in Int
  PROVE  [m EXCEPT !.var[x] = v] \in Memory /\ m.var[x] \in Int
<1> DEFINE f == [m.var EXCEPT ![x] = v]
<1>1. m.var \in [Variables -> Int] BY DEF Memory
<1>2. f \in [Variables -> Int] BY <1>1
<1>3. [m EXCEPT !.var[x] = v] = [m EXCEPT !.var = f] BY DEF Memory
<1> HIDE DEF f
<1>4. [m EXCEPT !.var = f] \in Memory BY <1>2 DEF Memory
<1> QED BY <1>1, <1>3, <1>4

-----------------------------------------------------------------------------
(* What is to be shown of the next state. *)

LivesOn(b) == th'[b].state = "running" /\ th'[b].process = b
FamilyOn(a) ==
  /\ th'[a].state = "none" => th'[a] = Nothing
  /\ th'[a].state \in {"running", "done"} => th'[a].process \in Actors /\ LivesOn(th'[a].process)
  /\ th'[a].state = "zombie" => th'[a].process = a /\ th'[a].parent # Nobody
  /\ th'[a].parent # Nobody =>
       th'[a].process = a /\ th'[a].parent # a /\ LivesOn(th'[a].parent)
  /\ ~LivesOn(a) => mem'[a] = Fresh

LEMMA FamiliesNext == ASSUME \A a \in Actors : FamilyOn(a) PROVE FamiliesOK'
BY DEF FamiliesOK, FamilyOn, Lives, LivesOn

LEMMA MainNext ==
  ASSUME result' \in {"none", "pass", "fail", "killed"}, main' = Nobody <=> result' # "none",
         main' # Nobody => main' \in Actors /\ LivesOn(main') /\ th'[main'].parent = Nobody,
         lock' # Nobody => lock' \in Actors /\ LivesOn(lock')
  PROVE  MainOK'
BY DEF MainOK, Lives, LivesOn

LEMMA ThreadsNext ==
  ASSUME test' = test, th' \in [Actors -> Thread], mem' \in [Actors -> Memory]
  PROVE  ThreadsOK'
<1>1. Thread' = Thread /\ Memory' = Memory BY DEF Thread, Memory
<1> QED BY <1>1 DEF ThreadsOK

\* What is known of this state.
LEMMA FamilyFacts ==
  ASSUME TypeOK, NEW a \in Actors
  PROVE  /\ th[a].state \in {"none", "running", "zombie", "done"}
         /\ th[a].process \in Actors \cup {Nobody} /\ th[a].parent \in Actors \cup {Nobody}
         /\ th[a].state = "none" => th[a] = Nothing
         /\ th[a].state \in {"running", "done"} => th[a].process \in Actors /\ Lives(th[a].process)
         /\ th[a].state = "zombie" => th[a].process = a /\ th[a].parent # Nobody
         /\ th[a].parent # Nobody =>
              th[a].process = a /\ th[a].parent # a /\ Lives(th[a].parent)
         /\ ~Lives(a) => mem[a] = Fresh
BY ThreadTyped DEF TypeOK, FamiliesOK, Thread

LEMMA MainFacts ==
  ASSUME TypeOK
  PROVE  /\ result \in {"none", "pass", "fail", "killed"} /\ (main = Nobody <=> result # "none")
         /\ main # Nobody => main \in Actors /\ Lives(main) /\ th[main].parent = Nobody
         /\ lock # Nobody => lock \in Actors /\ Lives(lock)
BY DEF TypeOK, MainOK

-----------------------------------------------------------------------------
(* Steps that change no family: the thread that acts goes on.              *)

\* Every process and thread stays what it is.
Steady ==
  \A b \in Actors :
    /\ th'[b].state = th[b].state /\ th'[b].process = th[b].process
    /\ th'[b].parent = th[b].parent
    /\ th[b].state = "none" => th'[b] = th[b]
    /\ ~Lives(b) => mem'[b] = mem[b]

LEMMA SteadyStep ==
  ASSUME TypeOK, th' \in [Actors -> Thread], mem' \in [Actors -> Memory], Steady,
         test' = test, UNCHANGED ending,
         lock' = lock \/ (lock' \in Actors /\ Lives(lock'))
  PROVE  ThreadsOK' /\ FamiliesOK' /\ MainOK'
<1>1. ThreadsOK' BY ThreadsNext
<1>2. \A b \in Actors : LivesOn(b) <=> Lives(b) BY DEF Steady, Lives, LivesOn
<1>3. ASSUME NEW a \in Actors PROVE FamilyOn(a)
  <2>1. /\ th'[a].state = th[a].state /\ th'[a].process = th[a].process
        /\ th'[a].parent = th[a].parent /\ (th[a].state = "none" => th'[a] = th[a])
        /\ (~Lives(a) => mem'[a] = mem[a])
    BY DEF Steady
  <2> QED BY <1>2, <2>1, FamilyFacts DEF FamilyOn
<1>4. MainOK'
  <2>1. main' = main /\ result' = result BY DEF ending
  <2>2. main' # Nobody => main' \in Actors /\ LivesOn(main') /\ th'[main'].parent = Nobody
    BY <1>2, <2>1, MainFacts DEF Steady
  <2>3. lock' # Nobody => lock' \in Actors /\ LivesOn(lock') BY <1>2, MainFacts
  <2> QED BY <2>1, <2>2, <2>3, MainFacts, MainNext
<1> QED BY <1>1, <1>3, <1>4, FamiliesNext

\* Thread a goes on as t, and leaves m as the memory of its process.
Acts(a) ==
  \E t \in Thread, m \in Memory :
    /\ t.state = th[a].state /\ t.process = th[a].process /\ t.parent = th[a].parent
    /\ th' = [th EXCEPT ![a] = t] /\ mem' = [mem EXCEPT ![Me(a)] = m]

LEMMA ActsStep ==
  ASSUME TypeOK, NEW a \in Actors, Runs(a), Acts(a)
  PROVE  th' \in [Actors -> Thread] /\ mem' \in [Actors -> Memory] /\ Steady
<1>1. PICK t \in Thread, m \in Memory :
        /\ t.state = th[a].state /\ t.process = th[a].process /\ t.parent = th[a].parent
        /\ th' = [th EXCEPT ![a] = t] /\ mem' = [mem EXCEPT ![Me(a)] = m]
  BY DEF Acts
<1>2. Me(a) \in Actors /\ Lives(Me(a)) /\ th[a].state = "running" BY RunnerLives
<1>3. th \in [Actors -> Thread] /\ mem \in [Actors -> Memory] BY DEF TypeOK, ThreadsOK
<1>4. th' \in [Actors -> Thread] /\ mem' \in [Actors -> Memory] BY <1>1, <1>3
<1>5. th'[a] = t /\ \A b \in Actors : b # a => th'[b] = th[b] BY <1>1, <1>3
<1>6. \A b \in Actors : ~Lives(b) => mem'[b] = mem[b] BY <1>1, <1>2, <1>3
<1>7. Steady BY <1>1, <1>2, <1>5, <1>6 DEF Steady
<1> QED BY <1>4, <1>7

\* The ways to go on.
LEMMA OnwardTyped ==
  ASSUME TypeOK, NEW a \in Actors, th[a].calls # <<>>
  PROVE  /\ Onward(a) \in Thread /\ Onward(a).state = th[a].state
         /\ Onward(a).process = th[a].process /\ Onward(a).parent = th[a].parent
         /\ Onward(a).calls = Tail(th[a].calls)
<1>1. th[a] \in Thread BY ThreadTyped
<1>2. Tail(th[a].calls) \in Seq(CallsOf(Programs[test])) BY NowNames
<1> QED BY <1>1, <1>2 DEF Onward, Thread

LEMMA AtFacts ==
  ASSUME NEW a, NEW op, At(a, op)
  PROVE  Runs(a) /\ th[a].signals = <<>> /\ th[a].calls # <<>> /\ Now(a).op = op
BY DEF At

LEMMA GoesActs ==
  ASSUME TypeOK, NEW a \in Actors, Runs(a), th[a].calls # <<>>, Goes(a),
         UNCHANGED mem \/ \E m \in Memory : Keeps(a, m)
  PROVE  Acts(a)
<1>1. Onward(a) \in Thread /\ Onward(a).state = th[a].state
      /\ Onward(a).process = th[a].process /\ Onward(a).parent = th[a].parent
  BY OnwardTyped
<1>2. Me(a) \in Actors /\ Mine(a) \in Memory BY RunnerLives
<1>3. \E m \in Memory : mem' = [mem EXCEPT ![Me(a)] = m]
  <2>1. CASE UNCHANGED mem
    <3>1. mem' = [mem EXCEPT ![Me(a)] = Mine(a)]
      BY <1>2, <2>1 DEF Mine, TypeOK, ThreadsOK
    <3> QED BY <1>2, <3>1
  <2>2. CASE \E m \in Memory : Keeps(a, m) BY <2>2 DEF Keeps
  <2> QED BY <2>1, <2>2
<1> QED BY <1>1, <1>3 DEF Acts, Goes

LEMMA ReturnsActs ==
  ASSUME TypeOK, NEW a \in Actors, Runs(a), th[a].calls # <<>>, NEW r, Returns(a, r)
  PROVE  Acts(a)
<1>1. Goes(a) /\ Keeps(a, Judged(Mine(a), Now(a), r)) BY DEF Returns, Judge
<1>2. Judged(Mine(a), Now(a), r) \in Memory BY RunnerLives, JudgedTyped
<1> QED BY <1>1, <1>2, GoesActs

LEMMA QuietType ==
  ASSUME TypeOK, NEW a \in Actors, Runs(a), Acts(a), test' = test, UNCHANGED ending,
         lock' = lock \/ (lock' \in Actors /\ Lives(lock')), ObjectsOK', FlagsOK'
  PROVE  TypeOK'
<1>1. th' \in [Actors -> Thread] /\ mem' \in [Actors -> Memory] /\ Steady BY ActsStep
<1> QED BY <1>1, SteadyStep DEF TypeOK

LEMMA SameObjects == ASSUME TypeOK, UNCHANGED objects PROVE ObjectsOK' /\ lock' = lock
BY DEF TypeOK, ObjectsOK, objects

LEMMA SameFlags == ASSUME TypeOK, UNCHANGED <<fixed, history>> PROVE FlagsOK' /\ test' = test
BY DEF TypeOK, FlagsOK, fixed, history

LEMMA QuietStep ==
  ASSUME TypeOK, NEW a \in Actors, Runs(a), Acts(a), UNCHANGED <<rest, objects>>
  PROVE  TypeOK'
BY QuietType, SameObjects, SameFlags DEF rest

\* A call that has a result and changes one object.
LEMMA ObjectStep ==
  ASSUME TypeOK, NEW a \in Actors, Runs(a), Acts(a), UNCHANGED rest, ObjectsOK',
         lock' = lock \/ (lock' \in Actors /\ Lives(lock'))
  PROVE  TypeOK'
BY QuietType, SameFlags DEF rest

LEMMA GoesOnType == ASSUME TypeOK, NEW a \in Actors, GoesOn(a) PROVE TypeOK'
<1>1. Runs(a) /\ th[a].calls # <<>> /\ Goes(a) BY AtFacts DEF GoesOn
<1>2. UNCHANGED mem /\ UNCHANGED <<rest, objects>> BY DEF GoesOn
<1> QED BY <1>1, <1>2, GoesActs, QuietStep

LEMMA AwaitsSignalsType == ASSUME TypeOK, NEW a \in Actors, AwaitsSignals(a) PROVE TypeOK'
<1>1. Runs(a) /\ th[a].calls # <<>> /\ Goes(a) BY AtFacts DEF AwaitsSignals
<1>2. UNCHANGED mem /\ UNCHANGED <<rest, objects>> BY DEF AwaitsSignals
<1> QED BY <1>1, <1>2, GoesActs, QuietStep

LEMMA LooksAtObjectType == ASSUME TypeOK, NEW a \in Actors, LooksAtObject(a) PROVE TypeOK'
<1>1. Runs(a) /\ th[a].calls # <<>> BY AtFacts DEF LooksAtObject
<1>2. \E r : Returns(a, r) BY DEF LooksAtObject
<1>3. UNCHANGED <<rest, objects>> BY DEF LooksAtObject
<1> QED BY <1>1, <1>2, <1>3, ReturnsActs, QuietStep

LEMMA ChecksVariableType == ASSUME TypeOK, NEW a \in Actors, ChecksVariable(a) PROVE TypeOK'
<1>1. Runs(a) /\ th[a].calls # <<>> BY AtFacts DEF ChecksVariable
<1>2. \E r : Returns(a, r) BY DEF ChecksVariable
<1>3. UNCHANGED <<rest, objects>> BY DEF ChecksVariable
<1> QED BY <1>1, <1>2, <1>3, ReturnsActs, QuietStep

LEMMA SetsVariableType == ASSUME TypeOK, NEW a \in Actors, SetsVariable(a) PROVE TypeOK'
<1>1. Runs(a) /\ th[a].calls # <<>> /\ Goes(a) BY AtFacts DEF SetsVariable
<1>2. UNCHANGED <<rest, objects>> BY DEF SetsVariable
<1>3. Mine(a) \in Memory BY <1>1, RunnerLives
<1>4. /\ [Mine(a) EXCEPT !.writes = TRUE] \in Memory
      /\ [Mine(a) EXCEPT !.writes = FALSE] \in Memory
      /\ [Mine(a) EXCEPT !.buffer = TRUE] \in Memory
  BY <1>3 DEF Memory
<1>5. At(a, "atexit") => [Mine(a) EXCEPT !.atexit = Now(a).obj] \in Memory
  <2> SUFFICES ASSUME At(a, "atexit") PROVE [Mine(a) EXCEPT !.atexit = Now(a).obj] \in Memory
    OBVIOUS
  <2>1. Now(a).obj \in DOMAIN Programs[test] BY NowNames, AtFacts DEF Names
  <2> QED BY <1>3, <2>1 DEF Memory
<1>6. \E m \in Memory : Keeps(a, m) BY <1>4, <1>5 DEF SetsVariable
<1> QED BY <1>1, <1>2, <1>6, GoesActs, QuietStep

LEMMA SetsSpecificType == ASSUME TypeOK, NEW a \in Actors, SetsSpecific(a) PROVE TypeOK'
<1>1. Runs(a) /\ th[a].calls # <<>> /\ Now(a).op = "setspecific" BY AtFacts DEF SetsSpecific
<1>2. UNCHANGED <<rest, objects>> /\ UNCHANGED mem BY DEF SetsSpecific
<1>3. Now(a).obj \in Variables BY <1>1, NowNames DEF Names
<1> DEFINE t == [Onward(a) EXCEPT !.tsd = Now(a).obj]
<1>4. t \in Thread /\ t.state = th[a].state /\ t.process = th[a].process
      /\ t.parent = th[a].parent
  BY <1>1, <1>3, OnwardTyped DEF Thread
<1>5. th' = [th EXCEPT ![a] = t] BY DEF SetsSpecific
<1> HIDE DEF t
<1>6. mem' = [mem EXCEPT ![Me(a)] = Mine(a)] /\ Mine(a) \in Memory
  BY <1>1, <1>2, RunnerLives DEF Mine, TypeOK, ThreadsOK
<1>7. Acts(a) BY <1>4, <1>5, <1>6 DEF Acts
<1> QED BY <1>1, <1>2, <1>7, QuietStep

\* A signal is taken from those that wait.
LEMMA HandledTyped ==
  ASSUME TypeOK, NEW a \in Actors, th[a].signals # <<>>
  PROVE  /\ Handled(a) \in Thread /\ Handled(a).state = th[a].state
         /\ Handled(a).process = th[a].process /\ Handled(a).parent = th[a].parent
         /\ Handled(a).calls = th[a].calls
         /\ Signal(a) \in {"count", "got", "fork"}
<1>1. th[a] \in Thread /\ th[a].signals \in Seq({"count", "got", "fork"}) BY ThreadTyped
<1>2. Tail(th[a].signals) \in Seq({"count", "got", "fork"})
      /\ Signal(a) \in {"count", "got", "fork"}
  BY <1>1, HeadTailProperties DEF Signal
<1> QED BY <1>1, <1>2 DEF Handled, Thread

LEMMA CountTyped ==
  ASSUME NEW m \in Memory
  PROVE  /\ [m EXCEPT !.var["got"] = 1] \in Memory
         /\ [m EXCEPT !.var["c0"] = @ + 1] \in Memory
         /\ [m EXCEPT !.var["c1"] = @ + 1] \in Memory
<1>1. {"got", "c0", "c1"} \subseteq Variables BY DEF Variables
<1>2. m.var["c0"] + 1 \in Int /\ m.var["c1"] + 1 \in Int
  <2>1. m.var \in [Variables -> Int] BY DEF Memory
  <2>2. m.var["c0"] \in Int /\ m.var["c1"] \in Int BY <1>1, <2>1
  <2> QED BY <2>2
<1>3. /\ [m EXCEPT !.var["c0"] = @ + 1] = [m EXCEPT !.var["c0"] = m.var["c0"] + 1]
      /\ [m EXCEPT !.var["c1"] = @ + 1] = [m EXCEPT !.var["c1"] = m.var["c1"] + 1]
  OBVIOUS
<1> QED BY <1>1, <1>2, <1>3, VarTyped

LEMMA HandlesSignalType == ASSUME TypeOK, NEW a \in Actors, HandlesSignal(a) PROVE TypeOK'
<1>1. Runs(a) /\ th[a].signals # <<>> /\ th' = [th EXCEPT ![a] = Handled(a)]
      /\ UNCHANGED <<rest, objects>>
  BY DEF HandlesSignal, SignalArrives
<1>2. Mine(a) \in Memory BY <1>1, RunnerLives
<1>3. \E m \in Memory : Keeps(a, m) BY <1>2, CountTyped DEF HandlesSignal
<1>4. Acts(a) BY <1>1, <1>3, HandledTyped DEF Acts, Keeps
<1> QED BY <1>1, <1>4, QuietStep

\* A signal is sent to a thread that runs.
LEMMA SentTyped ==
  ASSUME NEW f \in [Actors -> Thread], NEW b \in Actors, NEW sig \in {"count", "got", "fork"}
  PROVE  /\ Sent(f, b, sig) \in [Actors -> Thread]
         /\ \A c \in Actors : c # b => Sent(f, b, sig)[c] = f[c]
         /\ Sent(f, b, sig)[b].state = f[b].state
         /\ Sent(f, b, sig)[b].process = f[b].process
         /\ Sent(f, b, sig)[b].parent = f[b].parent
<1> DEFINE s == Append(f[b].signals, sig)
           t == [f[b] EXCEPT !.signals = s]
<1>1. f[b] \in Thread OBVIOUS
<1>2. s \in Seq({"count", "got", "fork"}) BY <1>1 DEF Thread
<1>3. t \in Thread /\ t.state = f[b].state /\ t.process = f[b].process /\ t.parent = f[b].parent
  BY <1>1, <1>2 DEF Thread
<1>4. Sent(f, b, sig) = [f EXCEPT ![b] = t] BY DEF Sent
<1> QED BY <1>3, <1>4

LEMMA SentSteady ==
  ASSUME TypeOK, NEW a \in Actors, Runs(a), NEW t \in Thread, t.state = th[a].state,
         t.process = th[a].process, t.parent = th[a].parent,
         NEW b \in Actors, th[b].state # "none", NEW sig \in {"count", "got", "fork"},
         th' = Sent([th EXCEPT ![a] = t], b, sig), UNCHANGED mem
  PROVE  th' \in [Actors -> Thread] /\ mem' \in [Actors -> Memory] /\ Steady
<1> DEFINE f == [th EXCEPT ![a] = t]
<1>1. th \in [Actors -> Thread] /\ mem \in [Actors -> Memory] BY DEF TypeOK, ThreadsOK
<1>2. f \in [Actors -> Thread] /\ f[a] = t /\ \A c \in Actors : c # a => f[c] = th[c]
  BY <1>1
<1>3. th' = Sent(f, b, sig) OBVIOUS
<1> HIDE DEF f
<1>4. /\ th' \in [Actors -> Thread] /\ \A c \in Actors : c # b => th'[c] = f[c]
      /\ th'[b].state = f[b].state /\ th'[b].process = f[b].process
      /\ th'[b].parent = f[b].parent
  <2>1. /\ Sent(f, b, sig) \in [Actors -> Thread]
        /\ \A c \in Actors : c # b => Sent(f, b, sig)[c] = f[c]
        /\ Sent(f, b, sig)[b].state = f[b].state
        /\ Sent(f, b, sig)[b].process = f[b].process
        /\ Sent(f, b, sig)[b].parent = f[b].parent
    BY <1>2, SentTyped
  <2> QED BY <1>3, <2>1
<1>5. ASSUME NEW c \in Actors
      PROVE  /\ th'[c].state = th[c].state /\ th'[c].process = th[c].process
             /\ th'[c].parent = th[c].parent
             /\ th[c].state = "none" => th'[c] = th[c]
  <2>1. f[c].state = th[c].state /\ f[c].process = th[c].process /\ f[c].parent = th[c].parent
    BY <1>2
  <2>2. th[a].state # "none" BY RunnerLives
  <2>3. th[c].state = "none" => c # a /\ c # b BY <2>2
  <2>4. th[c].state = "none" => th'[c] = th[c] BY <1>2, <1>4, <2>3
  <2>5. /\ th'[c].state = f[c].state /\ th'[c].process = f[c].process
        /\ th'[c].parent = f[c].parent
    BY <1>4
  <2> QED BY <2>1, <2>4, <2>5
<1>6. Steady BY <1>5 DEF Steady
<1> QED BY <1>1, <1>4, <1>6

LEMMA KillsType == ASSUME TypeOK, NEW a \in Actors, Kills(a) PROVE TypeOK'
<1>1. Runs(a) /\ th[a].calls # <<>> /\ UNCHANGED <<rest, objects>> /\ UNCHANGED mem
  BY AtFacts DEF Kills
<1>2. CASE Goes(a) BY <1>1, <1>2, GoesActs, QuietStep
<1>3. CASE \E b \in Actors, sig \in {"got", "fork"} :
             th[b].state # "none" /\ th' = Sent([th EXCEPT ![a] = Onward(a)], b, sig)
  <2>1. PICK b \in Actors, sig \in {"got", "fork"} :
          th[b].state # "none" /\ th' = Sent([th EXCEPT ![a] = Onward(a)], b, sig)
    BY <1>3
  <2>2. th' \in [Actors -> Thread] /\ mem' \in [Actors -> Memory] /\ Steady
    BY <1>1, <2>1, OnwardTyped, SentSteady
  <2> QED BY <1>1, <2>2, SteadyStep, SameObjects, SameFlags DEF TypeOK, rest
<1>4. CASE At(a, "pthread_kill")
  <2>1. PICK b \in Peers(a) :
          th' = IF th[b].state = "running" THEN Sent([th EXCEPT ![a] = Onward(a)], b, "fork")
                ELSE [th EXCEPT ![a] = Onward(a)]
    BY <1>4 DEF Kills, At
  <2>2. b \in Actors BY DEF Peers
  <2> QED BY <1>2, <1>3, <2>1, <2>2 DEF Goes
<1>5. CASE At(a, "kill")
  <2> DEFINE b == th[a].parent
  <2>1. th' = IF b = Nobody THEN [th EXCEPT ![a] = Onward(a)]
              ELSE Sent([th EXCEPT ![a] = Onward(a)], b, "got")
    BY <1>5 DEF Kills, At
  <2>2. b # Nobody => b \in Actors /\ th[b].state # "none" BY FamilyFacts DEF Lives
  <2> HIDE DEF b
  <2> QED BY <1>2, <1>3, <2>1, <2>2 DEF Goes
<1> QED BY <1>4, <1>5 DEF Kills

LEMMA RaisesType == ASSUME TypeOK, NEW a \in Actors, Raises(a) PROVE TypeOK'
<1>1. Runs(a) /\ th[a].calls # <<>> /\ UNCHANGED <<fixed, ending, objects, orphaned>>
  BY AtFacts DEF Raises
<1>2. FlagsOK'
  <2>1. shown' \in BOOLEAN /\ counted' \in BOOLEAN
    BY DEF Raises, TypeOK, FlagsOK
  <2> QED BY <1>1, <2>1 DEF TypeOK, FlagsOK, fixed
<1>3. Steady /\ th' \in [Actors -> Thread] /\ mem' \in [Actors -> Memory]
  <2>1. CASE bug = "raise_not_atomic" /\ th[a].self = Nobody
    <3> DEFINE t == [th[a] EXCEPT !.self = a]
    <3>1. th' = [th EXCEPT ![a] = t] /\ UNCHANGED mem BY <2>1 DEF Raises, TypeOK, ThreadsOK
    <3>2. t \in Thread /\ t.state = th[a].state /\ t.process = th[a].process
          /\ t.parent = th[a].parent
      BY ThreadTyped DEF Thread
    <3> HIDE DEF t
    <3>3. mem' = [mem EXCEPT ![Me(a)] = Mine(a)] /\ Mine(a) \in Memory
      BY <1>1, <3>1, RunnerLives DEF Mine, TypeOK, ThreadsOK
    <3>4. Acts(a) BY <3>1, <3>2, <3>3 DEF Acts
    <3> QED BY <1>1, <3>4, ActsStep
  <2>2. CASE ~(bug = "raise_not_atomic" /\ th[a].self = Nobody)
    <3> DEFINE b == IF bug = "raise_not_atomic" THEN th[a].self ELSE a
               t == [Onward(a) EXCEPT !.self = Nobody]
    <3>1. b \in Actors BY <2>2, ThreadTyped
    <3>2. t \in Thread /\ t.state = th[a].state /\ t.process = th[a].process
          /\ t.parent = th[a].parent
      BY <1>1, OnwardTyped DEF Thread
    <3>3. \/ Runs(b) /\ th' = Sent([th EXCEPT ![a] = t], b, "count") /\ UNCHANGED mem
          \/ th' = [th EXCEPT ![a] = t] /\ Judge(a, Failed)
      BY <2>2 DEF Raises
    <3> HIDE DEF b, t
    <3>4. CASE Runs(b) /\ th' = Sent([th EXCEPT ![a] = t], b, "count") /\ UNCHANGED mem
      <4>1. th[b].state # "none" BY <3>4 DEF Runs
      <4> QED BY <1>1, <3>1, <3>2, <3>4, <4>1, SentSteady
    <3>5. CASE th' = [th EXCEPT ![a] = t] /\ Judge(a, Failed)
      <4>1. Judged(Mine(a), Now(a), Failed) \in Memory BY <1>1, RunnerLives, JudgedTyped
      <4>2. Acts(a) BY <3>2, <3>5, <4>1 DEF Acts, Judge, Keeps
      <4> QED BY <1>1, <4>2, ActsStep
    <3> QED BY <3>3, <3>4, <3>5
  <2> QED BY <2>1, <2>2
<1> QED BY <1>1, <1>2, <1>3, SteadyStep, SameObjects DEF TypeOK, fixed

-----------------------------------------------------------------------------
(* Steps that change an object. *)

LEMMA IpcNext ==
  ASSUME TypeOK, ipc' \in [id : Nat, last : Nat, value : Nat], ipc'.id <= ipc'.last,
         UNCHANGED <<pipe, file>>
  PROVE  ObjectsOK'
BY DEF TypeOK, ObjectsOK

LEMMA IpcFacts ==
  ASSUME TypeOK
  PROVE  /\ ipc \in [id : Nat, last : Nat, value : Nat] /\ ipc.id <= ipc.last
         /\ ipc.id \in Nat /\ ipc.last \in Nat /\ ipc.value \in Nat
BY DEF TypeOK, ObjectsOK

LEMMA GetsObjectType == ASSUME TypeOK, NEW a \in Actors, GetsObject(a) PROVE TypeOK'
<1> DEFINE how == Now(a).obj
           refused == how \in {"exclusive", "probe"} /\ ipc.id # 0 /\ bug # "excl_ignored"
           r == IF refused THEN EEXIST ELSE IF how = "plain" /\ ipc.id = 0 THEN Failed ELSE 0
           m == Judged(Mine(a), Now(a), r)
           i == IF how = "probe" THEN m.id ELSE IF r = 0 THEN ipc'.id ELSE Failed
<1>1. Runs(a) /\ th[a].calls # <<>> /\ Goes(a) /\ UNCHANGED <<rest, lock, pipe, file>>
  BY AtFacts DEF GetsObject
<1>2. ipc' = (IF r = 0 /\ ipc.id = 0 THEN NewObject ELSE ipc)
      /\ Keeps(a, [m EXCEPT !.id = i])
  BY DEF GetsObject
<1>3. m \in Memory BY <1>1, RunnerLives, JudgedTyped
<1> HIDE DEF r, m
<1>4. NewObject \in [id : Nat, last : Nat, value : Nat] /\ NewObject.id <= NewObject.last
  BY IpcFacts DEF NewObject
<1>5. ipc' \in [id : Nat, last : Nat, value : Nat] /\ ipc'.id <= ipc'.last
  BY <1>2, <1>4, IpcFacts
<1>6. i \in Int BY <1>3, <1>5 DEF Memory, Failed
<1> HIDE DEF i
<1>7. [m EXCEPT !.id = i] \in Memory BY <1>3, <1>6 DEF Memory
<1> QED BY <1>1, <1>2, <1>5, <1>7, GoesActs, IpcNext, ObjectStep

LEMMA RemovesObjectType == ASSUME TypeOK, NEW a \in Actors, RemovesObject(a) PROVE TypeOK'
<1>1. Runs(a) /\ th[a].calls # <<>> /\ UNCHANGED <<rest, lock, pipe, file>>
  BY AtFacts DEF RemovesObject
<1>2. Acts(a) BY <1>1, ReturnsActs DEF RemovesObject
<1>3. ipc' = [ipc EXCEPT !.id = 0] \/ ipc' = ipc BY DEF RemovesObject
<1>4. ipc' \in [id : Nat, last : Nat, value : Nat] /\ ipc'.id <= ipc'.last
  BY <1>3, IpcFacts
<1> QED BY <1>1, <1>2, <1>4, IpcNext, ObjectStep

LEMMA PutsType == ASSUME TypeOK, NEW a \in Actors, Puts(a) PROVE TypeOK'
<1>1. Runs(a) /\ th[a].calls # <<>> /\ UNCHANGED <<rest, lock, pipe, file>>
  BY AtFacts DEF Puts
<1>2. Acts(a) BY <1>1, ReturnsActs DEF Puts
<1>3. ipc' = [ipc EXCEPT !.value = ipc.value + 1] \/ ipc' = ipc BY DEF Puts
<1>4. ipc' \in [id : Nat, last : Nat, value : Nat] /\ ipc'.id <= ipc'.last
  BY <1>3, IpcFacts
<1> QED BY <1>1, <1>2, <1>4, IpcNext, ObjectStep

\* Nothing is taken where there is nothing.
LEMMA TakesType == ASSUME TypeOK, NEW a \in Actors, Takes(a) PROVE TypeOK'
<1>1. Runs(a) /\ th[a].calls # <<>> /\ UNCHANGED <<rest, lock, pipe, file>>
  BY AtFacts DEF Takes
<1>2. (\E r : Returns(a, r))
      /\ (ipc' = ipc \/ (ipc.value > 0 /\ ipc' = [ipc EXCEPT !.value = ipc.value - 1]))
  <2>1. CASE ~Valid(a) BY <2>1 DEF Takes
  <2>2. CASE Valid(a) /\ ipc.value > 0 BY <2>2, IpcFacts DEF Takes
  <2>3. CASE Valid(a) /\ ipc.value = 0 BY <2>3, IpcFacts DEF Takes
  <2> QED BY <2>1, <2>2, <2>3, IpcFacts
<1>3. Acts(a) BY <1>1, <1>2, ReturnsActs
<1>4. ipc' \in [id : Nat, last : Nat, value : Nat] /\ ipc'.id <= ipc'.last
  BY <1>2, IpcFacts
<1> QED BY <1>1, <1>3, <1>4, IpcNext, ObjectStep

LEMMA SetsLockType == ASSUME TypeOK, NEW a \in Actors, SetsLock(a) PROVE TypeOK'
<1>1. Runs(a) /\ th[a].calls # <<>> /\ Goes(a) /\ UNCHANGED <<rest, mem, ipc, pipe, file>>
  BY AtFacts DEF SetsLock
<1>2. lock' \in Actors /\ Lives(lock') BY <1>1, RunnerLives DEF SetsLock
<1>3. ObjectsOK' BY <1>1 DEF TypeOK, ObjectsOK
<1> QED BY <1>1, <1>2, <1>3, GoesActs, ObjectStep

LEMMA WritesPipeType == ASSUME TypeOK, NEW a \in Actors, WritesPipe(a) PROVE TypeOK'
<1>1. /\ Runs(a) /\ th[a].calls # <<>> /\ Now(a).op = "write" /\ Goes(a)
      /\ UNCHANGED <<rest, mem, ipc, lock, file>>
  BY AtFacts DEF WritesPipe
<1>2. Now(a).obj \in Int /\ Mine(a).status \in Int
  BY <1>1, NowNames, RunnerLives DEF Names, Memory
<1> DEFINE v == IF Now(a).obj = Garbage THEN Mine(a).status ELSE Now(a).obj
<1>3. v \in Int BY <1>2
<1>4. pipe' = pipe \/ pipe' = Append(pipe, v) BY DEF WritesPipe
<1> HIDE DEF v
<1>5. pipe' \in Seq(Int)
  <2>1. pipe \in Seq(Int) BY DEF TypeOK, ObjectsOK
  <2>2. Append(pipe, v) \in Seq(Int) BY <1>3, <2>1
  <2> QED BY <1>4, <2>1, <2>2
<1>6. ObjectsOK' BY <1>1, <1>5 DEF TypeOK, ObjectsOK
<1> QED BY <1>1, <1>6, GoesActs, ObjectStep

LEMMA ReadsPipeType == ASSUME TypeOK, NEW a \in Actors, ReadsPipe(a) PROVE TypeOK'
<1>1. Runs(a) /\ th[a].calls # <<>> /\ UNCHANGED <<rest, ipc, lock, file>>
  BY AtFacts DEF ReadsPipe
<1>2. \E r : Returns(a, r) BY DEF ReadsPipe
<1>3. pipe' = pipe \/ (pipe # <<>> /\ pipe' = Tail(pipe)) BY DEF ReadsPipe
<1>4. pipe' \in Seq(Int)
  <2>1. pipe \in Seq(Int) BY DEF TypeOK, ObjectsOK
  <2>2. pipe # <<>> => Tail(pipe) \in Seq(Int) BY <2>1, HeadTailProperties
  <2> QED BY <1>3, <2>1, <2>2
<1>5. ObjectsOK' BY <1>1, <1>4 DEF TypeOK, ObjectsOK
<1> QED BY <1>1, <1>2, <1>5, ReturnsActs, ObjectStep

LEMMA UsesFileType == ASSUME TypeOK, NEW a \in Actors, UsesFile(a) PROVE TypeOK'
<1>1. Runs(a) /\ th[a].calls # <<>> /\ UNCHANGED <<rest, ipc, lock, pipe>>
  BY AtFacts DEF UsesFile
<1>2. \E r : Returns(a, r) BY DEF UsesFile
<1>3. file' \in {"none", "empty", "x"} BY DEF UsesFile, TypeOK, ObjectsOK
<1>4. ObjectsOK' BY <1>1, <1>3 DEF TypeOK, ObjectsOK
<1> QED BY <1>1, <1>2, <1>4, ReturnsActs, ObjectStep

-----------------------------------------------------------------------------
(* Steps that make a thread or a process. *)

\* Thread n begins, as a process or in one that lives; nothing else changes but
\* what may change in any step.
Begins(n) ==
  /\ n \in Actors /\ th[n].state = "none"
  /\ th'[n].state = "running"
  /\ \/ /\ th'[n].process = n
        /\ th'[n].parent # Nobody => th'[n].parent \in Actors /\ Lives(th'[n].parent)
     \/ /\ th'[n].process \in Actors /\ Lives(th'[n].process) /\ th'[n].parent = Nobody
        /\ mem'[n] = mem[n]
  /\ \A b \in Actors \ {n} :
       /\ th'[b].state = th[b].state /\ th'[b].process = th[b].process
       /\ th'[b].parent = th[b].parent
       /\ th[b].state = "none" => th'[b] = th[b]
       /\ ~Lives(b) => mem'[b] = mem[b]

LEMMA BeginsStep ==
  ASSUME TypeOK, NEW n, Begins(n), th' \in [Actors -> Thread], mem' \in [Actors -> Memory],
         test' = test
  PROVE  /\ ThreadsOK' /\ FamiliesOK'
         /\ \A b \in Actors : Lives(b) => LivesOn(b) /\ th'[b].parent = th[b].parent
         /\ th'[n].process = n => LivesOn(n)
<1>1. n \in Actors /\ ~Lives(n) BY DEF Begins, Lives
<1>2. \A b \in Actors : Lives(b) => LivesOn(b) /\ th'[b].parent = th[b].parent
  BY <1>1 DEF Begins, Lives, LivesOn
<1>3. th'[n].process = n => LivesOn(n) BY DEF Begins, LivesOn
<1>4. \A b \in Actors \ {n} : LivesOn(b) <=> Lives(b) BY DEF Begins, Lives, LivesOn
<1>5. ASSUME NEW a \in Actors PROVE FamilyOn(a)
  <2>1. CASE a = n
    <3>1. CASE th'[n].process = n
      <4>1. th'[n].parent # Nobody => th'[n].parent \in Actors /\ Lives(th'[n].parent)
        BY <3>1 DEF Begins
      <4>2. th'[n].parent # Nobody => th'[n].parent # n /\ LivesOn(th'[n].parent)
        BY <1>1, <1>2, <4>1
      <4> QED BY <1>1, <1>3, <2>1, <3>1, <4>2 DEF FamilyOn, Begins
    <3>2. CASE th'[n].process # n
      <4>1. /\ th'[n].process \in Actors /\ Lives(th'[n].process) /\ th'[n].parent = Nobody
            /\ mem'[n] = mem[n] /\ th'[n].state = "running"
        BY <3>2 DEF Begins
      <4>2. LivesOn(th'[n].process) BY <1>2, <4>1
      <4>3. mem[n] = Fresh BY <1>1, FamilyFacts
      <4> QED BY <2>1, <4>1, <4>2, <4>3 DEF FamilyOn
    <3> QED BY <3>1, <3>2
  <2>2. CASE a # n
    <3>1. /\ th'[a].state = th[a].state /\ th'[a].process = th[a].process
          /\ th'[a].parent = th[a].parent /\ (th[a].state = "none" => th'[a] = th[a])
          /\ (~Lives(a) => mem'[a] = mem[a])
      BY <2>2 DEF Begins
    <3> QED BY <1>2, <1>4, <2>2, <3>1, FamilyFacts DEF FamilyOn
  <2> QED BY <2>1, <2>2
<1> QED BY <1>2, <1>3, <1>5, ThreadsNext, FamiliesNext

\* What main and the lock stand for stays.
LEMMA SameMain ==
  ASSUME TypeOK, \A b \in Actors : Lives(b) => LivesOn(b) /\ th'[b].parent = th[b].parent,
         UNCHANGED ending,
         lock' = lock \/ (lock' \in Actors /\ LivesOn(lock'))
  PROVE  MainOK'
<1>1. main' = main /\ result' = result BY DEF ending
<1>2. main' # Nobody => main' \in Actors /\ LivesOn(main') /\ th'[main'].parent = Nobody
  BY <1>1, MainFacts
<1>3. lock' # Nobody => lock' \in Actors /\ LivesOn(lock') BY MainFacts
<1> QED BY <1>1, <1>2, <1>3, MainFacts, MainNext

LEMMA NewcomerFree ==
  ASSUME Free # {} PROVE Newcomer \in Actors /\ th[Newcomer].state = "none"
BY DEF Free, Newcomer

\* A child, which begins with the calls it is given.
LEMMA ChildTyped ==
  ASSUME TypeOK, Free # {}, NEW a \in Actors, Runs(a), NEW calls \in Seq(CallsOf(Programs[test]))
  PROVE  /\ Child(a, calls) \in Thread /\ Child(a, calls).state = "running"
         /\ Child(a, calls).process = Newcomer /\ Child(a, calls).parent = Me(a)
<1>1. Me(a) \in Actors /\ th[a].self \in Actors \cup {Nobody} BY RunnerLives, ThreadTyped
<1>2. Nothing \in Thread BY NothingTyped
<1> QED BY <1>1, <1>2, NewcomerFree DEF Child, Thread, Nothing

\* Thread a goes on as t, and its child begins with calls.
Splits(a, t, calls) ==
  /\ Free # {}
  /\ t \in Thread /\ t.state = th[a].state /\ t.process = th[a].process
  /\ t.parent = th[a].parent
  /\ th' = [th EXCEPT ![a] = t, ![Newcomer] = Child(a, calls)]
  /\ mem' \in [Actors -> Memory]
  /\ \A b \in Actors : b # Newcomer /\ ~Lives(b) => mem'[b] = mem[b]

LEMMA ForkStep ==
  ASSUME TypeOK, NEW a \in Actors, Runs(a), NEW calls \in Seq(CallsOf(Programs[test])),
         NEW t, Splits(a, t, calls), test' = test
  PROVE  /\ ThreadsOK' /\ FamiliesOK'
         /\ \E n \in Actors : n = Newcomer /\ LivesOn(n)
         /\ \A b \in Actors : Lives(b) => LivesOn(b) /\ th'[b].parent = th[b].parent
<1>0. PICK n : n = Newcomer OBVIOUS
<1>s. /\ Free # {} /\ t \in Thread /\ t.state = th[a].state /\ t.process = th[a].process
      /\ t.parent = th[a].parent
      /\ th' = [th EXCEPT ![a] = t, ![n] = Child(a, calls)]
      /\ mem' \in [Actors -> Memory]
      /\ \A b \in Actors : b # n /\ ~Lives(b) => mem'[b] = mem[b]
  BY <1>0 DEF Splits
<1> DEFINE u == Child(a, calls)
<1>1. u \in Thread /\ u.state = "running" /\ u.process = n /\ u.parent = Me(a)
  BY <1>0, <1>s, ChildTyped
<1>2. n \in Actors /\ th[n].state = "none" BY <1>0, <1>s, NewcomerFree
<1>3. th[a].state = "running" /\ Me(a) \in Actors /\ Lives(Me(a)) BY RunnerLives
<1> HIDE DEF u
<1>4. th' \in [Actors -> Thread] /\ th'[n] = u /\ th'[a] = t
      /\ \A b \in Actors : b # a /\ b # n => th'[b] = th[b]
  <2>1. th \in [Actors -> Thread] /\ a # n BY <1>2, <1>3 DEF TypeOK, ThreadsOK
  <2> QED BY <1>s, <1>1, <1>2, <2>1 DEF u
<1>5. Begins(n)
  <2>1. th'[n].state = "running" /\ th'[n].process = n
        /\ th'[n].parent \in Actors /\ Lives(th'[n].parent)
    BY <1>1, <1>3, <1>4
  <2>2. ASSUME NEW b \in Actors \ {n}
        PROVE  /\ th'[b].state = th[b].state /\ th'[b].process = th[b].process
               /\ th'[b].parent = th[b].parent
               /\ th[b].state = "none" => th'[b] = th[b]
               /\ ~Lives(b) => mem'[b] = mem[b]
    <3>1. th[b].state = "none" => b # a BY <1>3
    <3> QED BY <1>s, <1>4, <3>1
  <2> QED BY <1>2, <2>1, <2>2 DEF Begins
<1> QED BY <1>0, <1>s, <1>1, <1>2, <1>4, <1>5, BeginsStep

LEMMA SubSeqCalls ==
  ASSUME TypeOK, NEW a \in Actors, th[a].calls # <<>>
  PROVE  SubSeq(th[a].calls, Now(a).arg + 2, Len(th[a].calls)) \in Seq(CallsOf(Programs[test]))
<1>1. th[a].calls \in Seq(CallsOf(Programs[test])) BY ThreadTyped
<1>2. Now(a).arg + 2 \in 1..(Len(th[a].calls) + 1) \/ Now(a).arg + 2 > Len(th[a].calls)
  BY <1>1, NowNames DEF Names
<1>3. Now(a).arg \in Nat BY NowNames DEF Names
<1>4. Len(th[a].calls) \in Nat BY <1>1
<1> QED BY <1>1, <1>3, <1>4, SubSeqProperties

LEMMA ForksType == ASSUME TypeOK, NEW a \in Actors, Forks(a) PROVE TypeOK'
<1>1. /\ Runs(a) /\ th[a].calls # <<>> /\ Now(a).op = "fork"
      /\ UNCHANGED <<fixed, ending, ipc, pipe, file, orphaned, counted>>
  BY AtFacts DEF Forks
<1>2. test' = test /\ ObjectsOK' BY <1>1 DEF TypeOK, ObjectsOK, fixed
<1>3. FlagsOK' BY <1>1 DEF Forks, TypeOK, FlagsOK, fixed
<1>4. CASE /\ Free # {}
           /\ th' = [th EXCEPT ![a] = Onward(a),
                               ![Newcomer] = Child(a, Programs[test][Now(a).obj])]
           /\ mem' = [mem EXCEPT ![Newcomer] = Mine(a)]
           /\ lock' = LockAfterFork
  <2> DEFINE calls == Programs[test][Now(a).obj]
  <2>1. calls \in Seq(CallsOf(Programs[test])) BY <1>1, NowNames, RoutineCalls DEF Names
  <2> HIDE DEF calls
  <2>2. PICK n : n = Newcomer OBVIOUS
  <2>3. mem' \in [Actors -> Memory] /\ \A b \in Actors \ {n} : mem'[b] = mem[b]
    BY <1>1, <1>4, <2>2, NewcomerFree, RunnerLives DEF TypeOK, ThreadsOK
  <2>t. PICK t \in Thread : /\ t.state = th[a].state /\ t.process = th[a].process
                           /\ t.parent = th[a].parent /\ t = Onward(a)
    BY <1>1, OnwardTyped
  <2>4. th' = [th EXCEPT ![a] = t, ![Newcomer] = Child(a, calls)] BY <1>4, <2>t DEF calls
  <2>5. /\ ThreadsOK' /\ FamiliesOK' /\ \E c \in Actors : c = Newcomer /\ LivesOn(c)
        /\ \A b \in Actors : Lives(b) => LivesOn(b) /\ th'[b].parent = th[b].parent
    <3>1. Splits(a, t, calls) BY <1>4, <2>2, <2>3, <2>4, <2>t DEF Splits
    <3> QED BY <1>1, <1>2, <2>1, <3>1, ForkStep
  <2>6. lock' = lock \/ (lock' \in Actors /\ LivesOn(lock'))
    BY <1>4, <2>5 DEF LockAfterFork
  <2>7. MainOK' BY <1>1, <2>5, <2>6, SameMain
  <2> QED BY <1>2, <1>3, <2>5, <2>7 DEF TypeOK
<1>5. CASE /\ th' = [th EXCEPT ![a].calls = SubSeq(@, Now(a).arg + 2, Len(@))]
           /\ Judge(a, Failed) /\ UNCHANGED lock
  <2> DEFINE s == SubSeq(th[a].calls, Now(a).arg + 2, Len(th[a].calls))
             t == [th[a] EXCEPT !.calls = s]
  <2>1. s \in Seq(CallsOf(Programs[test])) BY <1>1, SubSeqCalls
  <2>2. th' = [th EXCEPT ![a] = t] BY <1>5 DEF TypeOK, ThreadsOK
  <2> HIDE DEF s
  <2>3. t \in Thread /\ t.state = th[a].state /\ t.process = th[a].process
        /\ t.parent = th[a].parent
    BY <2>1, ThreadTyped DEF Thread
  <2> HIDE DEF t
  <2>4. Judged(Mine(a), Now(a), Failed) \in Memory BY <1>1, RunnerLives, JudgedTyped
  <2>5. Acts(a) BY <1>5, <2>2, <2>3, <2>4 DEF Acts, Judge, Keeps
  <2> QED BY <1>1, <1>2, <1>3, <1>5, <2>5, QuietType
<1> QED BY <1>4, <1>5 DEF Forks

LEMMA HandlesForkType == ASSUME TypeOK, NEW a \in Actors, HandlesFork(a) PROVE TypeOK'
<1> DEFINE m == [Mine(a) EXCEPT !.var["c1"] = @ + 1]
<1>1. /\ Runs(a) /\ th[a].signals # <<>>
      /\ UNCHANGED <<fixed, ending, objects, orphaned, counted>>
  BY DEF HandlesFork, SignalArrives
<1>2. test' = test /\ ObjectsOK' /\ lock' = lock BY <1>1, SameObjects DEF fixed
<1>3. FlagsOK' BY <1>1 DEF HandlesFork, TypeOK, FlagsOK, fixed
<1>4. m \in Memory BY <1>1, RunnerLives, CountTyped
<1>5. \/ /\ Free # {}
         /\ th' = [th EXCEPT ![a] = Handled(a), ![Newcomer] = Child(a, th[a].calls)]
         /\ mem' = [mem EXCEPT ![Me(a)] = m, ![Newcomer] = [m EXCEPT !.var["child"] = 1]]
      \/ th' = [th EXCEPT ![a] = Handled(a)] /\ Keeps(a, [m EXCEPT !.status = 1])
  BY DEF HandlesFork
<1> HIDE DEF m
<1>6. CASE /\ Free # {}
           /\ th' = [th EXCEPT ![a] = Handled(a), ![Newcomer] = Child(a, th[a].calls)]
           /\ mem' = [mem EXCEPT ![Me(a)] = m, ![Newcomer] = [m EXCEPT !.var["child"] = 1]]
  <2>1. th[a].calls \in Seq(CallsOf(Programs[test])) BY ThreadTyped
  <2>2. PICK n : n = Newcomer OBVIOUS
  <2>3. [m EXCEPT !.var["child"] = 1] \in Memory BY <1>4, VarTyped DEF Variables
  <2>4. Me(a) \in Actors /\ Lives(Me(a)) BY <1>1, RunnerLives
  <2>5. mem' \in [Actors -> Memory] /\ \A b \in Actors \ {n} : ~Lives(b) => mem'[b] = mem[b]
    BY <1>4, <1>6, <2>2, <2>3, <2>4, NewcomerFree DEF TypeOK, ThreadsOK
  <2>t. PICK t \in Thread : /\ t.state = th[a].state /\ t.process = th[a].process
                           /\ t.parent = th[a].parent /\ t = Handled(a)
    BY <1>1, HandledTyped
  <2>6. th' = [th EXCEPT ![a] = t, ![Newcomer] = Child(a, th[a].calls)] BY <1>6, <2>t
  <2>7. /\ ThreadsOK' /\ FamiliesOK'
        /\ \A b \in Actors : Lives(b) => LivesOn(b) /\ th'[b].parent = th[b].parent
    <3>1. Splits(a, t, th[a].calls) BY <1>6, <2>2, <2>5, <2>6, <2>t DEF Splits
    <3> QED BY <1>1, <1>2, <2>1, <3>1, ForkStep
  <2>8. MainOK' BY <1>1, <1>2, <2>7, SameMain
  <2> QED BY <1>2, <1>3, <2>7, <2>8 DEF TypeOK
<1>7. CASE th' = [th EXCEPT ![a] = Handled(a)] /\ Keeps(a, [m EXCEPT !.status = 1])
  <2>1. [m EXCEPT !.status = 1] \in Memory BY <1>4 DEF Memory
  <2>2. Acts(a) BY <1>1, <1>7, <2>1, HandledTyped DEF Acts, Keeps
  <2> QED BY <1>1, <1>2, <1>3, <2>2, QuietType
<1> QED BY <1>5, <1>6, <1>7

LEMMA ThreadCreatedType == ASSUME TypeOK, NEW a \in Actors, ThreadCreated(a) PROVE TypeOK'
<1> DEFINE calls == Programs[test][Now(a).obj]
           u == [Nothing EXCEPT !.state = "running", !.process = Me(a), !.calls = calls]
<1>1. /\ Runs(a) /\ th[a].calls # <<>> /\ Now(a).op = "create" /\ Free # {}
      /\ UNCHANGED <<rest, mem, objects>>
      /\ th' = [th EXCEPT ![a] = Onward(a), ![Newcomer] = u]
  BY AtFacts DEF ThreadCreated
<1>2. calls \in Seq(CallsOf(Programs[test])) BY <1>1, NowNames, RoutineCalls DEF Names
<1> HIDE DEF calls
<1>3. Me(a) \in Actors /\ Lives(Me(a)) /\ th[a].state = "running" BY <1>1, RunnerLives
<1>4. u \in Thread /\ u.state = "running" /\ u.process = Me(a) /\ u.parent = Nobody
  BY <1>2, <1>3, NothingTyped DEF Thread, Nothing
<1> HIDE DEF u
<1>5. PICK n : n = Newcomer OBVIOUS
<1>6. n \in Actors /\ th[n].state = "none" /\ n # a BY <1>1, <1>3, <1>5, NewcomerFree
<1>7. Onward(a) \in Thread /\ Onward(a).state = th[a].state
      /\ Onward(a).process = th[a].process /\ Onward(a).parent = th[a].parent
  BY <1>1, OnwardTyped
<1>8. th' \in [Actors -> Thread] /\ th'[n] = u /\ th'[a] = Onward(a)
      /\ \A b \in Actors : b # a /\ b # n => th'[b] = th[b]
  BY <1>1, <1>4, <1>5, <1>6, <1>7 DEF TypeOK, ThreadsOK
<1>9. mem' = mem /\ mem' \in [Actors -> Memory] BY <1>1 DEF TypeOK, ThreadsOK
<1>10. Begins(n)
  <2>1. \A b \in Actors \ {n} :
          /\ th'[b].state = th[b].state /\ th'[b].process = th[b].process
          /\ th'[b].parent = th[b].parent
          /\ th[b].state = "none" => th'[b] = th[b]
    BY <1>3, <1>7, <1>8
  <2> QED BY <1>3, <1>4, <1>6, <1>8, <1>9, <2>1 DEF Begins
<1>11. test' = test /\ UNCHANGED ending /\ ObjectsOK' /\ FlagsOK' /\ lock' = lock
  BY <1>1, SameObjects, SameFlags DEF rest
<1>12. /\ ThreadsOK' /\ FamiliesOK'
       /\ \A b \in Actors : Lives(b) => LivesOn(b) /\ th'[b].parent = th[b].parent
  BY <1>8, <1>9, <1>10, <1>11, BeginsStep
<1> QED BY <1>11, <1>12, SameMain DEF TypeOK

\* The first thread of the test, in a process that runtest starts.
LEMMA FirstTyped ==
  ASSUME TypeOK, NEW n \in Actors
  PROVE  /\ First(n) \in Thread /\ First(n).state = "running" /\ First(n).process = n
         /\ First(n).parent = Nobody
<1>1. Programs[test]["main"] \in Seq(CallsOf(Programs[test])) BY MainRoutine, RoutineCalls
<1> QED BY <1>1, NothingTyped DEF First, Thread, Nothing

LEMMA StartsStaticType == ASSUME TypeOK, StartsStatic PROVE TypeOK'
<1>1. /\ Free # {} /\ round' = 2 /\ result' = "none" /\ main' = Newcomer
      /\ th' = [th EXCEPT ![Newcomer] = First(Newcomer)]
      /\ orphaned' = (\E a \in Actors : th[a].state # "none")
      /\ shown' = Constant /\ counted' = FALSE
      /\ UNCHANGED <<test, bug, mem, objects>>
  BY DEF StartsStatic
<1>2. PICK n : n = Newcomer OBVIOUS
<1>3. n \in Actors /\ th[n].state = "none" BY <1>1, <1>2, NewcomerFree
<1>4. th' \in [Actors -> Thread] /\ th'[n] = First(n)
      /\ \A b \in Actors \ {n} : th'[b] = th[b]
  BY <1>1, <1>2, <1>3, FirstTyped DEF TypeOK, ThreadsOK
<1>5. mem' = mem /\ mem' \in [Actors -> Memory] BY <1>1 DEF TypeOK, ThreadsOK
<1>6. Begins(n) BY <1>3, <1>4, <1>5, FirstTyped DEF Begins
<1>7. /\ ThreadsOK' /\ FamiliesOK' /\ LivesOn(n)
      /\ \A b \in Actors : Lives(b) => LivesOn(b) /\ th'[b].parent = th[b].parent
  BY <1>1, <1>3, <1>4, <1>5, <1>6, FirstTyped, BeginsStep
<1>8. MainOK'
  <2>1. main' = n /\ th'[n].parent = Nobody BY <1>1, <1>2, <1>3, <1>4, FirstTyped
  <2>2. lock' # Nobody => lock' \in Actors /\ LivesOn(lock')
    BY <1>1, <1>7, MainFacts DEF objects
  <2>3. n # Nobody BY <1>3, ActorsAssumption
  <2> QED BY <1>1, <1>3, <1>7, <2>1, <2>2, <2>3, MainNext
<1>9. ObjectsOK' BY <1>1, SameObjects
<1>10. FlagsOK' BY <1>1 DEF TypeOK, FlagsOK, Constant
<1> QED BY <1>7, <1>8, <1>9, <1>10 DEF TypeOK

-----------------------------------------------------------------------------
(* Steps that remove a thread or a process. *)

\* A dead process or a thread that is done, which no thread belongs to and which
\* is nobody's parent, is forgotten, and thread a goes on.
LEMMA ForgottenStep ==
  ASSUME TypeOK, NEW a \in Actors, Runs(a), NEW t \in Thread, t.state = th[a].state,
         t.process = th[a].process, t.parent = th[a].parent,
         NEW b \in Actors, th[b].state \in {"zombie", "done"},
         th' = [th EXCEPT ![a] = t, ![b] = Nothing],
         mem' \in [Actors -> Memory], \A c \in Actors : ~Lives(c) => mem'[c] = mem[c],
         test' = test, UNCHANGED ending, lock' = lock
  PROVE  ThreadsOK' /\ FamiliesOK' /\ MainOK'
<1>1. th[a].state = "running" /\ a # b BY RunnerLives
<1>2. th' \in [Actors -> Thread] /\ th'[a] = t /\ th'[b] = Nothing
      /\ \A c \in Actors : c # a /\ c # b => th'[c] = th[c]
  BY <1>1, NothingTyped DEF TypeOK, ThreadsOK
<1>3. \A c \in Actors : (LivesOn(c) <=> Lives(c)) /\ (Lives(c) => th'[c].parent = th[c].parent)
  <2>1. ~Lives(b) /\ ~LivesOn(b) BY <1>2, NothingTyped DEF Lives, LivesOn
  <2>2. LivesOn(a) <=> Lives(a) BY <1>2 DEF Lives, LivesOn
  <2>3. \A c \in Actors : c # a /\ c # b => (LivesOn(c) <=> Lives(c))
    BY <1>2 DEF Lives, LivesOn
  <2> QED BY <1>2, <2>1, <2>2, <2>3
<1>4. ASSUME NEW c \in Actors PROVE FamilyOn(c)
  <2>1. CASE c = b
    <3>1. Nothing.state = "none" /\ Nothing.parent = Nobody BY DEF Nothing
    <3>2. ~Lives(b) BY DEF Lives
    <3>3. mem'[b] = Fresh BY <3>2, FamilyFacts
    <3> QED BY <1>2, <2>1, <3>1, <3>3 DEF FamilyOn
  <2>2. CASE c # b
    <3>1. /\ th'[c].state = th[c].state /\ th'[c].process = th[c].process
          /\ th'[c].parent = th[c].parent /\ (th[c].state = "none" => th'[c] = th[c])
      BY <1>1, <1>2, <2>2
    <3> QED BY <1>3, <3>1, FamilyFacts DEF FamilyOn
  <2> QED BY <2>1, <2>2
<1>5. MainOK' BY <1>3, SameMain
<1> QED BY <1>2, <1>4, <1>5, ThreadsNext, FamiliesNext

LEMMA WaitsType == ASSUME TypeOK, NEW a \in Actors, Waits(a) PROVE TypeOK'
<1>1. Runs(a) /\ th[a].calls # <<>> /\ UNCHANGED <<rest, objects>> BY AtFacts DEF Waits
<1>2. CASE Returns(a, Failed) BY <1>1, <1>2, ReturnsActs, QuietStep
<1>3. CASE \E b \in Children(Me(a)) :
             /\ th[b].state = "zombie"
             /\ th' = [th EXCEPT ![a] = Onward(a), ![b] = Nothing]
             /\ Keeps(a, [Judged(Mine(a), Now(a), 0) EXCEPT !.var["r"] = th[b].code])
  <2>1. PICK b \in Children(Me(a)) :
             /\ th[b].state = "zombie"
             /\ th' = [th EXCEPT ![a] = Onward(a), ![b] = Nothing]
             /\ Keeps(a, [Judged(Mine(a), Now(a), 0) EXCEPT !.var["r"] = th[b].code])
    BY <1>3
  <2>2. b \in Actors BY DEF Children
  <2>3. Judged(Mine(a), Now(a), 0) \in Memory BY <1>1, RunnerLives, JudgedTyped
  <2>4. [Judged(Mine(a), Now(a), 0) EXCEPT !.var["r"] = th[b].code] \in Memory
    <3>1. th[b].code \in Int /\ "r" \in Variables BY <2>2, ThreadTyped DEF Variables
    <3> QED BY <2>3, <3>1, VarTyped
  <2>5. mem' \in [Actors -> Memory] /\ \A c \in Actors : ~Lives(c) => mem'[c] = mem[c]
    BY <1>1, <2>1, <2>4, RunnerLives DEF Keeps, TypeOK, ThreadsOK
  <2>6. PICK t \in Thread : /\ t.state = th[a].state /\ t.process = th[a].process
                           /\ t.parent = th[a].parent /\ t = Onward(a)
    BY <1>1, OnwardTyped
  <2>7. th' = [th EXCEPT ![a] = t, ![b] = Nothing] /\ th[b].state \in {"zombie", "done"}
    BY <2>1, <2>6
  <2>8. ObjectsOK' /\ FlagsOK' /\ test' = test /\ lock' = lock /\ UNCHANGED ending
    BY <1>1, SameObjects, SameFlags DEF rest
  <2> QED BY <1>1, <2>2, <2>5, <2>6, <2>7, <2>8, ForgottenStep DEF TypeOK
<1> QED BY <1>2, <1>3 DEF Waits

LEMMA ThreadJoinedType == ASSUME TypeOK, NEW a \in Actors, ThreadJoined(a) PROVE TypeOK'
<1>1. Runs(a) /\ th[a].calls # <<>> /\ UNCHANGED <<rest, mem, objects>>
  BY AtFacts DEF ThreadJoined
<1>2. PICK b \in Peers(a) :
        th[b].state = "done" /\ th' = [th EXCEPT ![a] = Onward(a), ![b] = Nothing]
  BY DEF ThreadJoined
<1>3. b \in Actors BY DEF Peers
<1>4. mem' \in [Actors -> Memory] /\ \A c \in Actors : ~Lives(c) => mem'[c] = mem[c]
  BY <1>1 DEF TypeOK, ThreadsOK
<1>5. PICK t \in Thread : /\ t.state = th[a].state /\ t.process = th[a].process
                         /\ t.parent = th[a].parent /\ t = Onward(a)
  BY <1>1, OnwardTyped
<1>6. th' = [th EXCEPT ![a] = t, ![b] = Nothing] /\ th[b].state \in {"zombie", "done"}
  BY <1>2, <1>5
<1>7. ObjectsOK' /\ FlagsOK' /\ test' = test /\ lock' = lock /\ UNCHANGED ending
  BY <1>1, SameObjects, SameFlags DEF rest
<1> QED BY <1>1, <1>3, <1>4, <1>5, <1>6, <1>7, ForgottenStep DEF TypeOK

\* The end of process b: what becomes of each thread.
LEMMA EndedFacts ==
  ASSUME TypeOK, NEW b \in Actors, Lives(b), NEW code \in Int
  PROVE  /\ Ended(b, code) \in [Actors -> Thread]
         /\ th[b].parent = Nobody => Ended(b, code)[b] = Nothing
         /\ th[b].parent # Nobody => /\ Ended(b, code)[b].state = "zombie"
                                     /\ Ended(b, code)[b].process = b
                                     /\ Ended(b, code)[b].parent = th[b].parent
                                     /\ Ended(b, code)[b].code = code
                                     /\ Ended(b, code)[b].calls = <<>>
                                     /\ Ended(b, code)[b].signals = <<>>
         /\ \A a \in Actors \ {b} :
              /\ th[a].process = b => Ended(b, code)[a] = Nothing
              /\ th[a].process # b /\ th[a].parent # b => Ended(b, code)[a] = th[a]
              /\ th[a].parent = b =>
                   IF th[a].state = "zombie" THEN Ended(b, code)[a] = Nothing
                   ELSE Ended(b, code)[a] = [th[a] EXCEPT !.parent = Nobody]
<1> DEFINE z == [Nothing EXCEPT !.state = "zombie", !.process = b, !.parent = th[b].parent,
                                !.code = code]
           o(a) == [th[a] EXCEPT !.parent = Nobody]
           e(a) == CASE a = b /\ th[b].parent # Nobody -> z
                     [] a = b /\ th[b].parent = Nobody -> Nothing
                     [] a # b /\ th[a].process = b -> Nothing
                     [] a \in Children(b) -> IF th[a].state = "zombie" THEN Nothing ELSE o(a)
                     [] OTHER -> th[a]
           E == [a \in Actors |-> e(a)]
<1>1. z \in Thread /\ z.state = "zombie" /\ z.process = b /\ z.parent = th[b].parent
      /\ z.code = code /\ z.calls = <<>> /\ z.signals = <<>>
  BY NothingTyped, ThreadTyped DEF Thread, Nothing
<1>2. \A a \in Actors : o(a) \in Thread BY ThreadTyped DEF Thread
<1>3. E = Ended(b, code) BY DEF Ended
<1>c. \A a \in Actors :
        a \in Children(b) <=> th[a].process = a /\ th[a].parent = b /\ a # b
  BY DEF Children
<1> HIDE DEF z, o
<1>4. th[b].parent = Nobody => e(b) = Nothing BY <1>c
<1>5. th[b].parent # Nobody => e(b) = z BY <1>c
<1>6. ASSUME NEW a \in Actors \ {b}
      PROVE  /\ th[a].process = b => e(a) = Nothing
             /\ th[a].process # b /\ th[a].parent # b => e(a) = th[a]
             /\ th[a].parent = b => IF th[a].state = "zombie" THEN e(a) = Nothing
                                   ELSE e(a) = o(a)
  <2>1. e(a) = CASE th[a].process = b -> Nothing
                 [] a \in Children(b) -> IF th[a].state = "zombie" THEN Nothing ELSE o(a)
                 [] OTHER -> th[a]
    OBVIOUS
  <2>2. b # Nobody BY ActorsAssumption
  <2>3. th[a].parent = b => th[a].process = a BY <2>2, FamilyFacts
  <2>4. a \in Children(b) <=> th[a].process = a /\ th[a].parent = b BY DEF Children
  <2> HIDE DEF e
  <2>5. CASE th[a].process = b BY <2>1, <2>3, <2>4, <2>5
  <2>6. CASE th[a].process # b /\ th[a].parent # b BY <2>1, <2>4, <2>6
  <2>7. CASE th[a].parent = b BY <2>1, <2>3, <2>4, <2>7
  <2> QED BY <2>5, <2>6, <2>7
<1> HIDE DEF e
<1>7. \A a \in Actors : e(a) \in Thread
  <2>1. e(b) \in Thread BY <1>1, <1>4, <1>5, NothingTyped
  <2>2. ASSUME NEW a \in Actors \ {b} PROVE e(a) \in Thread
    BY <1>2, <1>6, NothingTyped, ThreadTyped
  <2> QED BY <2>1, <2>2
<1>8. E \in [Actors -> Thread] /\ \A a \in Actors : E[a] = e(a) BY <1>7
<1> HIDE DEF E
<1> QED BY <1>1, <1>3, <1>4, <1>5, <1>6, <1>8 DEF o

\* Process b has ended; those of s are new and have no parent.
EndedBut(b, code, s) ==
  /\ th' \in [Actors -> Thread] /\ mem' \in [Actors -> Memory]
  /\ \A c \in Actors : c \notin s => th'[c] = Ended(b, code)[c]
  /\ \A c \in s : th[c].state = "none" /\ LivesOn(c) /\ th'[c].parent = Nobody
  /\ mem'[b] = Fresh /\ \A c \in Actors : c \notin s /\ c # b => mem'[c] = mem[c]

OthersLive(b) ==
  \A c \in Actors \ {b} :
    Lives(c) => LivesOn(c) /\ (th[c].parent = Nobody => th'[c].parent = Nobody)

LEMMA EndedStep ==
  ASSUME TypeOK, NEW b \in Actors, Lives(b), NEW code \in Int, NEW s,
         EndedBut(b, code, s), test' = test
  PROVE  ThreadsOK' /\ FamiliesOK' /\ OthersLive(b)
<1>0. /\ b \notin s /\ th' \in [Actors -> Thread] /\ mem' \in [Actors -> Memory]
      /\ \A c \in s : th[c].state = "none" /\ LivesOn(c) /\ th'[c].parent = Nobody
      /\ \A c \in Actors : c \notin s => th'[c] = Ended(b, code)[c]
      /\ mem'[b] = Fresh /\ \A c \in Actors : c \notin s /\ c # b => mem'[c] = mem[c]
  BY DEF Lives, EndedBut
<1>1. /\ th[b].parent = Nobody => th'[b] = Nothing
      /\ th[b].parent # Nobody => /\ th'[b].state = "zombie" /\ th'[b].process = b
                                  /\ th'[b].parent = th[b].parent
  BY <1>0, EndedFacts
<1>2. \A a \in Actors \ (s \cup {b}) :
        /\ th[a].process = b => th'[a] = Nothing
        /\ th[a].process # b /\ th[a].parent # b => th'[a] = th[a]
        /\ th[a].parent = b =>
             IF th[a].state = "zombie" THEN th'[a] = Nothing
             ELSE th'[a] = [th[a] EXCEPT !.parent = Nobody]
  <2> SUFFICES ASSUME NEW a \in Actors \ (s \cup {b})
        PROVE  /\ th[a].process = b => th'[a] = Nothing
               /\ th[a].process # b /\ th[a].parent # b => th'[a] = th[a]
               /\ th[a].parent = b =>
                    IF th[a].state = "zombie" THEN th'[a] = Nothing
                    ELSE th'[a] = [th[a] EXCEPT !.parent = Nobody]
    OBVIOUS
  <2>1. a \in Actors \ {b} /\ th'[a] = Ended(b, code)[a] BY <1>0
  <2> QED BY <2>1, EndedFacts
<1>n. Nothing.state = "none" /\ Nothing.parent = Nobody BY DEF Nothing
<1>3. ~LivesOn(b) BY <1>1, <1>n DEF LivesOn
<1>4. ASSUME NEW a \in Actors \ (s \cup {b})
      PROVE  \/ th'[a] = Nothing /\ ~Lives(a)
             \/ /\ th'[a].state = th[a].state /\ th'[a].process = th[a].process
                /\ th[a].process # b
                /\ th[a].state = "none" => th'[a] = th[a]
                /\ \/ th'[a].parent = th[a].parent /\ th[a].parent # b
                   \/ th'[a].parent = Nobody /\ th[a].state # "zombie"
  <2>1. th[a] \in Thread /\ b # Nobody BY ThreadTyped, ActorsAssumption
  <2>2. CASE th[a].process = b BY <1>2, <2>2 DEF Lives
  <2>3. CASE th[a].process # b /\ th[a].parent # b BY <1>2, <2>3
  <2>4. CASE th[a].process # b /\ th[a].parent = b
    <3>1. CASE th[a].state = "zombie" BY <1>2, <2>4, <3>1 DEF Lives
    <3>2. CASE th[a].state # "zombie"
      <4>1. th'[a] = [th[a] EXCEPT !.parent = Nobody] BY <1>2, <2>4, <3>2
      <4>2. th'[a].state = th[a].state /\ th'[a].process = th[a].process
            /\ th'[a].parent = Nobody
        BY <2>1, <4>1 DEF Thread
      <4>3. th[a].state # "none"
        <5>1. Nothing.parent # b BY <1>n, <2>1
        <5> QED BY <2>4, <5>1, FamilyFacts
      <4> QED BY <2>4, <3>2, <4>2, <4>3
    <3> QED BY <3>1, <3>2
  <2> QED BY <2>2, <2>3, <2>4
<1>5. \A c \in Actors \ {b} :
        Lives(c) => LivesOn(c) /\ (th[c].parent = Nobody => th'[c].parent = Nobody)
  <2> SUFFICES ASSUME NEW c \in Actors \ {b}, Lives(c)
               PROVE  LivesOn(c) /\ (th[c].parent = Nobody => th'[c].parent = Nobody)
    OBVIOUS
  <2>1. c \notin s BY <1>0 DEF Lives
  <2>2. /\ th'[c].state = th[c].state /\ th'[c].process = th[c].process
        /\ th'[c].parent \in {th[c].parent, Nobody}
    BY <1>4, <2>1
  <2> QED BY <2>2 DEF Lives, LivesOn
<1>7. ASSUME NEW a \in Actors PROVE FamilyOn(a)
  <2>1. CASE a = b
    <3>1. CASE th[b].parent = Nobody BY <1>0, <1>1, <1>n, <2>1, <3>1 DEF FamilyOn
    <3>2. CASE th[b].parent # Nobody
      <4>1. th[b].parent # b /\ Lives(th[b].parent) /\ th[b].parent \in Actors
        BY <3>2, FamilyFacts
      <4>2. LivesOn(th[b].parent) BY <1>5, <4>1
      <4> QED BY <1>0, <1>1, <2>1, <3>2, <4>1, <4>2 DEF FamilyOn
    <3> QED BY <3>1, <3>2
  <2>2. CASE a \in s BY <1>0, <2>2 DEF FamilyOn, LivesOn
  <2>3. CASE a # b /\ a \notin s
    <3>0. mem'[a] = mem[a] BY <1>0, <2>3
    <3>1. CASE th'[a] = Nothing /\ ~Lives(a)
      <4>1. mem'[a] = Fresh BY <3>0, <3>1, FamilyFacts
      <4> QED BY <1>n, <3>1, <4>1 DEF FamilyOn
    <3>2. CASE /\ th'[a].state = th[a].state /\ th'[a].process = th[a].process
               /\ th[a].process # b
               /\ th[a].state = "none" => th'[a] = th[a]
               /\ \/ th'[a].parent = th[a].parent /\ th[a].parent # b
                  \/ th'[a].parent = Nobody /\ th[a].state # "zombie"
      <4>1. LivesOn(a) <=> Lives(a) BY <3>2 DEF Lives, LivesOn
      <4>2. th[a].state \in {"running", "done"} => LivesOn(th[a].process)
        BY <1>5, <3>2, FamilyFacts
      <4>3. th'[a].parent # Nobody => LivesOn(th'[a].parent) BY <1>5, <3>2, FamilyFacts
      <4> QED BY <3>0, <3>2, <4>1, <4>2, <4>3, FamilyFacts DEF FamilyOn
    <3> QED BY <1>4, <2>3, <3>1, <3>2
  <2> QED BY <2>1, <2>2, <2>3
<1> QED BY <1>0, <1>5, <1>7, ThreadsNext, FamiliesNext DEF OthersLive

\* The lock and the place of main are given back by a process that ends.
LEMMA GoneStep ==
  ASSUME TypeOK, NEW b \in Actors, NEW r \in {"pass", "fail", "killed"}, Gone(b, r),
         OthersLive(b)
  PROVE  MainOK'
<1>1. /\ lock' = IF lock = b THEN Nobody ELSE lock
      /\ IF b = main THEN main' = Nobody /\ result' = r ELSE UNCHANGED ending
  BY DEF Gone
<1>2. lock' # Nobody => lock' \in Actors /\ LivesOn(lock') BY <1>1, MainFacts DEF OthersLive
<1>3. /\ main' # Nobody => main' \in Actors /\ LivesOn(main') /\ th'[main'].parent = Nobody
      /\ result' \in {"none", "pass", "fail", "killed"} /\ (main' = Nobody <=> result' # "none")
  <2>1. CASE b = main BY <1>1, <2>1
  <2>2. CASE b # main
    <3>1. main' = main /\ result' = result BY <1>1, <2>2 DEF ending
    <3> QED BY <2>2, <3>1, MainFacts DEF OthersLive
  <2> QED BY <2>1, <2>2
<1> QED BY <1>2, <1>3, MainNext

LEMMA DiesStep ==
  ASSUME TypeOK, NEW b \in Actors, Lives(b), NEW code \in Int,
         NEW r \in {"pass", "fail", "killed"}, Dies(b, code, r), test' = test
  PROVE  ThreadsOK' /\ FamiliesOK' /\ MainOK'
<1>1. th' = Ended(b, code) /\ mem' = [mem EXCEPT ![b] = Fresh] /\ Gone(b, r) BY DEF Dies
<1>2. th' \in [Actors -> Thread] BY <1>1, EndedFacts
<1>3. mem' \in [Actors -> Memory] /\ mem'[b] = Fresh /\ \A c \in Actors \ {b} : mem'[c] = mem[c]
  BY <1>1, FreshTyped DEF TypeOK, ThreadsOK
<1>4. EndedBut(b, code, {}) BY <1>1, <1>2, <1>3 DEF EndedBut
<1>5. ThreadsOK' /\ FamiliesOK' /\ OthersLive(b)
  BY <1>4, EndedStep
<1> QED BY <1>1, <1>5, GoneStep

LEMMA ExitsStep ==
  ASSUME TypeOK, NEW a \in Actors, Runs(a), NEW m \in Memory, NEW code \in Int,
         Exits(a, m, code), UNCHANGED <<fixed, ipc, pipe, history>>
  PROVE  TypeOK'
<1>1. Me(a) \in Actors /\ Lives(Me(a)) BY RunnerLives
<1>2. FlagsOK' /\ test' = test BY SameFlags
<1>3. CASE m.atexit # "none" /\ bug # "atexit_skipped"
  <2> DEFINE t == [th[a] EXCEPT !.calls = Programs[test][m.atexit]]
  <2>1. /\ th' = [th EXCEPT ![a] = t] /\ Keeps(a, [m EXCEPT !.atexit = "none"])
        /\ UNCHANGED <<ending, lock, file>>
    BY <1>3 DEF Exits, TypeOK, ThreadsOK
  <2>2. Programs[test][m.atexit] \in Seq(CallsOf(Programs[test]))
    <3>1. m.atexit \in DOMAIN Programs[test] BY <1>3 DEF Memory
    <3> QED BY <3>1, RoutineCalls
  <2>3. t \in Thread /\ t.state = th[a].state /\ t.process = th[a].process
        /\ t.parent = th[a].parent
    BY <2>2, ThreadTyped DEF Thread
  <2> HIDE DEF t
  <2>4. [m EXCEPT !.atexit = "none"] \in Memory BY DEF Memory
  <2>5. Acts(a) BY <2>1, <2>3, <2>4 DEF Acts, Keeps
  <2>6. ObjectsOK' BY <2>1 DEF TypeOK, ObjectsOK
  <2> QED BY <1>2, <2>1, <2>5, <2>6, QuietType
<1>4. CASE ~(m.atexit # "none" /\ bug # "atexit_skipped")
  <2>1. Ends(Me(a), code) /\ file' \in {file, "x"} BY <1>4 DEF Exits
  <2>2. PICK r \in {"pass", "fail", "killed"} : Dies(Me(a), code, r) BY <2>1 DEF Ends
  <2>3. ThreadsOK' /\ FamiliesOK' /\ MainOK' BY <1>1, <1>2, <2>2, DiesStep
  <2>4. ObjectsOK' BY <2>1 DEF TypeOK, ObjectsOK
  <2> QED BY <1>2, <2>3, <2>4 DEF TypeOK
<1> QED BY <1>3, <1>4

LEMMA MainReturnsType == ASSUME TypeOK, NEW a \in Actors, MainReturns(a) PROVE TypeOK'
<1>1. Runs(a) /\ Exits(a, Mine(a), Mine(a).status) /\ UNCHANGED <<fixed, ipc, pipe, history>>
  BY DEF MainReturns
<1>2. Mine(a) \in Memory BY <1>1, RunnerLives
<1>3. Mine(a).status \in Int BY <1>2 DEF Memory
<1> QED BY <1>1, <1>2, <1>3, ExitsStep

\* A thread that is done stays in its process.
LEMMA ThreadEndsType == ASSUME TypeOK, NEW a \in Actors, ThreadEnds(a) PROVE TypeOK'
<1>1. Runs(a) /\ UNCHANGED <<fixed, ipc, pipe, history>> BY AtFacts DEF ThreadEnds
<1>2. Mine(a) \in Memory /\ Me(a) \in Actors /\ Lives(Me(a)) /\ th[a].process = Me(a)
  BY <1>1, RunnerLives
<1>3. DataDestroyed(a) \in Memory
  <2> DEFINE v == IF bug = "destructor_skipped" THEN Mine(a).var[th[a].tsd] ELSE 1
  <2>1. th[a].tsd \in Variables BY ThreadTyped
  <2>2. v \in Int
    <3>1. Mine(a).var \in [Variables -> Int] BY <1>2 DEF Memory
    <3> QED BY <2>1, <3>1
  <2>3. DataDestroyed(a) = [Mine(a) EXCEPT !.var[th[a].tsd] = v] BY DEF DataDestroyed
  <2> HIDE DEF v
  <2> QED BY <1>2, <2>1, <2>2, <2>3, VarTyped
<1>4. CASE a = Me(a)
  <2>1. Exits(a, DataDestroyed(a), 0) BY <1>4 DEF ThreadEnds
  <2> QED BY <1>1, <1>3, <2>1, ExitsStep
<1>5. CASE a # Me(a)
  <2> DEFINE t == [th[a] EXCEPT !.state = "done", !.calls = <<>>]
  <2>1. /\ th' = [th EXCEPT ![a] = t] /\ Keeps(a, DataDestroyed(a))
        /\ UNCHANGED <<ending, lock, file>>
    BY <1>5 DEF ThreadEnds, TypeOK, ThreadsOK
  <2>2. t \in Thread /\ t.state = "done" /\ t.process = th[a].process
        /\ t.parent = th[a].parent
    <3>1. <<>> \in Seq(CallsOf(Programs[test])) OBVIOUS
    <3> QED BY <3>1, ThreadTyped DEF Thread
  <2> HIDE DEF t
  <2>3. th' \in [Actors -> Thread] /\ th'[a] = t /\ \A c \in Actors \ {a} : th'[c] = th[c]
    BY <2>1, <2>2 DEF TypeOK, ThreadsOK
  <2>4. mem' \in [Actors -> Memory] /\ \A c \in Actors : c # Me(a) => mem'[c] = mem[c]
    BY <1>3, <2>1 DEF Keeps, TypeOK, ThreadsOK
  <2>5. ~Lives(a) /\ ~LivesOn(a) BY <1>2, <1>5, <2>2, <2>3 DEF Lives, LivesOn
  <2>6. \A c \in Actors : LivesOn(c) <=> Lives(c) BY <2>3, <2>5 DEF Lives, LivesOn
  <2>7. ASSUME NEW c \in Actors PROVE FamilyOn(c)
    <3>1. ~Lives(c) => mem'[c] = Fresh BY <1>2, <2>4, FamilyFacts
    <3>2. CASE c = a
      <4>1. th[a].parent = Nobody BY <1>2, <1>5, FamilyFacts
      <4> QED BY <1>2, <2>2, <2>3, <2>6, <3>1, <3>2, <4>1 DEF FamilyOn
    <3>3. CASE c # a BY <2>3, <2>6, <3>1, <3>3, FamilyFacts DEF FamilyOn
    <3> QED BY <3>2, <3>3
  <2>8. FlagsOK' /\ test' = test BY <1>1, SameFlags
  <2>9. ObjectsOK' BY <1>1, <2>1 DEF TypeOK, ObjectsOK
  <2>10. \A c \in Actors : Lives(c) => LivesOn(c) /\ th'[c].parent = th[c].parent
    BY <2>3, <2>5, <2>6
  <2>11. MainOK' BY <2>1, <2>10, SameMain
  <2> QED BY <2>3, <2>4, <2>7, <2>8, <2>9, <2>11, ThreadsNext, FamiliesNext DEF TypeOK
<1> QED BY <1>4, <1>5

LEMMA ExitsNowType == ASSUME TypeOK, NEW a \in Actors, ExitsNow(a) PROVE TypeOK'
<1>1. /\ Runs(a) /\ th[a].calls # <<>> /\ Ends(Me(a), ExitCode(a))
      /\ UNCHANGED <<fixed, ipc, pipe, file, history>>
  BY AtFacts DEF ExitsNow, MayExit
<1>2. Mine(a) \in Memory /\ Me(a) \in Actors /\ Lives(Me(a)) BY <1>1, RunnerLives
<1>3. ExitCode(a) \in Int
  <2>1. Mine(a).status \in Int BY <1>2 DEF Memory
  <2>2. Now(a).op = "_exit" => Now(a).obj \in Int BY <1>1, NowNames DEF Names
  <2> QED BY <2>1, <2>2 DEF ExitCode
<1>4. PICK r \in {"pass", "fail", "killed"} : Dies(Me(a), ExitCode(a), r) BY <1>1 DEF Ends
<1>5. FlagsOK' /\ test' = test BY <1>1, SameFlags
<1>6. ObjectsOK' BY <1>1 DEF TypeOK, ObjectsOK
<1> QED BY <1>2, <1>3, <1>4, <1>5, <1>6, DiesStep DEF TypeOK

LEMMA TimeIsOverType == ASSUME TypeOK, TimeIsOver PROVE TypeOK'
<1>1. main \in Actors /\ Lives(main) /\ Dies(main, 137, "killed")
      /\ UNCHANGED <<fixed, ipc, pipe, file, history>>
  BY MainFacts DEF TimeIsOver
<1>2. FlagsOK' /\ test' = test BY <1>1, SameFlags
<1>3. ObjectsOK' BY <1>1 DEF TypeOK, ObjectsOK
<1> QED BY <1>1, <1>2, <1>3, DiesStep DEF TypeOK

\* A library that forks before it fails: the caller ends, its child goes on.
LEMMA DaemonFailsType == ASSUME TypeOK, NEW a \in Actors, DaemonFails(a) PROVE TypeOK'
<1>1. Runs(a) /\ th[a].calls # <<>> /\ UNCHANGED <<fixed, history, ipc, pipe, file>>
  BY AtFacts DEF DaemonFails
<1>2. FlagsOK' /\ test' = test /\ ObjectsOK' BY <1>1, SameFlags DEF TypeOK, ObjectsOK
<1>3. CASE bug # "daemon_forks"
  <2>1. Goes(a) /\ UNCHANGED <<mem, lock, ending>> BY <1>3 DEF DaemonFails
  <2>2. Acts(a) BY <1>1, <2>1, GoesActs
  <2> QED BY <1>1, <1>2, <2>1, <2>2, QuietType
<1>4. CASE bug = "daemon_forks"
  <2> DEFINE calls == Tail(th[a].calls)
             d == [Child(a, calls) EXCEPT !.parent = Nobody]
             m == [Mine(a) EXCEPT !.var["moved"] = 1]
  <2>1. PICK b \in Actors : b = Me(a) /\ Lives(b) BY <1>1, RunnerLives
  <2>2. PICK n \in Actors : n = Newcomer /\ th[n].state = "none"
    BY <1>4, NewcomerFree DEF DaemonFails
  <2>3. /\ th' = [Ended(b, 0) EXCEPT ![n] = d] /\ mem' = [mem EXCEPT ![b] = Fresh, ![n] = m]
        /\ Gone(b, "pass")
    BY <1>4, <2>1, <2>2 DEF DaemonFails
  <2>4. b # n BY <2>1, <2>2 DEF Lives
  <2>5. d \in Thread /\ d.state = "running" /\ d.process = n /\ d.parent = Nobody
    <3>1. calls \in Seq(CallsOf(Programs[test])) BY <1>1, NowNames
    <3>2. Free # {} BY <1>4 DEF DaemonFails
    <3> HIDE DEF calls
    <3>3. /\ Child(a, calls) \in Thread /\ Child(a, calls).state = "running"
          /\ Child(a, calls).process = n
      BY <1>1, <2>2, <3>1, <3>2, ChildTyped
    <3> QED BY <3>3 DEF Thread
  <2>6. m \in Memory
    <3>1. Mine(a) \in Memory /\ "moved" \in Variables BY <1>1, RunnerLives DEF Variables
    <3> QED BY <3>1, VarTyped
  <2> HIDE DEF d, m
  <2>7. Ended(b, 0) \in [Actors -> Thread] BY <2>1, EndedFacts
  <2>8. /\ th' \in [Actors -> Thread] /\ th'[n] = d
        /\ \A c \in Actors \ {n} : th'[c] = Ended(b, 0)[c]
    BY <2>3, <2>5, <2>7
  <2>9. /\ mem' \in [Actors -> Memory] /\ mem'[b] = Fresh
        /\ \A c \in Actors \ {n, b} : mem'[c] = mem[c]
    BY <2>3, <2>4, <2>6, FreshTyped DEF TypeOK, ThreadsOK
  <2>10. EndedBut(b, 0, {n}) BY <2>2, <2>5, <2>8, <2>9 DEF LivesOn, EndedBut
  <2>11. ThreadsOK' /\ FamiliesOK' /\ OthersLive(b)
    BY <1>2, <2>1, <2>10, EndedStep
  <2>12. PICK r \in {"pass", "fail", "killed"} : Gone(b, r) BY <2>3
  <2>13. MainOK' BY <2>11, <2>12, GoneStep
  <2> QED BY <1>2, <2>11, <2>13 DEF TypeOK
<1> QED BY <1>3, <1>4

-----------------------------------------------------------------------------
(* The theorem. *)

\* A test begins with one process, which has no parent.
LEMMA InitType == ASSUME Init PROVE TypeOK
<1>1. /\ test \in Tests /\ round = 1 /\ main = 1 /\ lock = Nobody /\ pipe = <<>>
      /\ file = "none" /\ result = "none" /\ ipc = [id |-> 0, last |-> 0, value |-> 0]
      /\ orphaned = FALSE /\ shown = Constant /\ counted = FALSE
  BY DEF Init
<1>2. /\ th = [a \in Actors |-> IF a = 1 THEN First(1) ELSE Nothing]
      /\ mem = [a \in Actors |-> Fresh]
  BY DEF Init
<1>3. First(1) \in Thread
  <2>1. "main" \in DOMAIN Programs[test] BY <1>1, ProgramsAssumption
  <2>2. Programs[test]["main"] \in Seq(CallsIn(Programs[test]["main"]))
    BY <1>1, <2>1, ProgramsAssumption
  <2>3. CallsIn(Programs[test]["main"]) \subseteq CallsOf(Programs[test])
    BY <2>1 DEF CallsOf
  <2>4. Programs[test]["main"] \in Seq(CallsOf(Programs[test]))
    BY <2>2, <2>3, SeqMonotonic
  <2> DEFINE calls == Programs[test]["main"]
  <2>5. First(1) = [Nothing EXCEPT !.state = "running", !.process = 1, !.calls = calls]
    BY DEF First
  <2>6. calls \in Seq(CallsOf(Programs[test])) BY <2>4
  <2> HIDE DEF calls
  <2> QED BY <2>5, <2>6, NothingTyped, ActorsAssumption DEF Thread
<1>4. First(1).state = "running" /\ First(1).process = 1 /\ First(1).parent = Nobody
  BY DEF First, Nothing
<1>n. Nothing \in Thread /\ Nothing.state = "none" /\ Nothing.parent = Nobody
  BY NothingTyped DEF Nothing
<1>5. 1 \in Actors /\ Nobody \notin Actors BY ActorsAssumption
<1>6. /\ th[1] = First(1) /\ (\A a \in Actors : a # 1 => th[a] = Nothing)
      /\ \A a \in Actors : mem[a] = Fresh
  BY <1>2, <1>5
<1>7. ThreadsOK
  <2>1. th \in [Actors -> Thread] BY <1>2, <1>3, <1>n
  <2>2. mem \in [Actors -> Memory] BY <1>2, FreshTyped
  <2> QED BY <2>1, <2>2 DEF ThreadsOK
<1>8. Lives(1) BY <1>4, <1>6 DEF Lives
<1>9. FamiliesOK
  <2> SUFFICES ASSUME NEW a \in Actors
        PROVE  /\ th[a].state = "none" => th[a] = Nothing
               /\ th[a].state \in {"running", "done"} =>
                    th[a].process \in Actors /\ Lives(th[a].process)
               /\ th[a].state = "zombie" => th[a].process = a /\ th[a].parent # Nobody
               /\ th[a].parent # Nobody =>
                    th[a].process = a /\ th[a].parent # a /\ Lives(th[a].parent)
               /\ ~Lives(a) => mem[a] = Fresh
    BY DEF FamiliesOK
  <2>1. CASE a = 1 BY <1>4, <1>5, <1>6, <1>8, <2>1
  <2>2. CASE a # 1 BY <1>6, <1>n, <2>2
  <2> QED BY <2>1, <2>2
<1>10. MainOK BY <1>1, <1>4, <1>5, <1>6, <1>8 DEF MainOK
<1>11. ObjectsOK
  <2>1. <<>> \in Seq(Int) OBVIOUS
  <2> QED BY <1>1, <2>1 DEF ObjectsOK
<1>12. FlagsOK BY <1>1 DEF FlagsOK, Constant
<1> QED BY <1>7, <1>9, <1>10, <1>11, <1>12 DEF TypeOK

LEMMA StepType == ASSUME TypeOK, NEW a \in Actors, Step(a) PROVE TypeOK'
BY MainReturnsType, ThreadEndsType, ExitsNowType, GoesOnType, ForksType, WaitsType,
   ThreadCreatedType, ThreadJoinedType, RaisesType, KillsType, HandlesSignalType,
   HandlesForkType, AwaitsSignalsType, GetsObjectType, RemovesObjectType,
   LooksAtObjectType, PutsType, TakesType, ChecksVariableType, SetsVariableType,
   SetsSpecificType, SetsLockType, WritesPipeType, ReadsPipeType, UsesFileType,
   DaemonFailsType
   DEF Step

LEMMA SameType == ASSUME TypeOK, UNCHANGED vars PROVE TypeOK'
<1>1. /\ th' = th /\ mem' = mem /\ UNCHANGED ending /\ UNCHANGED objects
      /\ UNCHANGED <<fixed, history>>
  BY DEF vars, ending, objects, fixed, history
<1>2. FlagsOK' /\ test' = test /\ ObjectsOK' /\ lock' = lock BY <1>1, SameFlags, SameObjects
<1>3. Steady BY <1>1 DEF Steady
<1>4. th' \in [Actors -> Thread] /\ mem' \in [Actors -> Memory] BY <1>1 DEF TypeOK, ThreadsOK
<1> QED BY <1>1, <1>2, <1>3, <1>4, SteadyStep DEF TypeOK

LEMMA NextType == ASSUME TypeOK, [Next]_vars PROVE TypeOK'
<1>1. ASSUME NEW a \in Actors, Step(a) PROVE TypeOK' BY <1>1, StepType
<1> QED BY <1>1, TimeIsOverType, StartsStaticType, SameType DEF Next, Rests

\* Whatever the tests do, a thread belongs to a process that lives, a process
\* that is dead waits for a parent that lives, runtest waits for a process that
\* lives, and the record lock is given back by a process that ends (the calls
\* of the tests in src/functional and src/regression).
THEOREM TypeCorrect == Spec => []TypeOK
<1>1. Init => TypeOK BY InitType
<1>2. TypeOK /\ [Next]_vars => TypeOK' BY NextType
<1> QED BY <1>1, <1>2, PTL DEF Spec
-----------------------------------------------------------------------------
(* Texts: what is ahead is ahead still when a call has been made. *)

LEMMA TailFacts ==
  ASSUME NEW S, NEW s \in Seq(S), s # <<>>
  PROVE  /\ Len(s) \in Nat /\ Len(s) >= 1 /\ s[1] = Head(s)
         /\ Tail(s) \in Seq(S) /\ Len(Tail(s)) = Len(s) - 1
         /\ \A k \in 1..(Len(s) - 1) : Tail(s)[k] = s[k + 1]
         /\ DOMAIN Tail(s) = 1..(Len(s) - 1) /\ DOMAIN s = 1..Len(s)
<1>1. Len(s) \in Nat /\ DOMAIN s = 1..Len(s) OBVIOUS
<1>2. Tail(s) \in Seq(S) /\ Len(Tail(s)) = Len(s) - 1 /\ Len(s) >= 1
  BY HeadTailProperties, EmptySeq
<1>3. \A k \in 1..(Len(s) - 1) : Tail(s)[k] = s[k + 1] BY HeadTailProperties
<1> QED BY <1>1, <1>2, <1>3

LEMMA WaitedTail ==
  ASSUME NEW S, NEW s \in Seq(S), s # <<>>
  PROVE  /\ \A i \in Nat : Waited(s, i + 1) => Waited(Tail(s), i)
         /\ Waited(s, 0) /\ Head(s).op # "wait" =>
              Head(s).op \notin Leaving \cup {"fork", "unlink"} /\ Waited(Tail(s), 0)
<1> DEFINE B == Leaving \cup {"fork", "unlink"}
           t == Tail(s)
<1>1. /\ Len(s) \in Nat /\ Len(s) >= 1 /\ s[1] = Head(s) /\ Len(t) = Len(s) - 1
      /\ \A k \in 1..(Len(s) - 1) : t[k] = s[k + 1]
  BY TailFacts
<1> HIDE DEF t, B
<1>2. ASSUME NEW i \in Nat, NEW j \in (i + 2)..Len(s), s[j].op = "wait",
             \A k \in (i + 2)..(j - 1) : s[k].op \notin B
      PROVE  Waited(t, i)
  <2>1. j - 1 \in (i + 1)..Len(t) /\ t[j - 1].op = "wait" BY <1>1, <1>2
  <2>2. \A k \in (i + 1)..((j - 1) - 1) : t[k].op \notin B BY <1>1, <1>2
  <2> QED BY <2>1, <2>2 DEF Waited, B
<1>3. ASSUME NEW i \in Nat, Waited(s, i + 1) PROVE Waited(t, i)
  <2>1. PICK j \in ((i + 1) + 1)..Len(s) :
          s[j].op = "wait" /\ \A k \in ((i + 1) + 1)..(j - 1) : s[k].op \notin B
    BY <1>3 DEF Waited, B
  <2>2. (i + 1) + 1 = i + 2 OBVIOUS
  <2>3. j \in (i + 2)..Len(s) /\ \A k \in (i + 2)..(j - 1) : s[k].op \notin B
    BY <2>1, <2>2
  <2> QED BY <1>2, <2>1, <2>3
<1>4. ASSUME Waited(s, 0), Head(s).op # "wait" PROVE Head(s).op \notin B /\ Waited(t, 0)
  <2>1. PICK j \in (0 + 1)..Len(s) :
          s[j].op = "wait" /\ \A k \in (0 + 1)..(j - 1) : s[k].op \notin B
    BY <1>4 DEF Waited, B
  <2>2. j # 1 BY <1>1, <1>4, <2>1
  <2>3. 1 \in (0 + 1)..(j - 1) /\ j \in (0 + 2)..Len(s) BY <1>1, <2>1, <2>2
  <2>4. Head(s).op \notin B BY <1>1, <2>1, <2>3
  <2> QED BY <1>1, <1>2, <2>1, <2>3, <2>4
<1> QED BY <1>3, <1>4 DEF t, B

LEMMA UnlinkedTail ==
  ASSUME NEW S, NEW s \in Seq(S), s # <<>>
  PROVE  /\ \A i \in Nat : Unlinked(s, i + 1) => Unlinked(Tail(s), i)
         /\ Unlinked(s, 0) /\ Head(s).op # "unlink" => Unlinked(Tail(s), 0)
<1> DEFINE t == Tail(s)
<1>1. /\ Len(s) \in Nat /\ Len(s) >= 1 /\ s[1] = Head(s) /\ Len(t) = Len(s) - 1
      /\ \A k \in 1..(Len(s) - 1) : t[k] = s[k + 1]
  BY TailFacts
<1> HIDE DEF t
<1>2. ASSUME NEW i \in Nat, NEW j \in (i + 2)..Len(s), s[j].op = "unlink" PROVE Unlinked(t, i)
  <2>1. j - 1 \in (i + 1)..Len(t) /\ t[j - 1].op = "unlink" BY <1>1, <1>2
  <2> QED BY <2>1 DEF Unlinked
<1>3. ASSUME NEW i \in Nat, Unlinked(s, i + 1) PROVE Unlinked(t, i)
  <2>1. PICK j \in ((i + 1) + 1)..Len(s) : s[j].op = "unlink" BY <1>3 DEF Unlinked
  <2> QED BY <1>1, <1>2, <2>1
<1>4. ASSUME Unlinked(s, 0), Head(s).op # "unlink" PROVE Unlinked(t, 0)
  <2>1. PICK j \in (0 + 1)..Len(s) : s[j].op = "unlink" BY <1>4 DEF Unlinked
  <2>2. j \in (0 + 2)..Len(s) BY <1>1, <1>4, <2>1
  <2> QED BY <1>2, <2>1, <2>2
<1> QED BY <1>3, <1>4 DEF t

LEMMA ExitCheckedTail ==
  ASSUME NEW S, NEW s \in Seq(S), s # <<>>
  PROVE  /\ \A i \in Nat : ExitChecked(s, i + 1) => ExitChecked(Tail(s), i)
         /\ ExitChecked(s, 0) /\ Head(s).op # "wait" =>
              Head(s).op # "fork" /\ ExitChecked(Tail(s), 0)
         /\ ExitChecked(s, 0) /\ Head(s).op = "wait" =>
              Tail(s) # <<>> /\ ChecksExit(Head(Tail(s)))
<1> DEFINE B == {"wait", "fork"}
           t == Tail(s)
<1>1. /\ Len(s) \in Nat /\ Len(s) >= 1 /\ s[1] = Head(s) /\ Len(t) = Len(s) - 1
      /\ \A k \in 1..(Len(s) - 1) : t[k] = s[k + 1]
      /\ t \in Seq(S)
  BY TailFacts
<1>t. t # <<>> => Head(t) = t[1] BY <1>1
<1> HIDE DEF t, B
<1>2. ASSUME NEW i \in Nat, NEW j \in (i + 2)..(Len(s) - 1), s[j].op = "wait",
             ChecksExit(s[j + 1]), \A k \in (i + 2)..(j - 1) : s[k].op \notin B
      PROVE  ExitChecked(t, i)
  <2>1. j - 1 \in (i + 1)..(Len(t) - 1) /\ t[j - 1] = s[j] /\ t[(j - 1) + 1] = s[j + 1]
    BY <1>1, <1>2
  <2>2. ASSUME NEW k \in (i + 1)..((j - 1) - 1) PROVE t[k].op \notin B
    <3>1. k + 1 \in (i + 2)..(j - 1) /\ k \in 1..(Len(s) - 1) BY <1>1, <1>2
    <3>2. t[k] = s[k + 1] BY <1>1, <3>1
    <3> QED BY <1>2, <3>1, <3>2
  <2> QED BY <1>2, <2>1, <2>2 DEF ExitChecked, B
<1>3. ASSUME NEW i \in Nat, ExitChecked(s, i + 1) PROVE ExitChecked(t, i)
  <2>1. PICK j \in ((i + 1) + 1)..(Len(s) - 1) :
          /\ s[j].op = "wait" /\ ChecksExit(s[j + 1])
          /\ \A k \in ((i + 1) + 1)..(j - 1) : s[k].op \notin B
    BY <1>3 DEF ExitChecked, B
  <2>2. (i + 1) + 1 = i + 2 OBVIOUS
  <2>3. j \in (i + 2)..(Len(s) - 1) /\ \A k \in (i + 2)..(j - 1) : s[k].op \notin B
    BY <2>1, <2>2
  <2> QED BY <1>2, <2>1, <2>3
<1>4. ASSUME ExitChecked(s, 0)
      PROVE  /\ Head(s).op # "wait" => Head(s).op # "fork" /\ ExitChecked(t, 0)
             /\ Head(s).op = "wait" => t # <<>> /\ ChecksExit(Head(t))
  <2>1. PICK j \in (0 + 1)..(Len(s) - 1) :
          /\ s[j].op = "wait" /\ ChecksExit(s[j + 1])
          /\ \A k \in (0 + 1)..(j - 1) : s[k].op \notin B
    BY <1>4 DEF ExitChecked, B
  <2>2. CASE j = 1
    <3>1. t[1] = s[2] /\ ChecksExit(s[2]) /\ Len(t) # 0 BY <1>1, <2>1, <2>2
    <3>2. t # <<>> BY <3>1
    <3> QED BY <1>1, <1>t, <2>1, <2>2, <3>1, <3>2
  <2>3. CASE j # 1
    <3>1. 1 \in (0 + 1)..(j - 1) /\ j \in (0 + 2)..(Len(s) - 1) BY <1>1, <2>1, <2>3
    <3>2. Head(s).op \notin B BY <1>1, <2>1, <3>1
    <3>3. ExitChecked(t, 0) BY <1>2, <2>1, <3>1
    <3> QED BY <3>2, <3>3 DEF B
  <2> QED BY <2>2, <2>3
<1> QED BY <1>3, <1>4 DEF t

LEMMA RemovedTail ==
  ASSUME NEW S, NEW s \in Seq(S), s # <<>>, NEW p
  PROVE  /\ \A i \in Nat : Removed(p, s, i + 1) => Removed(p, Tail(s), i)
         /\ Removed(p, s, 0) =>
              \/ Removed(p, Tail(s), 0)
              \/ /\ Head(s).op = "fork" /\ ExitChecked(Tail(s), 0)
                 /\ \E c \in CallsIn(p[Head(s).obj]) : Removes(c)
<1> DEFINE t == Tail(s)
           F(c) == c.op = "fork" /\ \E d \in CallsIn(p[c.obj]) : Removes(d)
<1>1. /\ Len(s) \in Nat /\ Len(s) >= 1 /\ s[1] = Head(s) /\ Len(t) = Len(s) - 1
      /\ \A k \in 1..(Len(s) - 1) : t[k] = s[k + 1]
  BY TailFacts
<1>e. \A j \in Nat : ExitChecked(s, j + 1) => ExitChecked(t, j) BY ExitCheckedTail
<1> HIDE DEF t, F
<1>2. ASSUME NEW i \in Nat, NEW j \in (i + 2)..Len(s), F(s[j]), ExitChecked(s, j)
      PROVE  Removed(p, t, i)
  <2>1. j - 1 \in (i + 1)..Len(t) /\ t[j - 1] = s[j] /\ j - 1 \in Nat /\ (j - 1) + 1 = j
    BY <1>1
  <2>2. ExitChecked(t, j - 1) BY <1>e, <1>2, <2>1
  <2> QED BY <1>2, <2>1, <2>2 DEF Removed, F
<1>3. ASSUME NEW i \in Nat, Removed(p, s, i + 1) PROVE Removed(p, t, i)
  <2>1. PICK j \in ((i + 1) + 1)..Len(s) : F(s[j]) /\ ExitChecked(s, j)
    BY <1>3 DEF Removed, F
  <2> QED BY <1>1, <1>2, <2>1
<1>4. ASSUME Removed(p, s, 0)
      PROVE  Removed(p, t, 0) \/ (F(Head(s)) /\ ExitChecked(t, 0))
  <2>1. PICK j \in (0 + 1)..Len(s) : F(s[j]) /\ ExitChecked(s, j) BY <1>4 DEF Removed, F
  <2>2. CASE j = 1
    <3>1. ExitChecked(s, 0 + 1) BY <2>1, <2>2
    <3> QED BY <1>1, <1>e, <2>1, <2>2, <3>1
  <2>3. CASE j # 1
    <3>1. j \in (0 + 2)..Len(s) BY <1>1, <2>1, <2>3
    <3> QED BY <1>2, <2>1, <3>1
  <2> QED BY <2>2, <2>3
<1> QED BY <1>3, <1>4 DEF t, F

LEMMA CleansUpTail ==
  ASSUME NEW S, NEW s \in Seq(S), s # <<>>, NEW p, CleansUp(p, s)
  PROVE  /\ CleansUp(p, Tail(s)) /\ Head(s).op # "fwrite"
         /\ Head(s).op = "fork" =>
              Waited(Tail(s), 0) /\ (WritesFile(p) => Unlinked(Tail(s), 0))
         /\ Head(s).op = "mkstemp" => Unlinked(Tail(s), 0)
         /\ MakesObject(Head(s)) => Removed(p, Tail(s), 0)
<1> DEFINE t == Tail(s)
<1>1. /\ Len(s) \in Nat /\ Len(s) >= 1 /\ s[1] = Head(s) /\ Len(t) = Len(s) - 1
      /\ \A k \in 1..(Len(s) - 1) : t[k] = s[k + 1]
      /\ DOMAIN t = 1..(Len(s) - 1) /\ DOMAIN s = 1..Len(s)
  BY TailFacts
<1>2. \A i \in Nat : /\ Waited(s, i + 1) => Waited(t, i)
                     /\ Unlinked(s, i + 1) => Unlinked(t, i)
                     /\ Removed(p, s, i + 1) => Removed(p, t, i)
  BY WaitedTail, UnlinkedTail, RemovedTail
<1> HIDE DEF t
<1>3. ASSUME NEW i \in 0..(Len(s) - 1)
      PROVE  /\ s[i + 1].op = "fork" => Waited(t, i) /\ (WritesFile(p) => Unlinked(t, i))
             /\ s[i + 1].op = "mkstemp" => Unlinked(t, i)
             /\ MakesObject(s[i + 1]) => Removed(p, t, i)
             /\ s[i + 1].op # "fwrite"
  <2>1. i + 1 \in DOMAIN s /\ i \in Nat BY <1>1
  <2>2. /\ s[i + 1].op = "fork" => Waited(s, i + 1) /\ (WritesFile(p) => Unlinked(s, i + 1))
        /\ s[i + 1].op = "mkstemp" => Unlinked(s, i + 1)
        /\ MakesObject(s[i + 1]) => Removed(p, s, i + 1)
        /\ s[i + 1].op # "fwrite"
    BY <2>1 DEF CleansUp
  <2> QED BY <1>2, <2>1, <2>2
<1>4. ASSUME NEW i \in DOMAIN t
      PROVE  /\ t[i].op = "fork" => Waited(t, i) /\ (WritesFile(p) => Unlinked(t, i))
             /\ t[i].op = "mkstemp" => Unlinked(t, i)
             /\ MakesObject(t[i]) => Removed(p, t, i)
             /\ t[i].op # "fwrite"
  <2>1. i \in 0..(Len(s) - 1) /\ t[i] = s[i + 1] BY <1>1
  <2> QED BY <1>3, <2>1
<1>5. CleansUp(p, t) BY <1>4 DEF CleansUp
<1>6. 0 \in 0..(Len(s) - 1) /\ 0 + 1 = 1 BY <1>1
<1> QED BY <1>1, <1>3, <1>5, <1>6 DEF t

LEMMA ModestTail ==
  ASSUME NEW S, NEW s \in Seq(S), s # <<>>, Modest(s)
  PROVE  Modest(Tail(s)) /\ Head(s).op \notin {"fork", "mkstemp"} /\ ~MakesObject(Head(s))
<1>1. /\ Len(s) \in Nat /\ Len(s) >= 1 /\ s[1] = Head(s) /\ DOMAIN s = 1..Len(s)
      /\ \A k \in 1..(Len(s) - 1) : Tail(s)[k] = s[k + 1]
      /\ DOMAIN Tail(s) = 1..(Len(s) - 1)
  BY TailFacts
<1>2. \A k \in 1..(Len(s) - 1) : k + 1 \in DOMAIN s BY <1>1
<1>3. 1 \in DOMAIN s BY <1>1
<1> QED BY <1>1, <1>2, <1>3 DEF Modest

LEMMA EndsAloneTail ==
  ASSUME NEW S, NEW s \in Seq(S), EndsAlone(s), Head(s).op # "pthread_exit"
  PROVE  EndsAlone(Tail(s))
<1>0. s # <<>> BY DEF EndsAlone
<1>1. /\ Len(s) \in Nat /\ Len(s) >= 1 /\ s[1] = Head(s) /\ DOMAIN s = 1..Len(s)
      /\ \A k \in 1..(Len(s) - 1) : Tail(s)[k] = s[k + 1]
      /\ Tail(s) \in Seq(S) /\ Len(Tail(s)) = Len(s) - 1
      /\ DOMAIN Tail(s) = 1..(Len(s) - 1)
  BY <1>0, TailFacts
<1>2. Len(s) # 1 BY <1>1 DEF EndsAlone
<1>3. Tail(s) # <<>>
  <2>1. Len(Tail(s)) # 0 BY <1>1, <1>2
  <2>2. Len(<<>>) = 0 OBVIOUS
  <2> QED BY <2>1, <2>2
<1>4. Tail(s)[Len(Tail(s))] = s[Len(s)] BY <1>1, <1>2
<1>5. \A k \in 1..(Len(s) - 1) : k + 1 \in DOMAIN s BY <1>1
<1> QED BY <1>1, <1>3, <1>4, <1>5 DEF EndsAlone

LEMMA EmptyText == Modest(<<>>)
BY DEF Modest

\* A routine that is not main()'s has nothing to clean up.
LEMMA ModestCleansUp ==
  ASSUME NEW p, NEW s, Modest(s), \A i \in DOMAIN s : s[i].op # "fwrite"
  PROVE  CleansUp(p, s)
BY DEF Modest, CleansUp

\* Before a wait nothing that may end the process, and before its end no wait.
LEMMA WaitedNotEmpty ==
  /\ ~Waited(<<>>, 0) /\ ~Unlinked(<<>>, 0) /\ ~ExitChecked(<<>>, 0)
  /\ \A p : ~Removed(p, <<>>, 0)
<1>1. Len(<<>>) = 0 OBVIOUS
<1>2. (0 + 1)..Len(<<>>) = {} /\ (0 + 1)..(Len(<<>>) - 1) = {} BY <1>1
<1> QED BY <1>2 DEF Waited, Unlinked, ExitChecked, Removed

-----------------------------------------------------------------------------
(* Steps after which every process and thread is still what it was.        *)

NoFork(signals) == \A i \in DOMAIN signals : signals[i] # "fork"

\* What a step of thread a leaves alone.
Others(a) ==
  \A b \in Actors :
    /\ th'[b].state = th[b].state /\ th'[b].process = th[b].process
    /\ th'[b].parent = th[b].parent /\ th'[b].code = th[b].code
    /\ b # a => th'[b].calls = th[b].calls
    /\ NoFork(th[b].signals) => NoFork(th'[b].signals)
    /\ b # Me(a) => mem'[b] = mem[b]

\* Thread a has made call Now(a).
Makes(a) ==
  /\ th[a].calls # <<>> /\ th'[a].calls = Tail(th[a].calls)
  /\ Now(a).op \notin {"fork", "pthread_exit"}
  /\ Now(a).op = "wait" => Children(Me(a)) = {}
  /\ file' # file => Now(a).op \in {"mkstemp", "unlink"}
  /\ Now(a).op = "unlink" => file' = "none"
  /\ mem'[Me(a)].buffer # mem[Me(a)].buffer => Now(a).op = "fwrite"
  /\ mem'[Me(a)].atexit # mem[Me(a)].atexit =>
       Now(a).op = "atexit" /\ mem'[Me(a)].atexit = Now(a).obj
  /\ ipc'.id # ipc.id => ipc'.id = 0 \/ MakesObject(Now(a))
  /\ Removes(Now(a)) => ipc'.id = 0 \/ mem'[Me(a)].status = 1
  /\ ChecksExit(Now(a)) /\ mem[Me(a)].var["r"] = 1 => mem'[Me(a)].status = 1
\* Thread a has not made a call, but a signal has come or gone.
Stays(a) ==
  /\ th'[a].calls = th[a].calls /\ file' = file /\ ipc'.id = ipc.id
  /\ mem'[Me(a)].buffer = mem[Me(a)].buffer /\ mem'[Me(a)].atexit = mem[Me(a)].atexit
Moves(a) ==
  /\ Runs(a) /\ Others(a) /\ UNCHANGED <<fixed, ending, orphaned>>
  /\ mem'[Me(a)].status \in {mem[Me(a)].status, 1}
  /\ mem'[Me(a)].var["r"] = mem[Me(a)].var["r"]
  /\ Makes(a) \/ Stays(a)

LEMMA JudgedFacts ==
  ASSUME NEW m \in Memory, NEW c, NEW r
  PROVE  /\ Judged(m, c, r).status \in {m.status, 1} /\ Judged(m, c, r).var = m.var
         /\ Judged(m, c, r).buffer = m.buffer /\ Judged(m, c, r).atexit = m.atexit
         /\ r \notin c.want => Judged(m, c, r).status = 1
BY DEF Judged, Memory

\* Thread a goes on with a call that leaves m in memory.
LEMMA GoesShape ==
  ASSUME TypeOK, NEW a \in Actors, Runs(a), th[a].calls # <<>>, Goes(a),
         NEW m \in Memory, Keeps(a, m)
  PROVE  /\ Others(a) /\ th'[a].calls = Tail(th[a].calls)
         /\ mem'[Me(a)] = m /\ mem[Me(a)] = Mine(a)
<1>1. Me(a) \in Actors BY RunnerLives
<1>2. th \in [Actors -> Thread] /\ mem \in [Actors -> Memory] BY DEF TypeOK, ThreadsOK
<1>3. /\ Onward(a).state = th[a].state /\ Onward(a).process = th[a].process
      /\ Onward(a).parent = th[a].parent /\ Onward(a).calls = Tail(th[a].calls)
      /\ Onward(a).code = th[a].code /\ Onward(a).signals = th[a].signals
  BY <1>2 DEF Onward, Thread
<1>4. th'[a] = Onward(a) /\ \A b \in Actors : b # a => th'[b] = th[b]
  BY <1>2 DEF Goes
<1>5. mem'[Me(a)] = m /\ \A b \in Actors : b # Me(a) => mem'[b] = mem[b]
  BY <1>1, <1>2 DEF Keeps
<1>6. Others(a) BY <1>3, <1>4, <1>5 DEF Others
<1> QED BY <1>3, <1>4, <1>5, <1>6 DEF Mine

LEMMA SameMemory ==
  ASSUME TypeOK, NEW a \in Actors, Runs(a), UNCHANGED mem
  PROVE  Mine(a) \in Memory /\ Keeps(a, Mine(a))
BY RunnerLives DEF Keeps, Mine, TypeOK, ThreadsOK

\* Calls that do not touch what tidiness is about.
PlainOps == {"stop", "stop_child", "await", "value", "peek", "pipe", "close", "setspecific",
             "setlk", "write", "read", "put", "take", "daemon", "kill", "raise"}

LEMMA PlainMakes ==
  ASSUME NEW a, th[a].calls # <<>>, th'[a].calls = Tail(th[a].calls), Now(a).op \in PlainOps,
         file' = file, ipc'.id = ipc.id,
         mem'[Me(a)].buffer = mem[Me(a)].buffer, mem'[Me(a)].atexit = mem[Me(a)].atexit
  PROVE  Makes(a)
BY DEF Makes, PlainOps, MakesObject, Removes, ChecksExit

LEMMA PlainMoves ==
  ASSUME TypeOK, NEW a \in Actors, Runs(a), th[a].calls # <<>>, Now(a).op \in PlainOps, Goes(a),
         NEW m \in Memory, Keeps(a, m), m.status \in {Mine(a).status, 1},
         m.var["r"] = Mine(a).var["r"], m.buffer = Mine(a).buffer, m.atexit = Mine(a).atexit,
         UNCHANGED <<fixed, ending, orphaned>>, file' = file, ipc'.id = ipc.id
  PROVE  Moves(a)
<1>1. /\ Others(a) /\ th'[a].calls = Tail(th[a].calls)
      /\ mem'[Me(a)] = m /\ mem[Me(a)] = Mine(a)
  BY GoesShape
<1>2. Makes(a) BY <1>1, PlainMakes
<1> QED BY <1>1, <1>2 DEF Moves

LEMMA PlainReturns ==
  ASSUME TypeOK, NEW a \in Actors, Runs(a), th[a].calls # <<>>, Now(a).op \in PlainOps,
         NEW r, Returns(a, r),
         UNCHANGED <<fixed, ending, orphaned>>, file' = file, ipc'.id = ipc.id
  PROVE  Moves(a)
<1>1. Mine(a) \in Memory BY RunnerLives
<1>2. PICK m \in Memory : m = Judged(Mine(a), Now(a), r) BY <1>1, JudgedTyped
<1>3. /\ m.status \in {Mine(a).status, 1} /\ m.var = Mine(a).var
      /\ m.buffer = Mine(a).buffer /\ m.atexit = Mine(a).atexit
  BY <1>1, <1>2, JudgedFacts
<1>4. Goes(a) /\ Keeps(a, m) BY <1>2 DEF Returns, Judge
<1> QED BY <1>3, <1>4, PlainMoves

LEMMA PlainStays ==
  ASSUME TypeOK, NEW a \in Actors, Runs(a), th[a].calls # <<>>, Now(a).op \in PlainOps, Goes(a),
         UNCHANGED <<fixed, ending, orphaned, mem>>, file' = file, ipc'.id = ipc.id
  PROVE  Moves(a)
<1>1. Mine(a) \in Memory /\ Keeps(a, Mine(a)) BY SameMemory
<1> QED BY <1>1, PlainMoves

LEMMA RestFacts ==
  ASSUME UNCHANGED rest PROVE UNCHANGED <<fixed, ending, orphaned>>
BY DEF rest, history

LEMMA GoesOnMoves == ASSUME TypeOK, NEW a \in Actors, GoesOn(a) PROVE Moves(a)
<1>1. /\ Runs(a) /\ th[a].calls # <<>> /\ Goes(a) /\ Now(a).op \in PlainOps
      /\ UNCHANGED <<rest, mem, objects>>
  BY AtFacts DEF GoesOn, PlainOps
<1>2. file' = file /\ ipc' = ipc BY <1>1 DEF objects
<1> QED BY <1>1, <1>2, RestFacts, PlainStays

LEMMA AwaitsSignalsMoves == ASSUME TypeOK, NEW a \in Actors, AwaitsSignals(a) PROVE Moves(a)
<1>1. /\ Runs(a) /\ th[a].calls # <<>> /\ Goes(a) /\ Now(a).op \in PlainOps
      /\ UNCHANGED <<rest, mem, objects>>
  BY AtFacts DEF AwaitsSignals, PlainOps
<1>2. file' = file /\ ipc' = ipc BY <1>1 DEF objects
<1> QED BY <1>1, <1>2, RestFacts, PlainStays

LEMMA LooksAtObjectMoves == ASSUME TypeOK, NEW a \in Actors, LooksAtObject(a) PROVE Moves(a)
<1>1. /\ Runs(a) /\ th[a].calls # <<>> /\ Now(a).op \in PlainOps /\ UNCHANGED <<rest, objects>>
  BY AtFacts DEF LooksAtObject, PlainOps
<1>2. \E r : Returns(a, r) BY DEF LooksAtObject
<1>3. file' = file /\ ipc' = ipc BY <1>1 DEF objects
<1> QED BY <1>1, <1>2, <1>3, RestFacts, PlainReturns

LEMMA PutsMoves == ASSUME TypeOK, NEW a \in Actors, Puts(a) PROVE Moves(a)
<1>1. /\ Runs(a) /\ th[a].calls # <<>> /\ Now(a).op \in PlainOps /\ UNCHANGED rest
      /\ file' = file
  BY AtFacts DEF Puts, PlainOps
<1>2. \E r : Returns(a, r) BY DEF Puts
<1>3. ipc'.id = ipc.id BY DEF Puts, TypeOK, ObjectsOK
<1> QED BY <1>1, <1>2, <1>3, RestFacts, PlainReturns

LEMMA TakesMoves == ASSUME TypeOK, NEW a \in Actors, Takes(a) PROVE Moves(a)
<1>1. /\ Runs(a) /\ th[a].calls # <<>> /\ Now(a).op \in PlainOps /\ UNCHANGED rest
      /\ file' = file
  BY AtFacts DEF Takes, PlainOps
<1>t. ipc \in [id : Nat, last : Nat, value : Nat] BY DEF TypeOK, ObjectsOK
<1>2. (\E r : Returns(a, r)) /\ ipc'.id = ipc.id
  <2>1. CASE ~Valid(a) BY <2>1 DEF Takes
  <2>2. CASE Valid(a) /\ ipc.value > 0 BY <1>t, <2>2 DEF Takes
  <2>3. CASE Valid(a) /\ ~(ipc.value > 0)
    <3>1. ipc.value = 0 BY <1>t, <2>3
    <3> QED BY <1>t, <2>3, <3>1 DEF Takes
  <2> QED BY <2>1, <2>2, <2>3
<1> QED BY <1>1, <1>2, RestFacts, PlainReturns

LEMMA ReadsPipeMoves == ASSUME TypeOK, NEW a \in Actors, ReadsPipe(a) PROVE Moves(a)
<1>1. /\ Runs(a) /\ th[a].calls # <<>> /\ Now(a).op \in PlainOps /\ UNCHANGED rest
      /\ file' = file /\ ipc' = ipc
  BY AtFacts DEF ReadsPipe, PlainOps
<1>2. \E r : Returns(a, r) BY DEF ReadsPipe
<1> QED BY <1>1, <1>2, RestFacts, PlainReturns

LEMMA WritesPipeMoves == ASSUME TypeOK, NEW a \in Actors, WritesPipe(a) PROVE Moves(a)
<1>1. /\ Runs(a) /\ th[a].calls # <<>> /\ Now(a).op \in PlainOps /\ UNCHANGED <<rest, mem>>
      /\ file' = file /\ ipc' = ipc /\ Goes(a)
  BY AtFacts DEF WritesPipe, PlainOps
<1> QED BY <1>1, RestFacts, PlainStays

LEMMA SetsLockMoves == ASSUME TypeOK, NEW a \in Actors, SetsLock(a) PROVE Moves(a)
<1>1. /\ Runs(a) /\ th[a].calls # <<>> /\ Now(a).op \in PlainOps /\ UNCHANGED <<rest, mem>>
      /\ file' = file /\ ipc' = ipc /\ Goes(a)
  BY AtFacts DEF SetsLock, PlainOps
<1> QED BY <1>1, RestFacts, PlainStays

LEMMA DaemonFailsMoves ==
  ASSUME TypeOK, NEW a \in Actors, DaemonFails(a), bug = "none" PROVE Moves(a)
<1>1. /\ Runs(a) /\ th[a].calls # <<>> /\ Now(a).op \in PlainOps
      /\ UNCHANGED <<mem, ending, fixed, history>> /\ file' = file /\ ipc' = ipc /\ Goes(a)
  BY AtFacts DEF DaemonFails, PlainOps
<1>2. UNCHANGED <<fixed, ending, orphaned>> BY <1>1 DEF history
<1> QED BY <1>1, <1>2, PlainStays

\* Calls that tidiness is about.
LEMMA GetsObjectMoves == ASSUME TypeOK, NEW a \in Actors, GetsObject(a) PROVE Moves(a)
<1> DEFINE how == Now(a).obj
           r == IF how \in {"exclusive", "probe"} /\ ipc.id # 0 /\ bug # "excl_ignored" THEN EEXIST
                ELSE IF how = "plain" /\ ipc.id = 0 THEN Failed ELSE 0
           j == Judged(Mine(a), Now(a), r)
           i == IF how = "probe" THEN j.id ELSE IF r = 0 THEN ipc'.id ELSE Failed
           k == [j EXCEPT !.id = i]
<1>1. /\ Runs(a) /\ th[a].calls # <<>> /\ Now(a).op = "get" /\ Goes(a)
      /\ UNCHANGED <<rest, lock, pipe, file>>
  BY AtFacts DEF GetsObject
<1>2. Mine(a) \in Memory BY <1>1, RunnerLives
<1>3. j \in Memory /\ j.status \in {Mine(a).status, 1} /\ j.var = Mine(a).var
      /\ j.buffer = Mine(a).buffer /\ j.atexit = Mine(a).atexit
  BY <1>2, JudgedFacts, JudgedTyped
<1>4. ipc' = (IF r = 0 /\ ipc.id = 0 THEN NewObject ELSE ipc) /\ Keeps(a, k) BY DEF GetsObject
<1>5. ipc'.id # ipc.id => MakesObject(Now(a))
  <2>1. ipc.id \in Nat BY DEF TypeOK, ObjectsOK
  <2> QED BY <1>1, <1>4, <2>1 DEF MakesObject, Failed, EEXIST
<1>6. i \in Int
  <2>1. ipc'.id \in Int BY <1>4 DEF TypeOK, ObjectsOK, NewObject
  <2>2. j.id \in Int BY <1>3 DEF Memory
  <2> QED BY <2>1, <2>2 DEF Failed
<1> HIDE DEF i, j, r, how
<1>7. /\ k \in Memory /\ k.status = j.status /\ k.var = j.var
      /\ k.buffer = j.buffer /\ k.atexit = j.atexit
  BY <1>3, <1>6 DEF Memory
<1> HIDE DEF k
<1>8. /\ Others(a) /\ th'[a].calls = Tail(th[a].calls)
      /\ mem'[Me(a)] = k /\ mem[Me(a)] = Mine(a)
  BY <1>1, <1>4, <1>7, GoesShape
<1>9. ~Removes(Now(a)) /\ ~ChecksExit(Now(a)) BY <1>1 DEF Removes, ChecksExit
<1>10. Makes(a) BY <1>1, <1>3, <1>5, <1>7, <1>8, <1>9 DEF Makes
<1> QED BY <1>1, <1>3, <1>7, <1>8, <1>10, RestFacts DEF Moves

LEMMA ReturnsShape ==
  ASSUME TypeOK, NEW a \in Actors, Runs(a), th[a].calls # <<>>, NEW r, Returns(a, r)
  PROVE  /\ Others(a) /\ th'[a].calls = Tail(th[a].calls)
         /\ mem'[Me(a)].status \in {mem[Me(a)].status, 1}
         /\ mem'[Me(a)].var = mem[Me(a)].var
         /\ mem'[Me(a)].buffer = mem[Me(a)].buffer /\ mem'[Me(a)].atexit = mem[Me(a)].atexit
         /\ r \notin Now(a).want => mem'[Me(a)].status = 1
<1>1. Mine(a) \in Memory BY RunnerLives
<1>2. PICK m \in Memory : m = Judged(Mine(a), Now(a), r) BY <1>1, JudgedTyped
<1>3. /\ m.status \in {Mine(a).status, 1} /\ m.var = Mine(a).var
      /\ m.buffer = Mine(a).buffer /\ m.atexit = Mine(a).atexit
      /\ r \notin Now(a).want => m.status = 1
  BY <1>1, <1>2, JudgedFacts
<1>4. Goes(a) /\ Keeps(a, m) BY <1>2 DEF Returns, Judge
<1>5. /\ Others(a) /\ th'[a].calls = Tail(th[a].calls)
      /\ mem'[Me(a)] = m /\ mem[Me(a)] = Mine(a)
  BY <1>4, GoesShape
<1> QED BY <1>3, <1>5

LEMMA RemovesObjectMoves ==
  ASSUME TypeOK, NEW a \in Actors, RemovesObject(a), bug = "none" PROVE Moves(a)
<1>1. /\ Runs(a) /\ th[a].calls # <<>> /\ Now(a).op = "remove"
      /\ UNCHANGED <<rest, lock, pipe, file>>
  BY AtFacts DEF RemovesObject
<1>2. /\ ipc' = IF Valid(a) THEN [ipc EXCEPT !.id = 0] ELSE ipc
      /\ Returns(a, IF Valid(a) THEN 0 ELSE Failed)
  BY DEF RemovesObject
<1>3. IF Valid(a) THEN ipc'.id = 0 ELSE ipc' = ipc BY <1>2 DEF TypeOK, ObjectsOK
<1>4. PICK r : Returns(a, r) /\ (~Valid(a) => r = Failed) BY <1>2
<1>5. /\ Others(a) /\ th'[a].calls = Tail(th[a].calls)
      /\ mem'[Me(a)].status \in {mem[Me(a)].status, 1}
      /\ mem'[Me(a)].var = mem[Me(a)].var
      /\ mem'[Me(a)].buffer = mem[Me(a)].buffer /\ mem'[Me(a)].atexit = mem[Me(a)].atexit
      /\ r \notin Now(a).want => mem'[Me(a)].status = 1
  BY <1>1, <1>4, ReturnsShape
<1>6. Removes(Now(a)) => ipc'.id = 0 \/ mem'[Me(a)].status = 1
  BY <1>3, <1>4, <1>5 DEF Removes
<1>7. ~ChecksExit(Now(a)) BY <1>1 DEF ChecksExit
<1>8. Makes(a) BY <1>1, <1>3, <1>5, <1>6, <1>7 DEF Makes
<1> QED BY <1>1, <1>5, <1>8, RestFacts DEF Moves

LEMMA ChecksVariableMoves == ASSUME TypeOK, NEW a \in Actors, ChecksVariable(a) PROVE Moves(a)
<1>1. /\ Runs(a) /\ th[a].calls # <<>> /\ Now(a).op = "check" /\ UNCHANGED <<rest, objects>>
  BY AtFacts DEF ChecksVariable
<1>2. PICK r \in (IF Mine(a).var[Now(a).obj] = Garbage THEN 0..1 ELSE {Mine(a).var[Now(a).obj]}) :
        Returns(a, r)
  BY DEF ChecksVariable
<1>3. /\ Others(a) /\ th'[a].calls = Tail(th[a].calls)
      /\ mem'[Me(a)].status \in {mem[Me(a)].status, 1}
      /\ mem'[Me(a)].var = mem[Me(a)].var
      /\ mem'[Me(a)].buffer = mem[Me(a)].buffer /\ mem'[Me(a)].atexit = mem[Me(a)].atexit
      /\ r \notin Now(a).want => mem'[Me(a)].status = 1
  BY <1>1, <1>2, ReturnsShape
<1>4. ChecksExit(Now(a)) /\ mem[Me(a)].var["r"] = 1 => mem'[Me(a)].status = 1
  <2> SUFFICES ASSUME ChecksExit(Now(a)), mem[Me(a)].var["r"] = 1 PROVE mem'[Me(a)].status = 1
    OBVIOUS
  <2>1. Mine(a).var[Now(a).obj] = 1 BY DEF ChecksExit, Mine
  <2>2. r = 1 BY <1>2, <2>1 DEF Garbage
  <2> QED BY <1>3, <2>2 DEF ChecksExit
<1>5. file' = file /\ ipc' = ipc BY <1>1 DEF objects
<1>6. ~Removes(Now(a)) BY <1>1 DEF Removes
<1>7. Makes(a) BY <1>1, <1>3, <1>4, <1>5, <1>6 DEF Makes
<1> QED BY <1>1, <1>3, <1>7, RestFacts DEF Moves

LEMMA UsesFileMoves == ASSUME TypeOK, NEW a \in Actors, UsesFile(a) PROVE Moves(a)
<1>1. /\ Runs(a) /\ th[a].calls # <<>> /\ Now(a).op \in {"mkstemp", "pread", "unlink"}
      /\ UNCHANGED <<rest, ipc, lock, pipe>>
  BY AtFacts DEF UsesFile
<1>2. \E r : Returns(a, r) BY DEF UsesFile
<1>3. (file' # file => Now(a).op \in {"mkstemp", "unlink"}) /\ (Now(a).op = "unlink" => file' = "none")
  BY AtFacts DEF UsesFile
<1>4. /\ Others(a) /\ th'[a].calls = Tail(th[a].calls)
      /\ mem'[Me(a)].status \in {mem[Me(a)].status, 1}
      /\ mem'[Me(a)].var = mem[Me(a)].var
      /\ mem'[Me(a)].buffer = mem[Me(a)].buffer /\ mem'[Me(a)].atexit = mem[Me(a)].atexit
  BY <1>1, <1>2, ReturnsShape
<1>5. ~ChecksExit(Now(a)) /\ ~Removes(Now(a)) BY <1>1 DEF ChecksExit, Removes
<1>6. Makes(a) BY <1>1, <1>3, <1>4, <1>5 DEF Makes
<1> QED BY <1>1, <1>4, <1>6, RestFacts DEF Moves

LEMMA SetsVariableMoves == ASSUME TypeOK, NEW a \in Actors, SetsVariable(a) PROVE Moves(a)
<1>1. /\ Runs(a) /\ th[a].calls # <<>> /\ Goes(a) /\ UNCHANGED <<rest, objects>>
      /\ Now(a).op \in {"pipe", "close", "fwrite", "atexit"}
  BY AtFacts DEF SetsVariable
<1>2. Mine(a) \in Memory BY <1>1, RunnerLives
<1>3. Now(a).op = "atexit" => Now(a).obj \in DOMAIN Programs[test]
  BY <1>1, NowNames DEF Names
<1>4. \E m \in Memory :
        /\ Keeps(a, m) /\ m.status = Mine(a).status /\ m.var = Mine(a).var
        /\ m.buffer # Mine(a).buffer => Now(a).op = "fwrite"
        /\ m.atexit # Mine(a).atexit => Now(a).op = "atexit" /\ m.atexit = Now(a).obj
  <2>1. CASE At(a, "pipe") /\ Keeps(a, [Mine(a) EXCEPT !.writes = TRUE])
    <3> DEFINE m == [Mine(a) EXCEPT !.writes = TRUE]
    <3>1. /\ m \in Memory /\ m.status = Mine(a).status /\ m.var = Mine(a).var
          /\ m.buffer = Mine(a).buffer /\ m.atexit = Mine(a).atexit
      BY <1>2 DEF Memory
    <3> HIDE DEF m
    <3>2. Keeps(a, m) BY <2>1 DEF m
    <3> QED BY <3>1, <3>2
  <2>2. CASE At(a, "close") /\ Keeps(a, [Mine(a) EXCEPT !.writes = FALSE])
    <3> DEFINE m == [Mine(a) EXCEPT !.writes = FALSE]
    <3>1. /\ m \in Memory /\ m.status = Mine(a).status /\ m.var = Mine(a).var
          /\ m.buffer = Mine(a).buffer /\ m.atexit = Mine(a).atexit
      BY <1>2 DEF Memory
    <3> HIDE DEF m
    <3>2. Keeps(a, m) BY <2>2 DEF m
    <3> QED BY <3>1, <3>2
  <2>3. CASE At(a, "fwrite") /\ Keeps(a, [Mine(a) EXCEPT !.buffer = TRUE])
    <3> DEFINE m == [Mine(a) EXCEPT !.buffer = TRUE]
    <3>1. /\ m \in Memory /\ m.status = Mine(a).status /\ m.var = Mine(a).var
          /\ m.atexit = Mine(a).atexit
      BY <1>2 DEF Memory
    <3> HIDE DEF m
    <3>2. Now(a).op = "fwrite" BY <2>3, AtFacts
    <3>3. Keeps(a, m) BY <2>3 DEF m
    <3> QED BY <3>1, <3>2, <3>3
  <2>4. CASE At(a, "atexit") /\ Keeps(a, [Mine(a) EXCEPT !.atexit = Now(a).obj])
    <3> DEFINE m == [Mine(a) EXCEPT !.atexit = Now(a).obj]
    <3>1. Now(a).op = "atexit" BY <2>4, AtFacts
    <3>2. /\ m \in Memory /\ m.status = Mine(a).status /\ m.var = Mine(a).var
          /\ m.buffer = Mine(a).buffer /\ m.atexit = Now(a).obj
      BY <1>2, <1>3, <3>1 DEF Memory
    <3> HIDE DEF m
    <3>3. Keeps(a, m) BY <2>4 DEF m
    <3> QED BY <3>1, <3>2, <3>3
  <2> QED BY <2>1, <2>2, <2>3, <2>4 DEF SetsVariable
<1>5. PICK m \in Memory :
        /\ Keeps(a, m) /\ m.status = Mine(a).status /\ m.var = Mine(a).var
        /\ m.buffer # Mine(a).buffer => Now(a).op = "fwrite"
        /\ m.atexit # Mine(a).atexit => Now(a).op = "atexit" /\ m.atexit = Now(a).obj
  BY <1>4
<1>6. /\ Others(a) /\ th'[a].calls = Tail(th[a].calls)
      /\ mem'[Me(a)] = m /\ mem[Me(a)] = Mine(a)
  BY <1>1, <1>5, GoesShape
<1>7. file' = file /\ ipc' = ipc BY <1>1 DEF objects
<1>8. ~ChecksExit(Now(a)) /\ ~Removes(Now(a)) BY <1>1 DEF ChecksExit, Removes
<1>9. Makes(a) BY <1>1, <1>5, <1>6, <1>7, <1>8 DEF Makes
<1> QED BY <1>1, <1>5, <1>6, <1>9, RestFacts DEF Moves

\* Signals that wait.
LEMMA NoForkFacts ==
  ASSUME NEW S, NEW s \in Seq(S), NoFork(s)
  PROVE  /\ s # <<>> => NoFork(Tail(s)) /\ Head(s) # "fork"
         /\ \A x : x # "fork" => NoFork(Append(s, x))
<1>1. s # <<>> => NoFork(Tail(s)) /\ Head(s) # "fork"
  <2> SUFFICES ASSUME s # <<>> PROVE NoFork(Tail(s)) /\ Head(s) # "fork"
    OBVIOUS
  <2>1. /\ s[1] = Head(s) /\ Len(s) \in Nat /\ Len(s) >= 1 /\ DOMAIN s = 1..Len(s)
        /\ \A k \in 1..(Len(s) - 1) : Tail(s)[k] = s[k + 1]
        /\ DOMAIN Tail(s) = 1..(Len(s) - 1)
    BY TailFacts
  <2>2. \A k \in 1..(Len(s) - 1) : k + 1 \in DOMAIN s BY <2>1
  <2>3. 1 \in DOMAIN s BY <2>1
  <2> QED BY <2>1, <2>2, <2>3 DEF NoFork
<1>2. ASSUME NEW x, x # "fork" PROVE NoFork(Append(s, x))
  <2>1. Len(s) \in Nat /\ DOMAIN s = 1..Len(s) /\ DOMAIN Append(s, x) = 1..(Len(s) + 1)
    OBVIOUS
  <2>2. \A k \in 1..Len(s) : Append(s, x)[k] = s[k] OBVIOUS
  <2>3. Append(s, x)[Len(s) + 1] = x OBVIOUS
  <2>4. \A k \in 1..(Len(s) + 1) : k \in 1..Len(s) \/ k = Len(s) + 1 BY <2>1
  <2> QED BY <1>2, <2>1, <2>2, <2>3, <2>4 DEF NoFork
<1> QED BY <1>1, <1>2

\* Thread t is what becomes of thread a.
Turns(a, t) ==
  /\ t \in Thread /\ t.state = th[a].state /\ t.process = th[a].process
  /\ t.parent = th[a].parent /\ t.code = th[a].code
  /\ NoFork(th[a].signals) => NoFork(t.signals)

LEMMA TurnsShape ==
  ASSUME TypeOK, NEW a \in Actors, Runs(a), NEW t, Turns(a, t), th' = [th EXCEPT ![a] = t],
         NEW m \in Memory, Keeps(a, m)
  PROVE  /\ Others(a) /\ th'[a].calls = t.calls /\ mem'[Me(a)] = m /\ mem[Me(a)] = Mine(a)
<1>1. Me(a) \in Actors BY RunnerLives
<1>2. th \in [Actors -> Thread] /\ mem \in [Actors -> Memory] BY DEF TypeOK, ThreadsOK
<1>3. th'[a] = t /\ \A b \in Actors : b # a => th'[b] = th[b] BY <1>2
<1>4. mem'[Me(a)] = m /\ \A b \in Actors : b # Me(a) => mem'[b] = mem[b]
  BY <1>1, <1>2 DEF Keeps
<1>5. Others(a) BY <1>3, <1>4 DEF Others, Turns
<1> QED BY <1>3, <1>4, <1>5 DEF Mine

LEMMA SentShape ==
  ASSUME TypeOK, NEW a \in Actors, Runs(a), NEW t, Turns(a, t), NEW b \in Actors,
         NEW sig \in {"count", "got"}, th' = Sent([th EXCEPT ![a] = t], b, sig), UNCHANGED mem
  PROVE  Others(a) /\ th'[a].calls = t.calls
<1> DEFINE f == [th EXCEPT ![a] = t]
           s == Append(f[b].signals, sig)
<1>1. f \in [Actors -> Thread] /\ f[a] = t /\ \A c \in Actors : c # a => f[c] = th[c]
  BY DEF Turns, TypeOK, ThreadsOK
<1>2. th' = [f EXCEPT ![b].signals = s] BY DEF Sent
<1> HIDE DEF f
<1>3. /\ f[b].signals \in Seq({"count", "got", "fork"})
      /\ NoFork(f[b].signals) => NoFork(s)
  BY <1>1, NoForkFacts DEF Thread
<1> HIDE DEF s
<1>4. /\ \A c \in Actors : c # b => th'[c] = f[c]
      /\ th'[b].state = f[b].state /\ th'[b].process = f[b].process
      /\ th'[b].parent = f[b].parent /\ th'[b].code = f[b].code
      /\ th'[b].calls = f[b].calls /\ th'[b].signals = s
  <2>1. \A c \in Actors : c # b => th'[c] = f[c] BY <1>1, <1>2
  <2>2. th'[b] = [f[b] EXCEPT !.signals = s] BY <1>1, <1>2
  <2>3. f[b] \in Thread BY <1>1
  <2> QED BY <2>1, <2>2, <2>3 DEF Thread
<1>5. ASSUME NEW c \in Actors
      PROVE  /\ th'[c].state = th[c].state /\ th'[c].process = th[c].process
             /\ th'[c].parent = th[c].parent /\ th'[c].code = th[c].code
             /\ c # a => th'[c].calls = th[c].calls
             /\ NoFork(th[c].signals) => NoFork(th'[c].signals)
             /\ c # Me(a) => mem'[c] = mem[c]
  <2>1. /\ f[c].state = th[c].state /\ f[c].process = th[c].process
        /\ f[c].parent = th[c].parent /\ f[c].code = th[c].code
        /\ c # a => f[c].calls = th[c].calls
        /\ NoFork(th[c].signals) => NoFork(f[c].signals)
    BY <1>1 DEF Turns
  <2> QED BY <1>3, <1>4, <2>1
<1>6. th'[a].calls = t.calls BY <1>1, <1>4
<1> QED BY <1>5, <1>6 DEF Others

LEMMA OnwardTurns ==
  ASSUME TypeOK, NEW a \in Actors, th[a].calls # <<>>
  PROVE  /\ Turns(a, Onward(a)) /\ Onward(a).calls = Tail(th[a].calls)
         /\ \A b \in Actors \cup {Nobody} :
              /\ Turns(a, [Onward(a) EXCEPT !.self = b])
              /\ [Onward(a) EXCEPT !.self = b].calls = Tail(th[a].calls)
         /\ \A x \in Variables :
              /\ Turns(a, [Onward(a) EXCEPT !.tsd = x])
              /\ [Onward(a) EXCEPT !.tsd = x].calls = Tail(th[a].calls)
<1>1. th[a] \in Thread /\ Tail(th[a].calls) \in Seq(CallsOf(Programs[test]))
  BY ThreadTyped, NowNames
<1> DEFINE t == Onward(a)
<1>2. /\ t \in Thread /\ t.state = th[a].state /\ t.process = th[a].process
      /\ t.parent = th[a].parent /\ t.code = th[a].code /\ t.calls = Tail(th[a].calls)
      /\ t.signals = th[a].signals
  BY <1>1 DEF Onward, Thread
<1> HIDE DEF t
<1>3. Turns(a, t) BY <1>2 DEF Turns
<1>4. ASSUME NEW b \in Actors \cup {Nobody}
      PROVE  Turns(a, [t EXCEPT !.self = b]) /\ [t EXCEPT !.self = b].calls = t.calls
  BY <1>2 DEF Thread, Turns
<1>5. ASSUME NEW x \in Variables
      PROVE  Turns(a, [t EXCEPT !.tsd = x]) /\ [t EXCEPT !.tsd = x].calls = t.calls
  BY <1>2 DEF Thread, Turns
<1> QED BY <1>2, <1>3, <1>4, <1>5 DEF t

LEMMA SetsSpecificMoves == ASSUME TypeOK, NEW a \in Actors, SetsSpecific(a) PROVE Moves(a)
<1>1. /\ Runs(a) /\ th[a].calls # <<>> /\ Now(a).op = "setspecific"
      /\ UNCHANGED <<rest, mem, objects>>
      /\ th' = [th EXCEPT ![a] = [Onward(a) EXCEPT !.tsd = Now(a).obj]]
  BY AtFacts DEF SetsSpecific
<1>2. PICK x \in Variables : x = Now(a).obj BY <1>1, NowNames DEF Names
<1>3. PICK t : /\ t = [Onward(a) EXCEPT !.tsd = x] /\ Turns(a, t)
               /\ t.calls = Tail(th[a].calls)
  BY <1>1, OnwardTurns
<1>4. Mine(a) \in Memory /\ Keeps(a, Mine(a)) BY <1>1, SameMemory
<1>5. /\ Others(a) /\ th'[a].calls = Tail(th[a].calls)
      /\ mem'[Me(a)] = Mine(a) /\ mem[Me(a)] = Mine(a)
  BY <1>1, <1>2, <1>3, <1>4, TurnsShape
<1>6. file' = file /\ ipc' = ipc /\ Now(a).op \in PlainOps BY <1>1 DEF objects, PlainOps
<1>7. Makes(a) BY <1>1, <1>5, <1>6, PlainMakes
<1> QED BY <1>1, <1>5, <1>7, RestFacts DEF Moves

LEMMA KillsMoves ==
  ASSUME TypeOK, NEW a \in Actors, Kills(a), Now(a).op # "pthread_kill" PROVE Moves(a)
<1>1. /\ Runs(a) /\ th[a].calls # <<>> /\ UNCHANGED <<rest, mem, objects>> /\ At(a, "kill")
      /\ Now(a).op \in PlainOps
  BY AtFacts DEF Kills, PlainOps
<1>2. file' = file /\ ipc' = ipc BY <1>1 DEF objects
<1>3. CASE Goes(a) BY <1>1, <1>2, <1>3, RestFacts, PlainStays
<1>4. CASE th[a].parent # Nobody /\ th' = Sent([th EXCEPT ![a] = Onward(a)], th[a].parent, "got")
  <2>1. PICK b \in Actors : b = th[a].parent BY <1>4, FamilyFacts
  <2>2. PICK t : t = Onward(a) /\ Turns(a, t) /\ t.calls = Tail(th[a].calls)
    BY <1>1, OnwardTurns
  <2>3. Others(a) /\ th'[a].calls = Tail(th[a].calls) BY <1>1, <1>4, <2>1, <2>2, SentShape
  <2>4. mem' = mem BY <1>1
  <2>5. Makes(a) BY <1>1, <1>2, <2>3, <2>4, PlainMakes
  <2> QED BY <1>1, <2>3, <2>4, <2>5, RestFacts DEF Moves
<1> QED BY <1>1, <1>3, <1>4, AtFacts DEF Kills, Goes

LEMMA RaisesMoves == ASSUME TypeOK, NEW a \in Actors, Raises(a), bug = "none" PROVE Moves(a)
<1>1. /\ Runs(a) /\ th[a].calls # <<>> /\ Now(a).op \in PlainOps
      /\ UNCHANGED <<fixed, ending, objects, orphaned>>
  BY AtFacts DEF Raises, PlainOps
<1>2. file' = file /\ ipc' = ipc BY <1>1 DEF objects
<1>3. /\ th' = Sent([th EXCEPT ![a] = [Onward(a) EXCEPT !.self = Nobody]], a, "count")
      /\ UNCHANGED mem
  BY <1>1 DEF Raises
<1>4. PICK t : /\ t = [Onward(a) EXCEPT !.self = Nobody] /\ Turns(a, t)
               /\ t.calls = Tail(th[a].calls)
  BY <1>1, OnwardTurns
<1>5. Others(a) /\ th'[a].calls = Tail(th[a].calls) BY <1>1, <1>3, <1>4, SentShape
<1>6. Makes(a) BY <1>1, <1>2, <1>3, <1>5, PlainMakes
<1> QED BY <1>1, <1>3, <1>5, <1>6 DEF Moves

LEMMA HandlesSignalMoves == ASSUME TypeOK, NEW a \in Actors, HandlesSignal(a) PROVE Moves(a)
<1>1. Runs(a) /\ th[a].signals # <<>> /\ th' = [th EXCEPT ![a] = Handled(a)]
      /\ UNCHANGED <<rest, objects>>
  BY DEF HandlesSignal, SignalArrives
<1>2. Mine(a) \in Memory BY <1>1, RunnerLives
<1>3. \E m \in Memory :
        /\ Keeps(a, m) /\ m.status = Mine(a).status /\ m.var["r"] = Mine(a).var["r"]
        /\ m.buffer = Mine(a).buffer /\ m.atexit = Mine(a).atexit
  <2> DEFINE n == Mine(a).var["c0"] + 1
             v == [Mine(a) EXCEPT !.var["got"] = 1]
             w == [Mine(a) EXCEPT !.var["c0"] = @ + 1]
  <2>1. v \in Memory /\ w \in Memory BY <1>2, CountTyped
  <2>2. /\ v.status = Mine(a).status /\ v.var["r"] = Mine(a).var["r"]
        /\ v.buffer = Mine(a).buffer /\ v.atexit = Mine(a).atexit
        /\ w.status = Mine(a).status /\ w.var["r"] = Mine(a).var["r"]
        /\ w.buffer = Mine(a).buffer /\ w.atexit = Mine(a).atexit
    BY <1>2 DEF Memory, Variables
  <2>3. Keeps(a, v) \/ Keeps(a, w) BY DEF HandlesSignal
  <2> HIDE DEF v, w
  <2> QED BY <2>1, <2>2, <2>3
<1>4. PICK m \in Memory :
        /\ Keeps(a, m) /\ m.status = Mine(a).status /\ m.var["r"] = Mine(a).var["r"]
        /\ m.buffer = Mine(a).buffer /\ m.atexit = Mine(a).atexit
  BY <1>3
<1>5. PICK t : t = Handled(a) /\ Turns(a, t) /\ t.calls = th[a].calls
  <2>1. /\ Handled(a) \in Thread /\ Handled(a).state = th[a].state
        /\ Handled(a).process = th[a].process /\ Handled(a).parent = th[a].parent
        /\ Handled(a).calls = th[a].calls
    BY <1>1, HandledTyped
  <2>2. th[a].signals \in Seq({"count", "got", "fork"}) /\ th[a] \in Thread BY ThreadTyped
  <2>3. Handled(a).code = th[a].code /\ Handled(a).signals = Tail(th[a].signals)
    BY <2>2 DEF Handled, Thread
  <2>4. NoFork(th[a].signals) => NoFork(Handled(a).signals) BY <1>1, <2>2, <2>3, NoForkFacts
  <2> QED BY <2>1, <2>3, <2>4 DEF Turns
<1>6. /\ Others(a) /\ th'[a].calls = th[a].calls
      /\ mem'[Me(a)] = m /\ mem[Me(a)] = Mine(a)
  BY <1>1, <1>4, <1>5, TurnsShape
<1>7. Stays(a) BY <1>1, <1>4, <1>6 DEF Stays, objects
<1> QED BY <1>1, <1>4, <1>6, <1>7, RestFacts DEF Moves

-----------------------------------------------------------------------------
(* Tidiness, and steps after which every process is still what it was. *)

Makers == WritesFile(Prog) \/ UsesObject(Prog)

LEMMA TidyCall ==
  ASSUME Tidy(test), NEW c \in CallsOf(Prog)
  PROVE  /\ c.op # "pthread_kill"
         /\ c.op \in {"fork", "create", "atexit"} => c.obj # "main"
         /\ c.op = "create" => EndsAlone(Prog[c.obj])
         /\ Makers => c.op \notin Leaving \cup {"create", "atexit"}
         /\ MakesObject(c) => UsesObject(Prog)
         /\ c.op \in {"mkstemp", "fwrite"} => WritesFile(Prog)
<1>1. /\ c.op # "pthread_kill"
      /\ c.op \in {"fork", "create", "atexit"} => c.obj # "main"
      /\ c.op = "create" => EndsAlone(Prog[c.obj])
      /\ Makers => c.op \notin Leaving \cup {"create", "atexit"}
  BY DEF Tidy, Prog, Makers
<1>2. MakesObject(c) => UsesObject(Prog) BY DEF UsesObject
<1>3. c.op \in {"mkstemp", "fwrite"} => WritesFile(Prog) BY DEF WritesFile
<1> QED BY <1>1, <1>2, <1>3

LEMMA TidyNow ==
  ASSUME TypeOK, Tidy(test), NEW a \in Actors, th[a].calls # <<>>
  PROVE  /\ Now(a) \in CallsOf(Prog) /\ Now(a).op # "pthread_kill"
         /\ Now(a).op \in {"fork", "create", "atexit"} =>
              Now(a).obj # "main" /\ Now(a).obj \in DOMAIN Prog
         /\ Now(a).op = "create" => EndsAlone(Prog[Now(a).obj])
         /\ Makers => Now(a).op \notin Leaving \cup {"create", "atexit"}
         /\ MakesObject(Now(a)) => UsesObject(Prog)
         /\ Now(a).op \in {"mkstemp", "fwrite"} => WritesFile(Prog)
<1>1. Now(a) \in CallsOf(Prog) /\ Names(Prog, Now(a)) BY NowNames DEF Prog
<1> QED BY <1>1, TidyCall DEF Names

LEMMA TidyRoutine ==
  ASSUME Tidy(test)
  PROVE  /\ CleansUp(Prog, Prog["main"])
         /\ \A r \in DOMAIN Prog : r # "main" => Modest(Prog[r])
         /\ UsesObject(Prog) => Removed(Prog, Prog["main"], 0)
         /\ test \in Again => ~WritesFile(Prog)
BY DEF Tidy, Prog

LEMMA CallsTyped ==
  ASSUME TypeOK, NEW a \in Actors
  PROVE  th[a].calls \in Seq(CallsOf(Prog))
BY ThreadTyped DEF Prog

\* What the text of every thread says.
LEMMA TextFacts ==
  ASSUME TextsOK, NEW a \in Actors
  PROVE  /\ a # main => Modest(th[a].calls)
         /\ NoFork(th[a].signals)
         /\ th[a].state = "running" /\ th[a].process # a => EndsAlone(th[a].calls)
         /\ mem[a].atexit # "main"
         /\ mem[a].buffer => WritesFile(Prog)
         /\ Makers => (th[a].state # "none" => th[a].process = a) /\ mem[a].atexit = "none"
BY DEF TextsOK, TextOK, Simple, NoFork, Makers

LEMMA TextNext ==
  ASSUME NEW a \in Actors, test' = test,
         a # main' => Modest(th'[a].calls), NoFork(th'[a].signals),
         th'[a].state = "running" /\ th'[a].process # a => EndsAlone(th'[a].calls),
         mem'[a].atexit # "main", mem'[a].buffer => WritesFile(Prog),
         Makers => (th'[a].state # "none" => th'[a].process = a) /\ mem'[a].atexit = "none"
  PROVE  TextOK(a)' /\ Simple(a)'
BY DEF TextOK, Simple, NoFork, Makers, Prog

LEMMA TextsNext ==
  ASSUME test' = test, \A a \in Actors : TextOK(a)' /\ Simple(a)',
         main' # Nobody => CleansUp(Prog, th'[main'].calls),
         file' # "none" => WritesFile(Prog), ipc'.id # 0 => UsesObject(Prog)
  PROVE  TextsOK'
BY DEF TextsOK, Prog, MainCalls

LEMMA MovesFacts ==
  ASSUME TypeOK, NEW a \in Actors, Moves(a)
  PROVE  /\ Runs(a) /\ test' = test /\ bug' = bug /\ main' = main /\ result' = result
         /\ orphaned' = orphaned /\ (Makes(a) \/ Stays(a)) /\ Me(a) \in Actors
         /\ Others(a) /\ th[a].process = Me(a) /\ th[a].state = "running"
         /\ mem'[Me(a)].status \in {mem[Me(a)].status, 1}
         /\ mem'[Me(a)].var["r"] = mem[Me(a)].var["r"]
BY RunnerLives DEF Moves, fixed, ending

LEMMA MovesTexts ==
  ASSUME TypeOK, Tidy(test), TextsOK, NEW a \in Actors, Moves(a)
  PROVE  TextsOK'
<1>1. /\ test' = test /\ main' = main /\ (Makes(a) \/ Stays(a)) /\ Me(a) \in Actors
      /\ Others(a)
  BY MovesFacts
<1>2. ASSUME Makes(a) PROVE th[a].calls # <<>> /\ th'[a].calls = Tail(th[a].calls)
  BY <1>2 DEF Makes
<1>3. ASSUME NEW b \in Actors PROVE TextOK(b)' /\ Simple(b)'
  <2>1. /\ th'[b].state = th[b].state /\ th'[b].process = th[b].process
        /\ b # a => th'[b].calls = th[b].calls
        /\ NoFork(th[b].signals) => NoFork(th'[b].signals)
        /\ b # Me(a) => mem'[b] = mem[b]
    BY <1>1 DEF Others
  <2>2. Stays(a) => th'[a].calls = th[a].calls BY DEF Stays
  <2>3. b # main' => Modest(th'[b].calls)
    <3>1. CASE b # a \/ Stays(a) BY <1>1, <2>1, <2>2, <3>1, TextFacts
    <3>2. CASE b = a /\ Makes(a)
      BY <1>1, <1>2, <3>2, TextFacts, CallsTyped, ModestTail
    <3> QED BY <1>1, <3>1, <3>2
  <2>4. th'[b].state = "running" /\ th'[b].process # b => EndsAlone(th'[b].calls)
    <3>1. CASE b # a \/ Stays(a) BY <2>1, <2>2, <3>1, TextFacts
    <3>2. CASE b = a /\ Makes(a)
      <4>1. Head(th[a].calls).op # "pthread_exit" BY <3>2 DEF Makes, Now
      <4> QED BY <1>2, <2>1, <3>2, <4>1, TextFacts, CallsTyped, EndsAloneTail
    <3> QED BY <1>1, <3>1, <3>2
  <2>5. /\ mem'[b].atexit # "main" /\ (mem'[b].buffer => WritesFile(Prog))
        /\ Makers => mem'[b].atexit = "none"
    <3>1. CASE b # Me(a) BY <2>1, <3>1, TextFacts
    <3>2. CASE b = Me(a) /\ Stays(a) BY <3>2, TextFacts DEF Stays
    <3>3. CASE b = Me(a) /\ Makes(a)
      <4>1. /\ mem'[b].buffer # mem[b].buffer => Now(a).op = "fwrite"
            /\ mem'[b].atexit # mem[b].atexit =>
                 Now(a).op = "atexit" /\ mem'[b].atexit = Now(a).obj
        BY <3>3 DEF Makes
      <4> QED BY <1>2, <3>3, <4>1, TidyNow, TextFacts
    <3> QED BY <1>1, <3>1, <3>2, <3>3
  <2> QED BY <1>1, <2>1, <2>3, <2>4, <2>5, TextFacts, TextNext
<1>4. main' # Nobody => CleansUp(Prog, th'[main'].calls)
  <2> SUFFICES ASSUME main # Nobody PROVE CleansUp(Prog, th'[main].calls)
    BY <1>1
  <2>1. main \in Actors /\ CleansUp(Prog, th[main].calls)
    BY MainFacts DEF TextsOK, MainCalls
  <2>2. CASE main # a \/ Stays(a) BY <1>1, <2>1, <2>2 DEF Others, Stays
  <2>3. CASE main = a /\ Makes(a) BY <1>2, <2>1, <2>3, CallsTyped, CleansUpTail
  <2> QED BY <1>1, <2>2, <2>3
<1>5. file' # "none" => WritesFile(Prog)
  <2>1. CASE Stays(a) BY <2>1 DEF Stays, TextsOK
  <2>2. CASE Makes(a) BY <1>2, <2>2, TidyNow DEF Makes, TextsOK
  <2> QED BY <1>1, <2>1, <2>2
<1>6. ipc'.id # 0 => UsesObject(Prog)
  <2>1. CASE Stays(a) BY <2>1 DEF Stays, TextsOK
  <2>2. CASE Makes(a) BY <1>2, <2>2, TidyNow DEF Makes, TextsOK
  <2> QED BY <1>1, <2>1, <2>2
<1> QED BY <1>1, <1>3, <1>4, <1>5, <1>6, TextsNext

-----------------------------------------------------------------------------
(* What main() still has to do, after such a step. *)

Home == OneChild /\ FileGoes /\ ObjectGoes

\* The children of b in the next state.
ChildrenOn(b) == {a \in Actors : th'[a].process = a /\ th'[a].parent = b /\ a # b}

LEMMA MovesChildren ==
  ASSUME TypeOK, NEW a \in Actors, Moves(a)
  PROVE  \A b \in Actors : ChildrenOn(b) = Children(b)
<1>1. \A b \in Actors : th'[b].process = th[b].process /\ th'[b].parent = th[b].parent
  BY MovesFacts DEF Others
<1> QED BY <1>1 DEF Children, ChildrenOn

LEMMA MovesMain ==
  ASSUME TypeOK, TextsOK, NEW a \in Actors, Moves(a), main # Nobody
  PROVE  /\ main \in Actors /\ th[main].process = main /\ MainCalls \in Seq(CallsOf(Prog))
         /\ a # main \/ Stays(a) => th'[main].calls = MainCalls
         /\ a = main /\ Makes(a) => /\ MainCalls # <<>> /\ th'[main].calls = Tail(MainCalls)
                                    /\ Now(a) = Head(MainCalls)
         /\ a # main => /\ th[a].calls # <<>> => ~MakesObject(Now(a)) /\ Now(a).op # "mkstemp"
<1>1. main \in Actors /\ th[main].process = main BY MainFacts DEF Lives
<1>2. MainCalls \in Seq(CallsOf(Prog)) BY <1>1, CallsTyped DEF MainCalls
<1>3. a # main \/ Stays(a) => th'[main].calls = MainCalls
  BY <1>1, MovesFacts DEF Others, Stays, MainCalls
<1>4. a = main /\ Makes(a) => /\ MainCalls # <<>> /\ th'[main].calls = Tail(MainCalls)
                              /\ Now(a) = Head(MainCalls)
  BY DEF Makes, MainCalls, Now
<1>5. a # main /\ th[a].calls # <<>> => ~MakesObject(Now(a)) /\ Now(a).op # "mkstemp"
  BY TextFacts, CallsTyped, ModestTail DEF Now
<1> QED BY <1>1, <1>2, <1>3, <1>4, <1>5

LEMMA MovesOneChild ==
  ASSUME TypeOK, TextsOK, NEW a \in Actors, Moves(a), main # Nobody, OneChild
  PROVE  OneChild'
<1>1. /\ main' = main /\ \A b \in Actors : /\ th'[b].state = th[b].state
                                           /\ th'[b].process = th[b].process
                                           /\ th'[b].parent = th[b].parent
  BY MovesFacts DEF Others
<1>2. main \in Actors /\ ChildrenOn(main) = Children(main) BY MovesMain, MovesChildren
<1>3. ASSUME NEW b \in Actors, th'[b].state # "none"
      PROVE  th'[b].process = main \/ th'[th'[b].process].parent = main
  <2>1. th[b].process = main \/ th[th[b].process].parent = main BY <1>1, <1>3 DEF OneChild
  <2>2. th[b].process \in Actors BY <1>1, <1>3, FamilyFacts
  <2> QED BY <1>1, <2>1, <2>2
<1>4. Children(main) # {} /\ Waited(MainCalls, 0) => Waited(th'[main].calls, 0)
  <2> SUFFICES ASSUME Children(main) # {}, Waited(MainCalls, 0) PROVE Waited(th'[main].calls, 0)
    OBVIOUS
  <2>1. CASE a # main \/ Stays(a) BY <2>1, MovesMain
  <2>2. CASE a = main /\ Makes(a)
    <3>1. Me(a) = main BY <2>2, MovesMain DEF Me
    <3>2. Now(a).op # "wait" BY <2>2, <3>1 DEF Makes
    <3> QED BY <2>2, <3>2, MovesMain, WaitedTail
  <2> QED BY <2>1, <2>2, MovesFacts
<1>5. /\ \A b, c \in ChildrenOn(main) : b = c
      /\ ChildrenOn(main) # {} => Waited(th'[main].calls, 0)
  BY <1>2, <1>4 DEF OneChild
<1> QED BY <1>1, <1>3, <1>5 DEF OneChild, MainCalls, Children, ChildrenOn

LEMMA MovesFileGoes ==
  ASSUME TypeOK, Tidy(test), TextsOK, NEW a \in Actors, Moves(a), main # Nobody, OneChild, FileGoes
  PROVE  FileGoes'
<1>1. main' = main /\ test' = test /\ (Makes(a) \/ Stays(a)) /\ Others(a) BY MovesFacts
<1>2. main \in Actors /\ ChildrenOn(main) = Children(main) BY MovesMain, MovesChildren
<1>3. ~mem'[main].buffer
  <2>1. CASE Me(a) # main \/ Stays(a) BY <1>1, <1>2, <2>1 DEF FileGoes, Others, Stays
  <2>2. CASE Me(a) = main /\ Makes(a)
    <3>1. th[a].calls # <<>> /\ (mem'[main].buffer # mem[main].buffer => Now(a).op = "fwrite")
      BY <2>2 DEF Makes
    <3>2. ASSUME Now(a).op = "fwrite" PROVE FALSE
      <4>1. Makers BY <3>1, <3>2, TidyNow DEF Makers
      <4>2. a = main BY <2>2, <4>1, TextFacts, MovesFacts DEF Me
      <4>3. CleansUp(Prog, MainCalls) BY DEF TextsOK
      <4> QED BY <2>2, <3>2, <4>2, <4>3, MovesMain, CleansUpTail
    <3> QED BY <3>1, <3>2 DEF FileGoes
  <2> QED BY <1>1, <2>1, <2>2
<1>4. ASSUME WritesFile(Prog), file' # "none" \/ Children(main) # {}
      PROVE  Unlinked(th'[main].calls, 0)
  <2>1. CASE ~(file # "none" \/ Children(main) # {})
    <3>1. Makes(a) /\ Now(a).op \in {"mkstemp", "unlink"} BY <1>1, <1>4, <2>1 DEF Makes, Stays
    <3>2. Now(a).op = "mkstemp" /\ th[a].calls # <<>> BY <1>4, <2>1, <3>1 DEF Makes
    <3>3. a = main BY <3>2, MovesMain
    <3>4. CleansUp(Prog, MainCalls) BY DEF TextsOK
    <3> QED BY <3>1, <3>2, <3>3, <3>4, MovesMain, CleansUpTail
  <2>2. CASE file # "none" \/ Children(main) # {}
    <3>1. Unlinked(MainCalls, 0) BY <1>4, <2>2 DEF FileGoes
    <3>2. CASE a # main \/ Stays(a) BY <3>1, <3>2, MovesMain
    <3>3. CASE a = main /\ Makes(a)
      <4>1. Now(a).op # "unlink"
        <5> SUFFICES ASSUME Now(a).op = "unlink" PROVE FALSE OBVIOUS
        <5>1. file' = "none" BY <3>3 DEF Makes
        <5>2. Waited(MainCalls, 0) BY <1>4, <5>1 DEF OneChild
        <5> QED BY <3>3, <5>2, MovesMain, WaitedTail
      <4> QED BY <3>1, <3>3, <4>1, MovesMain, UnlinkedTail
    <3> QED BY <1>1, <3>2, <3>3
  <2> QED BY <2>1, <2>2
<1>5. /\ ~mem'[main].buffer
      /\ WritesFile(Prog) /\ (file' # "none" \/ ChildrenOn(main) # {}) => Unlinked(th'[main].calls, 0)
  BY <1>2, <1>3, <1>4
<1> QED BY <1>1, <1>5 DEF FileGoes, MainCalls, Prog, Children, ChildrenOn

LEMMA CallsInTail ==
  ASSUME NEW S, NEW s \in Seq(S), s # <<>>
  PROVE  \A c \in CallsIn(s) : c = Head(s) \/ c \in CallsIn(Tail(s))
<1>1. /\ Len(s) \in Nat /\ s[1] = Head(s) /\ DOMAIN s = 1..Len(s)
      /\ \A k \in 1..(Len(s) - 1) : Tail(s)[k] = s[k + 1]
      /\ DOMAIN Tail(s) = 1..(Len(s) - 1)
  BY TailFacts
<1>2. ASSUME NEW i \in DOMAIN s, i # 1 PROVE s[i] \in CallsIn(Tail(s))
  <2>1. i - 1 \in DOMAIN Tail(s) /\ Tail(s)[i - 1] = s[i] BY <1>1, <1>2
  <2> QED BY <2>1 DEF CallsIn
<1> QED BY <1>1, <1>2 DEF CallsIn

\* Child b of main() in the next state.
AccountsOn(b) ==
  \/ th'[b].state = "zombie" /\ th'[b].code = 1
  \/ th'[b].state = "running" /\ (mem'[b].status = 1 \/ \E c \in CallsIn(th'[b].calls) : Removes(c))

LEMMA ObjectGoesNext ==
  ASSUME test' = test, ipc'.id # 0 =>
           \/ Removed(Prog, th'[main'].calls, 0)
           \/ ExitChecked(th'[main'].calls, 0) /\ \E b \in ChildrenOn(main') : AccountsOn(b)
           \/ /\ th'[main'].calls # <<>> /\ ChecksExit(Head(th'[main'].calls))
              /\ mem'[main'].var["r"] = 1
           \/ mem'[main'].status = 1
  PROVE  ObjectGoes'
BY DEF ObjectGoes, Prog, MainCalls, Children, ChildrenOn, Accounts, AccountsOn

LEMMA MovesAccounts ==
  ASSUME TypeOK, NEW a \in Actors, Moves(a), NEW b \in Actors, Accounts(b), ipc'.id # 0,
         th[b].process = b
  PROVE  AccountsOn(b)
<1>1. /\ th'[b].state = th[b].state /\ th'[b].code = th[b].code
      /\ b # a => th'[b].calls = th[b].calls
      /\ b # Me(a) => mem'[b] = mem[b]
      /\ mem'[Me(a)].status \in {mem[Me(a)].status, 1}
  BY MovesFacts DEF Others
<1>2. CASE th[b].state = "zombie" /\ th[b].code = 1 BY <1>1, <1>2 DEF AccountsOn
<1>3. CASE th[b].state = "running" /\ mem[b].status = 1
  <2>1. mem'[b].status = 1 BY <1>1, <1>3
  <2> QED BY <1>1, <1>3, <2>1 DEF AccountsOn
<1>4. CASE th[b].state = "running" /\ \E c \in CallsIn(th[b].calls) : Removes(c)
  <2>1. CASE b # a \/ Stays(a) BY <1>1, <1>4, <2>1 DEF AccountsOn, Stays
  <2>2. CASE b = a /\ Makes(a)
    <3>1. PICK c \in CallsIn(th[b].calls) : Removes(c) BY <1>4
    <3>2. Me(a) = b BY <2>2 DEF Me
    <3>3. /\ th[a].calls # <<>> /\ th'[a].calls = Tail(th[a].calls)
          /\ Removes(Now(a)) => mem'[b].status = 1
      BY <2>2, <3>2 DEF Makes
    <3>4. c = Now(a) \/ c \in CallsIn(Tail(th[a].calls))
      BY <2>2, <3>1, <3>3, CallsTyped, CallsInTail DEF Now
    <3> QED BY <1>1, <1>4, <2>2, <3>1, <3>3, <3>4 DEF AccountsOn
  <2> QED BY <2>1, <2>2, MovesFacts
<1> QED BY <1>2, <1>3, <1>4 DEF Accounts

LEMMA MovesObjectGoes ==
  ASSUME TypeOK, TextsOK, NEW a \in Actors, Moves(a), main # Nobody, ObjectGoes
  PROVE  ObjectGoes'
<1>1. /\ main' = main /\ test' = test /\ (Makes(a) \/ Stays(a)) /\ Others(a)
      /\ mem'[Me(a)].status \in {mem[Me(a)].status, 1}
      /\ mem'[Me(a)].var["r"] = mem[Me(a)].var["r"]
  BY MovesFacts
<1>2. main \in Actors /\ ChildrenOn(main) = Children(main) BY MovesMain, MovesChildren
<1>s. mem[main].status = 1 => mem'[main].status = 1 BY <1>1, <1>2 DEF Others
<1>v. mem[main].var["r"] = 1 => mem'[main].var["r"] = 1 BY <1>1, <1>2 DEF Others
<1> SUFFICES ASSUME ipc'.id # 0
             PROVE  \/ Removed(Prog, th'[main].calls, 0)
                    \/ ExitChecked(th'[main].calls, 0) /\ \E b \in Children(main) : AccountsOn(b)
                    \/ /\ th'[main].calls # <<>> /\ ChecksExit(Head(th'[main].calls))
                       /\ mem'[main].var["r"] = 1
                    \/ mem'[main].status = 1
  BY <1>1, <1>2, ObjectGoesNext
<1>3. CASE ipc.id = 0
  <2>1. Makes(a) /\ MakesObject(Now(a)) /\ th[a].calls # <<>> BY <1>1, <1>3 DEF Makes, Stays
  <2>2. a = main BY <2>1, MovesMain
  <2>3. CleansUp(Prog, MainCalls) BY <2>2, <1>2, MainFacts DEF TextsOK
  <2> QED BY <2>1, <2>2, <2>3, MovesMain, CleansUpTail
<1>4. CASE Removed(Prog, MainCalls, 0)
  <2>1. CASE a # main \/ Stays(a) BY <1>4, <2>1, MovesMain
  <2>2. CASE a = main /\ Makes(a)
    <3>1. Now(a).op # "fork" BY <2>2 DEF Makes
    <3> QED BY <1>4, <2>2, <3>1, MovesMain, RemovedTail
  <2> QED BY <1>1, <2>1, <2>2
<1>5. CASE ExitChecked(MainCalls, 0) /\ \E b \in Children(main) : Accounts(b)
  <2>1. \E b \in Children(main) : AccountsOn(b) BY <1>5, MovesAccounts DEF Children
  <2>2. CASE a # main \/ Stays(a) BY <1>5, <2>1, <2>2, MovesMain
  <2>3. CASE a = main /\ Makes(a)
    <3>1. Me(a) = main BY <2>3, MovesMain DEF Me
    <3>2. Now(a).op # "wait" BY <1>5, <2>3, <3>1 DEF Makes
    <3> QED BY <1>5, <2>1, <2>3, <3>2, MovesMain, ExitCheckedTail
  <2> QED BY <1>1, <2>2, <2>3
<1>6. CASE MainCalls # <<>> /\ ChecksExit(Head(MainCalls)) /\ mem[main].var["r"] = 1
  <2>1. CASE a # main \/ Stays(a) BY <1>v, <1>6, <2>1, MovesMain
  <2>2. CASE a = main /\ Makes(a)
    <3>1. Me(a) = main BY <2>2, MovesMain DEF Me
    <3>2. ChecksExit(Now(a)) BY <1>6, <2>2, MovesMain
    <3> QED BY <1>6, <2>2, <3>1, <3>2 DEF Makes
  <2> QED BY <1>1, <2>1, <2>2
<1>7. CASE mem[main].status = 1 BY <1>s, <1>7
<1> QED BY <1>3, <1>4, <1>5, <1>6, <1>7 DEF ObjectGoes

LeavesNothing == result = "pass" => Clean

LEMMA TidinessFacts ==
  Tidiness <=>
    (bug = "none" /\ Tidy(test) =>
       TextsOK /\ (~orphaned => (main # Nobody => Home) /\ LeavesNothing))
BY DEF Tidiness, Home, LeavesNothing

LEMMA MovesTidiness ==
  ASSUME TypeOK, Tidiness, NEW a \in Actors, Moves(a), bug = "none", Tidy(test)
  PROVE  Tidiness'
<1>1. /\ main' = main /\ test' = test /\ bug' = bug /\ result' = result
      /\ orphaned' = orphaned /\ Runs(a)
  BY MovesFacts
<1>2. TextsOK BY TidinessFacts
<1>3. TextsOK' BY <1>2, MovesTexts
<1>4. ASSUME ~orphaned, main # Nobody PROVE Home'
  <2>1. Home BY <1>4, TidinessFacts
  <2> QED BY <1>2, <1>4, <2>1, MovesOneChild, MovesFileGoes, MovesObjectGoes DEF Home
<1>5. ASSUME ~orphaned, result = "pass" PROVE FALSE
  <2>1. Clean BY <1>5, TidinessFacts DEF LeavesNothing
  <2> QED BY <1>1, <2>1 DEF Clean, Runs
<1> QED BY <1>1, <1>3, <1>4, <1>5 DEF Tidiness, Home

LEMMA TidinessNext ==
  ASSUME TextsOK', ~orphaned' /\ main' # Nobody => OneChild' /\ FileGoes' /\ ObjectGoes',
         ~orphaned' /\ result' = "pass" => Clean'
  PROVE  Tidiness'
BY DEF Tidiness

\* The part of OneChild and of FileGoes in the next state.
LEMMA OneChildNext ==
  ASSUME \A a \in Actors :
           th'[a].state # "none" =>
             th'[a].process = main' \/ th'[th'[a].process].parent = main',
         \A b, c \in ChildrenOn(main') : b = c,
         ChildrenOn(main') # {} => Waited(th'[main'].calls, 0)
  PROVE  OneChild'
BY DEF OneChild, MainCalls, Children, ChildrenOn

LEMMA FileGoesNext ==
  ASSUME test' = test, ~mem'[main'].buffer,
         WritesFile(Prog) /\ (file' # "none" \/ ChildrenOn(main') # {}) =>
           Unlinked(th'[main'].calls, 0)
  PROVE  FileGoes'
BY DEF FileGoes, Prog, MainCalls, Children, ChildrenOn

-----------------------------------------------------------------------------
(* Tidiness when main() forks. *)

\* The threads and the memory after the fork by main(), whose child is n.
Forked(n) ==
  /\ n \in Actors /\ th[n] = Nothing /\ main \in Actors /\ n # main
  /\ th'[main].calls = Tail(MainCalls) /\ th'[main].signals = th[main].signals
  /\ th'[main].state = "running" /\ th'[main].process = main
  /\ th'[main].parent = th[main].parent
  /\ th'[n].state = "running" /\ th'[n].process = n /\ th'[n].parent = main
  /\ th'[n].calls = Prog[Head(MainCalls).obj] /\ th'[n].signals = <<>>
  /\ \A b \in Actors : b # main /\ b # n => th'[b] = th[b]
  /\ mem'[n] = mem[main] /\ \A b \in Actors : b # n => mem'[b] = mem[b]
  /\ UNCHANGED <<fixed, ending, ipc, file, orphaned>>

LEMMA ForksShape ==
  ASSUME TypeOK, Tidy(test), TextsOK, bug = "none", NEW a \in Actors, Forks(a)
  PROVE  /\ main # Nobody /\ MainCalls # <<>> /\ Head(MainCalls).op = "fork"
         /\ MainCalls \in Seq(CallsOf(Prog))
         /\ Head(MainCalls).obj \in DOMAIN Prog /\ Head(MainCalls).obj # "main"
         /\ \E n \in Actors : Forked(n)
<1>1. /\ Runs(a) /\ th[a].calls # <<>> /\ Now(a).op = "fork" /\ At(a, "fork")
      /\ UNCHANGED <<fixed, ending, ipc, pipe, file, orphaned, counted>>
  BY AtFacts DEF Forks
<1>2. a = main
  <2>1. ~Modest(th[a].calls) BY <1>1, CallsTyped, ModestTail DEF Now
  <2> QED BY <2>1, TextFacts
<1>3. main # Nobody BY <1>2, ActorsAssumption
<1>4. /\ MainCalls # <<>> /\ Head(MainCalls).op = "fork" /\ MainCalls \in Seq(CallsOf(Prog))
      /\ Head(MainCalls).obj \in DOMAIN Prog /\ Head(MainCalls).obj # "main"
      /\ Now(a) = Head(MainCalls)
  BY <1>1, <1>2, TidyNow, CallsTyped DEF MainCalls, Now
<1>5. /\ Free # {} /\ mem' = [mem EXCEPT ![Newcomer] = Mine(a)]
      /\ th' = [th EXCEPT ![a] = Onward(a),
                          ![Newcomer] = Child(a, Programs[test][Now(a).obj])]
  BY DEF Forks
<1>6. PICK n \in Actors : n = Newcomer /\ th[n] = Nothing
  BY <1>5, NewcomerFree, FamilyFacts
<1>7. Lives(main) /\ Me(a) = main /\ n # main
  BY <1>2, <1>3, <1>6, MainFacts DEF Lives, Me, Nothing
<1> DEFINE calls == Prog[Now(a).obj]
           u == Child(a, calls)
<1>8. calls \in Seq(CallsOf(Prog)) BY <1>4, RoutineCalls DEF Prog
<1>9. u.calls = calls /\ u.signals = <<>> BY DEF Child, Nothing
<1> HIDE DEF calls
<1>10. u.state = "running" /\ u.process = n /\ u.parent = main
  BY <1>1, <1>5, <1>6, <1>7, <1>8, ChildTyped DEF Prog
<1> HIDE DEF u
<1>11. th' = [th EXCEPT ![main] = Onward(a), ![n] = u]
  BY <1>2, <1>5, <1>6 DEF u, calls, Prog
<1>12. /\ Onward(a).state = "running" /\ Onward(a).process = main
       /\ Onward(a).parent = th[main].parent /\ Onward(a).calls = Tail(MainCalls)
       /\ Onward(a).signals = th[main].signals
  <2>1. th[a] \in Thread /\ th[a].state = "running" BY <1>1, ThreadTyped DEF Runs
  <2> QED BY <1>2, <1>7, <2>1 DEF Onward, Thread, MainCalls, Me
<1>13. /\ th'[main] = Onward(a) /\ th'[n] = u
       /\ \A b \in Actors : b # main /\ b # n => th'[b] = th[b]
  BY <1>2, <1>6, <1>7, <1>11 DEF TypeOK, ThreadsOK
<1>14. mem'[n] = mem[main] /\ \A b \in Actors : b # n => mem'[b] = mem[b]
  BY <1>5, <1>6, <1>7 DEF TypeOK, ThreadsOK, Mine
<1>15. Forked(n)
  BY <1>1, <1>2, <1>4, <1>6, <1>7, <1>9, <1>10, <1>12, <1>13, <1>14 DEF Forked, calls
<1> QED BY <1>3, <1>4, <1>15

LEMMA ForksTidiness ==
  ASSUME TypeOK, Tidiness, NEW a \in Actors, Forks(a), bug = "none", Tidy(test)
  PROVE  Tidiness'
<1>0. TextsOK BY TidinessFacts
<1>1. /\ main # Nobody /\ MainCalls # <<>> /\ Head(MainCalls).op = "fork"
      /\ MainCalls \in Seq(CallsOf(Prog))
      /\ Head(MainCalls).obj \in DOMAIN Prog /\ Head(MainCalls).obj # "main"
  BY <1>0, ForksShape
<1>2. PICK n \in Actors : Forked(n) BY <1>0, ForksShape
<1>3. /\ th[n] = Nothing /\ main \in Actors /\ n # main
      /\ th'[main].calls = Tail(MainCalls) /\ th'[main].signals = th[main].signals
      /\ th'[main].state = "running" /\ th'[main].process = main
      /\ th'[main].parent = th[main].parent
      /\ th'[n].state = "running" /\ th'[n].process = n /\ th'[n].parent = main
      /\ th'[n].calls = Prog[Head(MainCalls).obj] /\ th'[n].signals = <<>>
      /\ \A b \in Actors : b # main /\ b # n => th'[b] = th[b]
      /\ mem'[n] = mem[main] /\ \A b \in Actors : b # n => mem'[b] = mem[b]
      /\ test' = test /\ main' = main /\ result' = result /\ ipc' = ipc /\ file' = file
      /\ orphaned' = orphaned
  BY <1>2 DEF Forked, fixed, ending
<1>4. CleansUp(Prog, MainCalls) BY <1>0, <1>1 DEF TextsOK
<1>5. /\ CleansUp(Prog, Tail(MainCalls)) /\ Waited(Tail(MainCalls), 0)
      /\ WritesFile(Prog) => Unlinked(Tail(MainCalls), 0)
  BY <1>1, <1>4, CleansUpTail
<1>6. TextsOK'
  <2>1. ASSUME NEW b \in Actors PROVE TextOK(b)' /\ Simple(b)'
    <3>1. CASE b = n
      <4>1. Modest(th'[b].calls) BY <1>0, <1>1, <1>3, <3>1, TidyRoutine
      <4>2. NoFork(th'[b].signals) BY <1>3, <3>1 DEF NoFork
      <4> QED BY <1>0, <1>3, <3>1, <4>1, <4>2, TextFacts, TextNext
    <3>2. CASE b = main BY <1>0, <1>3, <3>2, TextFacts, TextNext
    <3>3. CASE b # n /\ b # main BY <1>0, <1>3, <3>3, TextFacts, TextNext
    <3> QED BY <3>1, <3>2, <3>3
  <2> QED BY <1>0, <1>3, <1>5, <2>1, TextsNext DEF TextsOK
<1>7. ASSUME ~orphaned PROVE OneChild' /\ FileGoes' /\ ObjectGoes'
  <2>1. OneChild /\ FileGoes /\ ObjectGoes BY <1>1, <1>7, TidinessFacts DEF Home
  <2>2. Children(main) = {} BY <1>1, <2>1, WaitedTail DEF OneChild
  <2>3. ChildrenOn(main) = {n}
    <3>1. n \in ChildrenOn(main) BY <1>3 DEF ChildrenOn
    <3>2. ASSUME NEW c \in ChildrenOn(main), c # n PROVE FALSE
      <4>1. c \in Actors /\ c # main /\ th'[c].process = c /\ th'[c].parent = main
        BY DEF ChildrenOn
      <4>2. c \in Children(main) BY <1>3, <3>2, <4>1 DEF Children
      <4> QED BY <2>2, <4>2
    <3> QED BY <3>1, <3>2
  <2>4. OneChild'
    <3>1. ASSUME NEW c \in Actors, th'[c].state # "none"
          PROVE  th'[c].process = main \/ th'[th'[c].process].parent = main
      <4>1. CASE c \in {n, main} BY <1>3, <4>1
      <4>2. CASE c \notin {n, main}
        <5>1. th'[c] = th[c] BY <1>3, <4>2
        <5>2. th[c].process = main \/ th[th[c].process].parent = main
          BY <2>1, <3>1, <5>1 DEF OneChild
        <5>3. th[c].process \in Actors /\ th[c].process # n
          <6>1. th[n].state = "none" /\ th[n].parent = Nobody BY <1>3 DEF Nothing
          <6>2. th[c].process \in Actors BY <3>1, <5>1, FamilyFacts
          <6>3. th[c].process = n => th[n].parent = main BY <1>3, <5>2
          <6> QED BY <1>1, <6>1, <6>2, <6>3
        <5> QED BY <1>3, <5>1, <5>2, <5>3
      <4> QED BY <4>1, <4>2
    <3> QED BY <1>3, <1>5, <2>3, <3>1, OneChildNext
  <2>5. FileGoes'
    <3>1. ~mem'[main].buffer BY <1>3, <2>1 DEF FileGoes
    <3> QED BY <1>3, <1>5, <3>1, FileGoesNext
  <2>6. ObjectGoes'
    <3> SUFFICES ASSUME ipc.id # 0
                 PROVE  \/ Removed(Prog, Tail(MainCalls), 0)
                        \/ /\ ExitChecked(Tail(MainCalls), 0)
                           /\ \E b \in ChildrenOn(main) : AccountsOn(b)
                        \/ mem'[main].status = 1
      BY <1>3, ObjectGoesNext
    <3>1. CASE Removed(Prog, MainCalls, 0)
      <4>1. \/ Removed(Prog, Tail(MainCalls), 0)
            \/ /\ ExitChecked(Tail(MainCalls), 0)
               /\ \E c \in CallsIn(Prog[Head(MainCalls).obj]) : Removes(c)
        BY <1>1, <3>1, RemovedTail
      <4>2. (\E c \in CallsIn(Prog[Head(MainCalls).obj]) : Removes(c)) => AccountsOn(n)
        BY <1>3 DEF AccountsOn
      <4> QED BY <2>3, <4>1, <4>2
    <3>2. CASE ExitChecked(MainCalls, 0) BY <1>1, <3>2, ExitCheckedTail
    <3>3. CASE ChecksExit(Head(MainCalls)) BY <1>1, <3>3 DEF ChecksExit
    <3>4. CASE mem[main].status = 1 BY <1>3, <3>4
    <3> QED BY <2>1, <3>1, <3>2, <3>3, <3>4 DEF ObjectGoes
  <2> QED BY <2>4, <2>5, <2>6
<1>8. result # "pass" BY <1>1, MainFacts
<1> QED BY <1>3, <1>6, <1>7, <1>8, TidinessNext

-----------------------------------------------------------------------------
(* Tidiness when a process ends. *)

\* What the end of process b makes of the threads and their memory.
LEMMA DiesShape ==
  ASSUME TypeOK, NEW b \in Actors, Lives(b), NEW code \in Int, NEW r, Dies(b, code, r)
  PROVE  /\ th[b].parent = Nobody => th'[b] = Nothing
         /\ th[b].parent # Nobody =>
              /\ th'[b].state = "zombie" /\ th'[b].process = b /\ th'[b].parent = th[b].parent
              /\ th'[b].code = code /\ th'[b].calls = <<>> /\ th'[b].signals = <<>>
         /\ \A c \in Actors \ {b} :
              \/ th'[c] = Nothing /\ (th[c].process = b \/ th[c].parent = b)
              \/ /\ th'[c].state = th[c].state /\ th'[c].process = th[c].process
                 /\ th'[c].calls = th[c].calls /\ th'[c].signals = th[c].signals
                 /\ th[c].process # b
                 /\ th[c].parent # b => th'[c] = th[c]
                 /\ th[c].parent = b => th'[c].parent = Nobody
         /\ mem'[b] = Fresh /\ \A c \in Actors \ {b} : mem'[c] = mem[c]
         /\ test' = test => Gone(b, r)
<1>1. th' = Ended(b, code) /\ mem' = [mem EXCEPT ![b] = Fresh] /\ Gone(b, r) BY DEF Dies
<1>2. mem'[b] = Fresh /\ \A c \in Actors \ {b} : mem'[c] = mem[c]
  BY <1>1 DEF TypeOK, ThreadsOK
<1>e. \A c \in Actors \ {b} :
        /\ th[c].process = b => th'[c] = Nothing
        /\ th[c].process # b /\ th[c].parent # b => th'[c] = th[c]
        /\ th[c].parent = b => IF th[c].state = "zombie" THEN th'[c] = Nothing
                               ELSE th'[c] = [th[c] EXCEPT !.parent = Nobody]
  BY <1>1, EndedFacts
<1>3. ASSUME NEW c \in Actors \ {b}
      PROVE  \/ th'[c] = Nothing /\ (th[c].process = b \/ th[c].parent = b)
             \/ /\ th'[c].state = th[c].state /\ th'[c].process = th[c].process
                /\ th'[c].calls = th[c].calls /\ th'[c].signals = th[c].signals
                /\ th[c].process # b
                /\ th[c].parent # b => th'[c] = th[c]
                /\ th[c].parent = b => th'[c].parent = Nobody
  <2>1. CASE th[c].process = b BY <1>e, <2>1
  <2>2. CASE th[c].process # b /\ th[c].parent # b BY <1>e, <2>2
  <2>3. CASE th[c].process # b /\ th[c].parent = b /\ th[c].state = "zombie"
    BY <1>e, <2>3
  <2>4. CASE th[c].process # b /\ th[c].parent = b /\ th[c].state # "zombie"
    <3>1. th'[c] = [th[c] EXCEPT !.parent = Nobody] BY <1>e, <2>4
    <3>2. th[c] \in Thread BY ThreadTyped
    <3> QED BY <2>4, <3>1, <3>2 DEF Thread
  <2> QED BY <2>1, <2>2, <2>3, <2>4
<1> QED BY <1>1, <1>2, <1>3, EndedFacts

\* What is left alone when a process ends, and the file, which may be written.
Aside(b) ==
  /\ UNCHANGED <<fixed, ipc, orphaned>>
  /\ file' # file => mem[b].buffer

LEMMA DiesTexts ==
  ASSUME TypeOK, Tidy(test), TextsOK, NEW b \in Actors, Lives(b), NEW code \in Int, NEW r,
         Dies(b, code, r), Aside(b)
  PROVE  TextsOK'
<1>1. test' = test /\ ipc' = ipc /\ (file' # file => mem[b].buffer) BY DEF Aside, fixed
<1>2. main' = main \/ (b = main /\ main' = Nobody) BY DEF Dies, Gone, ending
<1>3. ASSUME NEW c \in Actors PROVE TextOK(c)' /\ Simple(c)'
  <2>1. CASE th'[c] = Nothing
    <3>1. /\ Modest(th'[c].calls) /\ NoFork(th'[c].signals) /\ th'[c].state = "none"
      BY <2>1, EmptyText DEF Nothing, NoFork
    <3>2. mem'[c] \in {mem[c], Fresh} BY DiesShape
    <3>3. ~Fresh.buffer /\ Fresh.atexit = "none" BY DEF Fresh
    <3> QED BY <1>1, <3>1, <3>2, <3>3, TextFacts, TextNext
  <2>2. CASE c = b /\ th'[c] # Nothing
    <3>1. th'[b].state = "zombie" /\ th'[b].process = b /\ th'[b].calls = <<>>
          /\ th'[b].signals = <<>> /\ mem'[b] = Fresh
      BY <2>2, DiesShape
    <3>2. Modest(th'[c].calls) /\ NoFork(th'[c].signals)
      BY <2>2, <3>1, EmptyText DEF NoFork
    <3>3. ~Fresh.buffer /\ Fresh.atexit = "none" BY DEF Fresh
    <3> QED BY <1>1, <2>2, <3>1, <3>2, <3>3, TextNext
  <2>3. CASE c # b /\ th'[c] # Nothing
    <3>1. /\ th'[c].state = th[c].state /\ th'[c].process = th[c].process
          /\ th'[c].calls = th[c].calls /\ th'[c].signals = th[c].signals
          /\ mem'[c] = mem[c]
      BY <2>3, DiesShape
    <3>2. c # main' => c # main BY <1>2, <2>3
    <3> QED BY <1>1, <3>1, <3>2, TextFacts, TextNext
  <2> QED BY <2>1, <2>2, <2>3
<1>4. main' # Nobody => CleansUp(Prog, th'[main'].calls)
  <2> SUFFICES ASSUME main' # Nobody PROVE CleansUp(Prog, th'[main].calls)
    BY <1>2
  <2>1. main' = main /\ main # Nobody BY <1>2
  <2>2. main \in Actors /\ Lives(main) /\ th[main].parent = Nobody BY <2>1, MainFacts
  <2>3. main # b
    <3>1. main = b => main' = Nobody BY DEF Dies, Gone
    <3> QED BY <2>1, <3>1
  <2>4. b # Nobody BY ActorsAssumption
  <2>5. th'[main].calls = th[main].calls BY <2>2, <2>3, <2>4, DiesShape DEF Lives
  <2> QED BY <2>1, <2>5 DEF TextsOK, MainCalls
<1>5. file' # "none" => WritesFile(Prog) BY <1>1, TextFacts DEF TextsOK
<1>6. ipc'.id # 0 => UsesObject(Prog) BY <1>1 DEF TextsOK
<1> QED BY <1>1, <1>3, <1>4, <1>5, <1>6, TextsNext

\* A process that is not main's ends: it is a child of main().
LEMMA ChildDies ==
  ASSUME TypeOK, Tidy(test), TextsOK, NEW b \in Actors, Lives(b), NEW code \in Int, NEW r,
         Dies(b, code, r), Aside(b), b # main, main # Nobody,
         OneChild, FileGoes, ObjectGoes, Makers /\ Accounts(b) => code = 1
  PROVE  OneChild' /\ FileGoes' /\ ObjectGoes'
<1>1. test' = test /\ ipc' = ipc /\ (file' # file => mem[b].buffer) BY DEF Aside, fixed
<1>2. main' = main BY DEF Dies, Gone, ending
<1>3. main \in Actors /\ Lives(main) /\ th[main].parent = Nobody BY MainFacts
<1>4. b # Nobody BY ActorsAssumption
<1>5. th'[main] = th[main] /\ mem'[main] = mem[main]
  <2>1. Nothing.state = "none" BY DEF Nothing
  <2> QED BY <1>3, <1>4, DiesShape DEF Lives
<1>6. th[b].process = b /\ th[b].parent = main BY DEF OneChild, Lives
<1>7. /\ th'[b].state = "zombie" /\ th'[b].process = b /\ th'[b].parent = main
      /\ th'[b].code = code
  BY <1>6, DiesShape
<1>8. \A c \in Actors : th[c].parent # b
  <2> SUFFICES ASSUME NEW c \in Actors, th[c].parent = b PROVE FALSE OBVIOUS
  <2>1. th[c].process = c /\ th[c].state # "none"
    <3>1. Nothing.parent = Nobody BY DEF Nothing
    <3> QED BY <1>4, <3>1, FamilyFacts
  <2>2. c = main \/ th[c].parent = main BY <2>1 DEF OneChild
  <2> QED BY <1>3, <1>4, <2>2
<1>9. \A c \in Actors \ {b} : (th'[c] = Nothing /\ th[c].process = b) \/ th'[c] = th[c]
  BY <1>8, DiesShape
<1>n. Nothing.parent = Nobody /\ Nothing.state = "none" BY DEF Nothing
<1>10. ChildrenOn(main) = Children(main)
  <2>1. ASSUME NEW c \in Actors
        PROVE  (th'[c].process = c /\ th'[c].parent = main) <=>
               (th[c].process = c /\ th[c].parent = main)
    <3>1. CASE c = b BY <1>6, <1>7, <3>1
    <3>2. CASE c # b /\ th'[c] = th[c] BY <3>2
    <3>3. CASE c # b /\ th'[c] = Nothing /\ th[c].process = b BY <1>n, <3>3
    <3> QED BY <1>9, <3>1, <3>2, <3>3
  <2> QED BY <2>1 DEF Children, ChildrenOn
<1>11. OneChild'
  <2>1. ASSUME NEW c \in Actors, th'[c].state # "none"
        PROVE  th'[c].process = main \/ th'[th'[c].process].parent = main
    <3>1. CASE c = b BY <1>7, <3>1
    <3>2. CASE c # b
      <4>1. th'[c] = th[c] BY <1>9, <1>n, <2>1, <3>2
      <4>2. th[c].process = main \/ th[th[c].process].parent = main
        BY <2>1, <4>1 DEF OneChild
      <4>3. th[c].process \in Actors BY <2>1, <4>1, FamilyFacts
      <4>4. CASE th[c].process = main BY <4>1, <4>4
      <4>5. CASE th[th[c].process].parent = main /\ th[c].process = b
        BY <1>7, <4>1, <4>5
      <4>6. CASE th[th[c].process].parent = main /\ th[c].process # b
        <5>1. PICK p \in Actors : p = th[c].process /\ p # b BY <4>3, <4>6
        <5>2. th[p].process = p BY <1>3, <4>6, <5>1, FamilyFacts
        <5>3. th'[p] = th[p] BY <1>9, <5>1, <5>2
        <5> QED BY <4>1, <4>6, <5>1, <5>3
      <4> QED BY <4>2, <4>4, <4>5, <4>6
    <3> QED BY <3>1, <3>2
  <2>2. /\ \A c, d \in ChildrenOn(main) : c = d
        /\ ChildrenOn(main) # {} => Waited(th'[main].calls, 0)
    BY <1>5, <1>10 DEF OneChild, MainCalls
  <2> QED BY <1>2, <2>1, <2>2, OneChildNext
<1>12. b \in Children(main) BY <1>6 DEF Children
<1>13. FileGoes'
  <2>1. ~mem'[main].buffer BY <1>5 DEF FileGoes
  <2>2. WritesFile(Prog) => Unlinked(th'[main].calls, 0) BY <1>5, <1>12 DEF FileGoes, MainCalls
  <2> QED BY <1>1, <1>2, <2>1, <2>2, FileGoesNext
<1>14. ObjectGoes'
  <2>0. ASSUME NEW c \in Children(main), Accounts(c), Makers PROVE AccountsOn(b)
    <3>1. c = b BY <1>12 DEF OneChild
    <3>2. code = 1 BY <2>0, <3>1
    <3> QED BY <1>7, <3>2 DEF AccountsOn
  <2>1. ipc'.id # 0 => Makers BY <1>1 DEF TextsOK, Makers
  <2>2. ipc'.id # 0 =>
           \/ Removed(Prog, th'[main].calls, 0)
           \/ ExitChecked(th'[main].calls, 0) /\ \E c \in ChildrenOn(main) : AccountsOn(c)
           \/ /\ th'[main].calls # <<>> /\ ChecksExit(Head(th'[main].calls))
              /\ mem'[main].var["r"] = 1
           \/ mem'[main].status = 1
    BY <1>1, <1>5, <1>10, <1>12, <2>0, <2>1 DEF ObjectGoes, MainCalls
  <2> QED BY <1>1, <1>2, <2>2, ObjectGoesNext
<1> QED BY <1>11, <1>13, <1>14

\* What main() has done when its process ends and the test passes.
Done == ~Waited(MainCalls, 0) /\ (Makers => MainCalls = <<>> /\ mem[main].status # 1)

LEMMA MainDies ==
  ASSUME TypeOK, Tidy(test), TextsOK, main # Nobody, NEW code \in Int, NEW r,
         Dies(main, code, r), Aside(main), OneChild, FileGoes, ObjectGoes, Done
  PROVE  Clean'
<1>1. ipc' = ipc /\ (file' # file => mem[main].buffer) BY DEF Aside
<1>2. main \in Actors /\ Lives(main) /\ th[main].parent = Nobody BY MainFacts
<1>3. Children(main) = {} BY DEF Done, OneChild
<1>4. ASSUME NEW c \in Actors PROVE th'[c].state = "none"
  <2>n. Nothing.state = "none" BY DEF Nothing
  <2>1. PICK b \in Actors : b = main BY <1>2
  <2>2. th'[b] = Nothing
    <3>1. Dies(b, code, r) /\ Lives(b) /\ th[b].parent = Nobody BY <1>2, <2>1
    <3> QED BY <3>1, DiesShape
  <2>3. ASSUME c # main, th[c].state # "none" PROVE th[c].process = main
    <3>1. CASE th[c].process = main BY <3>1
    <3>2. CASE th[th[c].process].parent = main /\ th[c].process # main
      <4>1. PICK p \in Actors : p = th[c].process BY <2>3, FamilyFacts
      <4>2. th[p].parent = main /\ p # main BY <3>2, <4>1
      <4>3. th[p].process = p BY <1>2, <4>2, FamilyFacts, ActorsAssumption
      <4>4. p \in Children(main) BY <4>2, <4>3 DEF Children
      <4> QED BY <1>3, <4>4
    <3> QED BY <2>3, <3>1, <3>2 DEF OneChild
  <2>4. CASE c = main BY <2>1, <2>2, <2>4, <2>n
  <2>5. CASE c # main /\ th[c].state # "none"
    <3>1. Dies(b, code, r) /\ Lives(b) /\ c \in Actors \ {b} BY <1>2, <2>1, <2>5
    <3>2. th[c].process = b BY <2>1, <2>3, <2>5
    <3>3. th'[c] = Nothing BY <3>1, <3>2, DiesShape
    <3> QED BY <2>n, <3>3
  <2>6. CASE c # main /\ th[c].state = "none"
    <3>1. Dies(b, code, r) /\ Lives(b) /\ c \in Actors \ {b} BY <1>2, <2>1, <2>6
    <3>2. th'[c] = Nothing \/ th'[c].state = th[c].state BY <3>1, DiesShape
    <3> QED BY <2>6, <2>n, <3>2
  <2> QED BY <2>4, <2>5, <2>6
<1>5. file' = "none"
  <2>1. file' = file BY <1>1 DEF FileGoes
  <2>2. ASSUME file # "none" PROVE FALSE
    <3>1. WritesFile(Prog) BY <2>2 DEF TextsOK
    <3>2. Unlinked(<<>>, 0) BY <2>2, <3>1 DEF FileGoes, Done, Makers
    <3> QED BY <3>2, WaitedNotEmpty
  <2> QED BY <2>1, <2>2
<1>6. ipc.id = 0
  <2> SUFFICES ASSUME ipc.id # 0 PROVE FALSE OBVIOUS
  <2>1. Makers BY DEF TextsOK, Makers
  <2>2. MainCalls = <<>> /\ mem[main].status # 1 BY <2>1 DEF Done
  <2>3. \/ Removed(Prog, <<>>, 0) \/ ExitChecked(<<>>, 0) BY <2>2 DEF ObjectGoes
  <2> QED BY <2>3, WaitedNotEmpty
<1> QED BY <1>1, <1>4, <1>5, <1>6 DEF Clean

LEMMA DiesTidiness ==
  ASSUME TypeOK, Tidiness, bug = "none", Tidy(test), NEW b \in Actors, Lives(b),
         NEW code \in Int, NEW r, Dies(b, code, r), Aside(b),
         b = main /\ r = "pass" /\ OneChild => Done,
         b # main /\ Makers /\ Accounts(b) => code = 1
  PROVE  Tidiness'
<1>1. TextsOK BY TidinessFacts
<1>2. TextsOK' BY <1>1, DiesTexts
<1>3. orphaned' = orphaned BY DEF Aside
<1>4. CASE b = main
  <2>1. main' = Nobody /\ result' = r BY <1>4 DEF Dies, Gone
  <2>2. ASSUME ~orphaned, r = "pass" PROVE Clean'
    <3>1. main # Nobody BY <1>4, ActorsAssumption
    <3>2. OneChild /\ FileGoes /\ ObjectGoes BY <2>2, <3>1, TidinessFacts DEF Home
    <3> QED BY <1>1, <1>4, <2>2, <3>1, <3>2, MainDies
  <2> QED BY <1>2, <1>3, <2>1, <2>2, TidinessNext
<1>5. CASE b # main
  <2>1. main' = main /\ result' = result BY <1>5 DEF Dies, Gone, ending
  <2>2. ASSUME ~orphaned, main # Nobody PROVE OneChild' /\ FileGoes' /\ ObjectGoes'
    <3>1. OneChild /\ FileGoes /\ ObjectGoes BY <2>2, TidinessFacts DEF Home
    <3> QED BY <1>1, <1>5, <2>2, <3>1, ChildDies
  <2>3. ASSUME ~orphaned, result = "pass" PROVE FALSE
    <3>1. Clean BY <2>3, TidinessFacts DEF LeavesNothing
    <3> QED BY <3>1 DEF Clean, Lives
  <2> QED BY <1>2, <1>3, <2>1, <2>2, <2>3, TidinessNext
<1> QED BY <1>4, <1>5

LEMMA TimeIsOverTidiness ==
  ASSUME TypeOK, Tidiness, TimeIsOver, bug = "none", Tidy(test) PROVE Tidiness'
<1>1. PICK b \in Actors : b = main /\ Lives(b) BY MainFacts DEF TimeIsOver
<1>2. Dies(b, 137, "killed") /\ UNCHANGED <<fixed, ipc, pipe, file, history>>
  BY <1>1 DEF TimeIsOver
<1>3. Aside(b) BY <1>2 DEF Aside, history
<1> QED BY <1>1, <1>2, <1>3, DiesTidiness

LEMMA NoMakers ==
  ASSUME TextsOK', test' = test, ~Makers, main' \in Actors
  PROVE  FileGoes' /\ ObjectGoes'
<1>1. ~WritesFile(Prog) /\ ~UsesObject(Prog) BY DEF Makers
<1>2. ipc'.id = 0 BY <1>1 DEF TextsOK, Prog
<1>3. ~mem'[main'].buffer
  <2>1. \A a \in Actors : mem'[a].buffer => WritesFile(Prog)
    BY DEF TextsOK, TextOK, Prog
  <2> QED BY <1>1, <2>1
<1>4. FileGoes' BY <1>1, <1>3, FileGoesNext
<1>5. ObjectGoes' BY <1>2, ObjectGoesNext
<1> QED BY <1>4, <1>5

\* The first thread of a process goes on with the handler that was registered.
LEMMA HandlerTidiness ==
  ASSUME TypeOK, Tidiness, bug = "none", Tidy(test), NEW a \in Actors, Runs(a), Me(a) = a,
         NEW m \in Memory, m.buffer = mem[a].buffer, m.atexit = mem[a].atexit,
         m.atexit # "none",
         th' = [th EXCEPT ![a].calls = Programs[test][m.atexit]],
         Keeps(a, [m EXCEPT !.atexit = "none"]),
         UNCHANGED <<fixed, ending, ipc, file, orphaned>>,
         a = main => ~Waited(MainCalls, 0)
  PROVE  Tidiness'
<1>1. test' = test /\ main' = main /\ result' = result /\ ipc' = ipc /\ file' = file
      /\ orphaned' = orphaned
  BY DEF fixed, ending
<1>2. TextsOK BY TidinessFacts
<1>3. ~Makers BY <1>2, TextFacts
<1>4. m.atexit \in DOMAIN Prog /\ m.atexit # "main" BY <1>2, TextFacts DEF Memory, Prog
<1>5. Modest(Prog[m.atexit]) /\ CleansUp(Prog, Prog[m.atexit])
  <2>1. Modest(Prog[m.atexit]) BY <1>4, TidyRoutine
  <2>2. \A i \in DOMAIN Prog[m.atexit] : Prog[m.atexit][i] \in CallsOf(Prog)
    BY <1>4 DEF CallsOf, CallsIn
  <2>3. \A i \in DOMAIN Prog[m.atexit] : Prog[m.atexit][i].op # "fwrite"
    BY <1>3, <2>2, TidyCall DEF Makers
  <2> QED BY <2>1, <2>3, ModestCleansUp
<1>6. /\ th'[a].state = th[a].state /\ th'[a].process = th[a].process
      /\ th'[a].parent = th[a].parent /\ th'[a].signals = th[a].signals
      /\ th'[a].calls = Prog[m.atexit]
      /\ \A b \in Actors \ {a} : th'[b] = th[b]
  <2>1. th[a] \in Thread BY ThreadTyped
  <2> QED BY <2>1 DEF Thread, TypeOK, ThreadsOK, Prog
<1>7. /\ mem'[a].buffer = mem[a].buffer /\ mem'[a].atexit = "none"
      /\ \A b \in Actors \ {a} : mem'[b] = mem[b]
  BY DEF Keeps, TypeOK, ThreadsOK, Memory
<1>8. TextsOK'
  <2>1. ASSUME NEW b \in Actors PROVE TextOK(b)' /\ Simple(b)'
    <3>1. CASE b = a
      <4>1. th[b].process = b BY <3>1 DEF Me
      <4> QED BY <1>1, <1>2, <1>3, <1>5, <1>6, <1>7, <3>1, <4>1, TextFacts, TextNext
    <3>2. CASE b # a BY <1>1, <1>2, <1>6, <1>7, <3>2, TextFacts, TextNext
    <3> QED BY <3>1, <3>2
  <2>2. main # Nobody => CleansUp(Prog, th'[main].calls)
    <3> SUFFICES ASSUME main # Nobody PROVE CleansUp(Prog, th'[main].calls) OBVIOUS
    <3>1. main \in Actors /\ CleansUp(Prog, th[main].calls)
      BY <1>2, MainFacts DEF TextsOK, MainCalls
    <3> QED BY <1>5, <1>6, <3>1
  <2> QED BY <1>1, <1>2, <2>1, <2>2, TextsNext DEF TextsOK
<1>9. ASSUME ~orphaned, main # Nobody PROVE OneChild' /\ FileGoes' /\ ObjectGoes'
  <2>1. OneChild BY <1>9, TidinessFacts DEF Home
  <2>2. main \in Actors BY <1>9, MainFacts
  <2>3. \A b \in Actors : /\ th'[b].state = th[b].state /\ th'[b].process = th[b].process
                          /\ th'[b].parent = th[b].parent
    BY <1>6
  <2>4. ChildrenOn(main) = Children(main) BY <2>3 DEF Children, ChildrenOn
  <2>5. Children(main) # {} => Waited(th'[main].calls, 0)
    BY <1>6, <2>1, <2>2 DEF OneChild, MainCalls
  <2>6. ASSUME NEW b \in Actors, th'[b].state # "none"
        PROVE  th'[b].process = main \/ th'[th'[b].process].parent = main
    <3>1. th[b].process = main \/ th[th[b].process].parent = main
      BY <2>1, <2>3, <2>6 DEF OneChild
    <3>2. th[b].process \in Actors BY <2>3, <2>6, FamilyFacts
    <3> QED BY <2>3, <3>1, <3>2
  <2>7. \A b, c \in ChildrenOn(main) : b = c BY <2>1, <2>4 DEF OneChild
  <2>8. OneChild' BY <1>1, <2>4, <2>5, <2>6, <2>7, OneChildNext
  <2> QED BY <1>1, <1>3, <1>8, <2>2, <2>8, NoMakers
<1>10. ASSUME ~orphaned, result = "pass" PROVE FALSE
  <2>1. Clean BY <1>10, TidinessFacts DEF LeavesNothing
  <2> QED BY <2>1 DEF Clean, Runs
<1> QED BY <1>1, <1>8, <1>9, <1>10, TidinessNext

LEMMA ExitsTidiness ==
  ASSUME TypeOK, Tidiness, bug = "none", Tidy(test), NEW a \in Actors, Runs(a), Me(a) = a,
         NEW m \in Memory, m.buffer = mem[a].buffer, m.atexit = mem[a].atexit,
         NEW code \in Int, Exits(a, m, code), UNCHANGED <<fixed, ipc, pipe, history>>,
         a = main => ~Waited(MainCalls, 0),
         a = main /\ code = 0 /\ Makers => MainCalls = <<>> /\ mem[main].status # 1,
         a # main /\ Makers /\ Accounts(a) => code = 1
  PROVE  Tidiness'
<1>1. UNCHANGED <<fixed, ipc, orphaned>> BY DEF history
<1>2. CASE m.atexit # "none"
  <2>1. /\ th' = [th EXCEPT ![a].calls = Programs[test][m.atexit]]
        /\ Keeps(a, [m EXCEPT !.atexit = "none"])
        /\ UNCHANGED <<ending, lock, file>>
    BY <1>2 DEF Exits
  <2> QED BY <1>1, <1>2, <2>1, HandlerTidiness
<1>3. CASE m.atexit = "none"
  <2>1. Ends(a, code) /\ file' = IF m.buffer /\ bug # "not_flushed" THEN "x" ELSE file
    BY <1>3 DEF Exits
  <2>2. PICK r : Dies(a, code, r) /\ (r = "pass" => code = 0) BY <2>1 DEF Ends
  <2>3. Aside(a) BY <1>1, <2>1 DEF Aside
  <2>4. Lives(a) BY RunnerLives
  <2>5. a = main /\ r = "pass" => Done BY <2>2 DEF Done
  <2> QED BY <2>2, <2>3, <2>4, <2>5, DiesTidiness
<1> QED BY <1>2, <1>3

LEMMA MainReturnsTidiness ==
  ASSUME TypeOK, Tidiness, NEW a \in Actors, MainReturns(a), bug = "none", Tidy(test)
  PROVE  Tidiness'
<1>1. /\ Runs(a) /\ th[a].calls = <<>> /\ Exits(a, Mine(a), Mine(a).status)
      /\ UNCHANGED <<fixed, ipc, pipe, history>>
  BY DEF MainReturns
<1>2. TextsOK BY TidinessFacts
<1>3. Me(a) = a
  <2>1. th[a].state = "running" /\ ~EndsAlone(th[a].calls) BY <1>1 DEF Runs, EndsAlone
  <2> QED BY <1>2, <2>1, TextFacts DEF Me
<1>4. Mine(a) \in Memory /\ Mine(a) = mem[a] BY <1>1, <1>3, RunnerLives DEF Mine
<1>5. mem[a].status \in Int BY <1>4 DEF Memory
<1>6. a = main => MainCalls = <<>> /\ ~Waited(MainCalls, 0)
  BY <1>1, WaitedNotEmpty DEF MainCalls
<1>7. Accounts(a) => mem[a].status = 1
  <2>1. CallsIn(th[a].calls) = {} BY <1>1 DEF CallsIn
  <2> QED BY <1>1, <2>1 DEF Accounts, Runs
<1> QED BY <1>1, <1>3, <1>4, <1>5, <1>6, <1>7, ExitsTidiness

LEMMA ExitsNowTidiness ==
  ASSUME TypeOK, Tidiness, NEW a \in Actors, ExitsNow(a), bug = "none", Tidy(test)
  PROVE  Tidiness'
<1>1. /\ Runs(a) /\ th[a].calls # <<>> /\ Ends(Me(a), ExitCode(a))
      /\ UNCHANGED <<fixed, ipc, pipe, file, history>>
      /\ Now(a).op \in {"_exit", "setlk_exit", "getlk_exit", "stop", "stop_child"}
      /\ Now(a).op = "stop" => Mine(a).status = 1
  BY AtFacts DEF ExitsNow, MayExit
<1>2. TextsOK BY TidinessFacts
<1>3. Mine(a) \in Memory /\ Me(a) \in Actors /\ Lives(Me(a)) BY <1>1, RunnerLives
<1>4. ExitCode(a) \in Int
  <2>1. Mine(a).status \in Int BY <1>3 DEF Memory
  <2>2. Now(a).op = "_exit" => Now(a).obj \in Int BY <1>1, NowNames DEF Names
  <2> QED BY <2>1, <2>2 DEF ExitCode
<1>5. Now(a).op = "stop" => ExitCode(a) = 1 BY <1>1 DEF ExitCode
<1>6. Makers => Now(a).op = "stop" BY <1>1, TidyNow DEF Leaving
<1>7. Me(a) = a
  <2>1. /\ th[a].calls \in Seq(CallsOf(Prog)) /\ 1 \in DOMAIN th[a].calls
        /\ th[a].calls[1] = Now(a)
    BY <1>1, CallsTyped, TailFacts DEF Now
  <2>2. ~EndsAlone(th[a].calls) BY <1>1, <2>1 DEF EndsAlone
  <2> QED BY <1>1, <1>2, <2>2, TextFacts DEF Me, Runs
<1>8. PICK r : Dies(a, ExitCode(a), r) /\ (r = "pass" => ExitCode(a) = 0)
  BY <1>1, <1>7 DEF Ends
<1>9. Aside(a) BY <1>1 DEF Aside, history
<1>10. a = main /\ r = "pass" => Done
  <2> SUFFICES ASSUME a = main, r = "pass" PROVE Done OBVIOUS
  <2>1. Now(a).op # "stop" BY <1>5, <1>8
  <2>2. Head(MainCalls).op \in Leaving /\ MainCalls # <<>> /\ MainCalls \in Seq(CallsOf(Prog))
    BY <1>1, <2>1, CallsTyped DEF MainCalls, Now, Leaving
  <2>3. ~Waited(MainCalls, 0) BY <2>2, WaitedTail DEF Leaving
  <2> QED BY <1>6, <2>1, <2>3 DEF Done
<1>11. Makers => ExitCode(a) = 1 BY <1>5, <1>6
<1> QED BY <1>3, <1>4, <1>7, <1>8, <1>9, <1>10, <1>11, DiesTidiness

LEMMA DestroyedFacts ==
  ASSUME TypeOK, NEW a \in Actors, Runs(a)
  PROVE  /\ DataDestroyed(a) \in Memory /\ DataDestroyed(a).buffer = Mine(a).buffer
         /\ DataDestroyed(a).atexit = Mine(a).atexit
<1>1. Mine(a) \in Memory /\ th[a].tsd \in Variables BY RunnerLives, ThreadTyped
<1> DEFINE v == IF bug = "destructor_skipped" THEN Mine(a).var[th[a].tsd] ELSE 1
<1>2. v \in Int
  <2>1. Mine(a).var \in [Variables -> Int] BY <1>1 DEF Memory
  <2> QED BY <1>1, <2>1
<1>3. DataDestroyed(a) = [Mine(a) EXCEPT !.var[th[a].tsd] = v] BY DEF DataDestroyed
<1> HIDE DEF v
<1>4. DataDestroyed(a) \in Memory BY <1>1, <1>2, <1>3, VarTyped
<1>5. DataDestroyed(a).buffer = Mine(a).buffer /\ DataDestroyed(a).atexit = Mine(a).atexit
  BY <1>1, <1>3 DEF Memory
<1> QED BY <1>4, <1>5

\* A thread other than the first of its process is done, or is forgotten.
LEMMA PeerTidiness ==
  ASSUME TypeOK, Tidiness, bug = "none", Tidy(test), ~Makers,
         NEW a \in Actors, NEW b \in Actors, th[b].state # "none", th[b].process # b,
         th'[b].calls = <<>>, th'[b].state \in {"none", "done"}, NoFork(th'[b].signals),
         th'[b].state # "none" => th'[b].process = th[b].process,
         th'[b].parent = Nobody, th'[b].process # b,
         \A c \in Actors \ {b} :
           /\ th'[c].state = th[c].state /\ th'[c].process = th[c].process
           /\ th'[c].parent = th[c].parent /\ th'[c].signals = th[c].signals
           /\ c # a => th'[c].calls = th[c].calls,
         a # b => /\ th[a].calls # <<>> /\ th'[a].calls = Tail(th[a].calls)
                  /\ Head(th[a].calls).op \notin {"wait", "pthread_exit"},
         \A c \in Actors : mem'[c].buffer = mem[c].buffer /\ mem'[c].atexit = mem[c].atexit,
         UNCHANGED <<fixed, ending, ipc, file, orphaned>>
  PROVE  Tidiness'
<1>1. test' = test /\ main' = main /\ result' = result /\ ipc' = ipc /\ file' = file
      /\ orphaned' = orphaned
  BY DEF fixed, ending
<1>2. TextsOK BY TidinessFacts
<1>b. b # main /\ th[b].parent = Nobody
  <2>1. main # Nobody => th[main].process = main BY MainFacts DEF Lives
  <2> QED BY <2>1, FamilyFacts, ActorsAssumption
<1>3. TextsOK'
  <2>1. ASSUME NEW c \in Actors PROVE TextOK(c)' /\ Simple(c)'
    <3>1. CASE c = b
      <4>1. Modest(th'[c].calls) BY <3>1, EmptyText
      <4> QED BY <1>1, <1>2, <3>1, <4>1, TextFacts, TextNext
    <3>2. CASE c # b /\ c # a BY <1>1, <1>2, <3>2, TextFacts, TextNext
    <3>3. CASE c # b /\ c = a
      <4>1. th[a].calls \in Seq(CallsOf(Prog)) BY CallsTyped
      <4>2. c # main => Modest(th'[c].calls) BY <1>2, <3>3, <4>1, TextFacts, ModestTail
      <4>3. th'[c].state = "running" /\ th'[c].process # c => EndsAlone(th'[c].calls)
        BY <1>2, <3>3, <4>1, TextFacts, EndsAloneTail
      <4> QED BY <1>1, <1>2, <3>3, <4>2, <4>3, TextFacts, TextNext
    <3> QED BY <3>1, <3>2, <3>3
  <2>2. main # Nobody => CleansUp(Prog, th'[main].calls)
    <3> SUFFICES ASSUME main # Nobody PROVE CleansUp(Prog, th'[main].calls) OBVIOUS
    <3>1. main \in Actors /\ CleansUp(Prog, th[main].calls)
      BY <1>2, MainFacts DEF TextsOK, MainCalls
    <3>2. CASE main # a BY <1>b, <3>1, <3>2
    <3>3. CASE main = a BY <1>b, <3>1, <3>3, CallsTyped, CleansUpTail
    <3> QED BY <3>2, <3>3
  <2> QED BY <1>1, <1>2, <2>1, <2>2, TextsNext DEF TextsOK
<1>4. ASSUME ~orphaned, main # Nobody PROVE OneChild' /\ FileGoes' /\ ObjectGoes'
  <2>1. OneChild BY <1>4, TidinessFacts DEF Home
  <2>2. main \in Actors /\ main # b BY <1>4, <1>b, MainFacts
  <2>3. ChildrenOn(main) = Children(main) BY <1>4, <1>b DEF Children, ChildrenOn
  <2>4. Children(main) # {} => Waited(th'[main].calls, 0)
    <3> SUFFICES ASSUME Children(main) # {} PROVE Waited(th'[main].calls, 0) OBVIOUS
    <3>1. Waited(th[main].calls, 0) BY <2>1 DEF OneChild, MainCalls
    <3>2. CASE main # a BY <2>2, <3>1, <3>2
    <3>3. CASE main = a BY <2>2, <3>1, <3>3, CallsTyped, WaitedTail
    <3> QED BY <3>2, <3>3
  <2>5. ASSUME NEW c \in Actors, th'[c].state # "none"
        PROVE  th'[c].process = main \/ th'[th'[c].process].parent = main
    <3>1. th[c].state # "none" /\ th'[c].process = th[c].process BY <2>5
    <3>2. th[c].process = main \/ th[th[c].process].parent = main
      BY <2>1, <3>1 DEF OneChild
    <3>3. CASE th[c].process = main BY <3>1, <3>3
    <3>4. CASE th[th[c].process].parent = main
      <4>1. th[c].process \in Actors BY <3>1, FamilyFacts
      <4>2. th[c].process # b BY <1>4, <1>b, <3>4
      <4> QED BY <3>1, <3>4, <4>1, <4>2
    <3> QED BY <3>2, <3>3, <3>4
  <2>6. \A c, d \in ChildrenOn(main) : c = d BY <2>1, <2>3 DEF OneChild
  <2>7. OneChild' BY <1>1, <2>3, <2>4, <2>5, <2>6, OneChildNext
  <2> QED BY <1>1, <1>3, <2>2, <2>7, NoMakers
<1>5. ASSUME ~orphaned, result = "pass" PROVE FALSE
  <2>1. Clean BY <1>5, TidinessFacts DEF LeavesNothing
  <2> QED BY <2>1 DEF Clean
<1> QED BY <1>1, <1>3, <1>4, <1>5, TidinessNext

LEMMA ThreadEndsTidiness ==
  ASSUME TypeOK, Tidiness, NEW a \in Actors, ThreadEnds(a), bug = "none", Tidy(test)
  PROVE  Tidiness'
<1>1. /\ Runs(a) /\ th[a].calls # <<>> /\ Now(a).op = "pthread_exit"
      /\ UNCHANGED <<fixed, ipc, pipe, history>>
  BY AtFacts DEF ThreadEnds
<1>2. ~Makers BY <1>1, TidyNow DEF Leaving
<1>m. /\ DataDestroyed(a) \in Memory /\ DataDestroyed(a).buffer = Mine(a).buffer
      /\ DataDestroyed(a).atexit = Mine(a).atexit
  BY <1>1, DestroyedFacts
<1>3. CASE a = Me(a)
  <2>1. Exits(a, DataDestroyed(a), 0) BY <1>3 DEF ThreadEnds
  <2>2. Mine(a) = mem[a] BY <1>3 DEF Mine
  <2>3. a = main => ~Waited(MainCalls, 0)
    <3> SUFFICES ASSUME a = main PROVE ~Waited(MainCalls, 0) OBVIOUS
    <3>1. MainCalls # <<>> /\ MainCalls \in Seq(CallsOf(Prog))
          /\ Head(MainCalls).op = "pthread_exit"
      BY <1>1, CallsTyped DEF MainCalls, Now
    <3> QED BY <3>1, WaitedTail DEF Leaving
  <2> QED BY <1>1, <1>2, <1>3, <1>m, <2>1, <2>2, <2>3, ExitsTidiness
<1>4. CASE a # Me(a)
  <2>1. /\ th' = [th EXCEPT ![a].state = "done", ![a].calls = <<>>]
        /\ Keeps(a, DataDestroyed(a))
        /\ UNCHANGED <<ending, lock, file>>
    BY <1>4 DEF ThreadEnds
  <2>2. th \in [Actors -> Thread] BY DEF TypeOK, ThreadsOK
  <2>3. /\ th'[a].state = "done" /\ th'[a].calls = <<>> /\ th'[a].process = th[a].process
        /\ th'[a].parent = th[a].parent /\ th'[a].signals = th[a].signals
        /\ \A c \in Actors \ {a} : th'[c] = th[c]
    BY <2>1, <2>2 DEF Thread
  <2>4. \A c \in Actors : mem'[c].buffer = mem[c].buffer /\ mem'[c].atexit = mem[c].atexit
    BY <1>m, <2>1 DEF Keeps, Mine, TypeOK, ThreadsOK
  <2>5. th[a].state # "none" /\ th[a].process # a BY <1>1, <1>4 DEF Runs, Me
  <2>6. th'[a].parent = Nobody BY <2>3, <2>5, FamilyFacts
  <2>7. NoFork(th'[a].signals) BY <2>3, TextFacts, TidinessFacts
  <2>8. UNCHANGED <<fixed, ending, ipc, file, orphaned>> BY <1>1, <2>1 DEF history
  <2> QED BY <1>2, <2>3, <2>4, <2>5, <2>6, <2>7, <2>8, PeerTidiness
<1> QED BY <1>3, <1>4

LEMMA ThreadJoinedTidiness ==
  ASSUME TypeOK, Tidiness, NEW a \in Actors, ThreadJoined(a), bug = "none", Tidy(test)
  PROVE  Tidiness'
<1>1. /\ Runs(a) /\ th[a].calls # <<>> /\ Now(a).op = "join"
      /\ UNCHANGED <<rest, mem, objects>>
  BY AtFacts DEF ThreadJoined
<1>2. PICK b \in Peers(a) :
        th[b].state = "done" /\ th' = [th EXCEPT ![a] = Onward(a), ![b] = Nothing]
  BY DEF ThreadJoined
<1>3. b \in Actors /\ b # a /\ th[b].process = Me(a) BY DEF Peers
<1>4. th[b].process # b
  <2>1. Lives(th[b].process) BY <1>2, <1>3, FamilyFacts
  <2> QED BY <1>2, <2>1 DEF Lives
<1>5. ~Makers BY <1>2, <1>3, <1>4, TextFacts, TidinessFacts
<1>6. /\ th'[b] = Nothing /\ th'[a] = Onward(a)
      /\ \A c \in Actors : c # a /\ c # b => th'[c] = th[c]
  BY <1>2, <1>3 DEF TypeOK, ThreadsOK
<1>7. /\ Onward(a).state = th[a].state /\ Onward(a).process = th[a].process
      /\ Onward(a).parent = th[a].parent /\ Onward(a).calls = Tail(th[a].calls)
      /\ Onward(a).signals = th[a].signals
  BY ThreadTyped DEF Onward, Thread
<1>8. /\ Nothing.state = "none" /\ Nothing.calls = <<>> /\ Nothing.parent = Nobody
      /\ NoFork(Nothing.signals) /\ Nothing.process # b
  BY <1>3, ActorsAssumption DEF Nothing, NoFork
<1>9. UNCHANGED <<fixed, ending, ipc, file, orphaned>> /\ mem' = mem
  BY <1>1 DEF rest, history, objects
<1>10. Head(th[a].calls).op \notin {"wait", "pthread_exit"} BY <1>1 DEF Now
<1>11. /\ th'[b].calls = <<>> /\ th'[b].state \in {"none", "done"} /\ NoFork(th'[b].signals)
       /\ th'[b].state # "none" => th'[b].process = th[b].process
       /\ th'[b].parent = Nobody /\ th'[b].process # b
  BY <1>6, <1>8
<1>12. \A c \in Actors \ {b} :
         /\ th'[c].state = th[c].state /\ th'[c].process = th[c].process
         /\ th'[c].parent = th[c].parent /\ th'[c].signals = th[c].signals
         /\ c # a => th'[c].calls = th[c].calls
  BY <1>6, <1>7
<1>13. /\ th[a].calls # <<>> /\ th'[a].calls = Tail(th[a].calls)
       /\ Head(th[a].calls).op \notin {"wait", "pthread_exit"}
  BY <1>1, <1>6, <1>7, <1>10
<1>14. \A c \in Actors : mem'[c].buffer = mem[c].buffer /\ mem'[c].atexit = mem[c].atexit
  BY <1>9
<1>15. th[b].state # "none" BY <1>2
<1> QED BY <1>3, <1>4, <1>5, <1>9, <1>11, <1>12, <1>13, <1>14, <1>15, PeerTidiness

LEMMA ThreadCreatedTidiness ==
  ASSUME TypeOK, Tidiness, NEW a \in Actors, ThreadCreated(a), bug = "none", Tidy(test)
  PROVE  Tidiness'
<1> DEFINE calls == Prog[Now(a).obj]
           u == [Nothing EXCEPT !.state = "running", !.process = Me(a), !.calls = calls]
<1>1. /\ Runs(a) /\ th[a].calls # <<>> /\ Now(a).op = "create" /\ Free # {}
      /\ UNCHANGED <<rest, mem, objects>>
      /\ th' = [th EXCEPT ![a] = Onward(a), ![Newcomer] = u]
  BY AtFacts DEF ThreadCreated, Prog
<1>2. TextsOK BY TidinessFacts
<1>3. /\ Now(a).obj \in DOMAIN Prog /\ Now(a).obj # "main" /\ EndsAlone(calls) /\ ~Makers
  BY <1>1, TidyNow
<1>4. Modest(calls) BY <1>3, TidyRoutine
<1> HIDE DEF calls
<1>5. /\ u.state = "running" /\ u.process = Me(a) /\ u.parent = Nobody /\ u.calls = calls
      /\ u.signals = <<>>
  BY DEF Nothing
<1> HIDE DEF u
<1>6. PICK n \in Actors : n = Newcomer /\ th[n] = Nothing BY <1>1, NewcomerFree, FamilyFacts
<1>n. Nothing.state = "none" /\ Nothing.parent = Nobody BY DEF Nothing
<1>7. th[a].state = "running" /\ Me(a) \in Actors /\ Me(a) # n /\ a # n /\ th[a].process = Me(a)
      /\ Lives(Me(a))
  BY <1>1, <1>6, <1>n, RunnerLives DEF Lives
<1>8. /\ Onward(a).state = th[a].state /\ Onward(a).process = th[a].process
      /\ Onward(a).parent = th[a].parent /\ Onward(a).calls = Tail(th[a].calls)
      /\ Onward(a).signals = th[a].signals
  BY ThreadTyped DEF Onward, Thread
<1>9. /\ th'[n] = u /\ th'[a] = Onward(a) /\ \A b \in Actors : b # a /\ b # n => th'[b] = th[b]
  BY <1>1, <1>6, <1>7 DEF TypeOK, ThreadsOK
<1>10. test' = test /\ main' = main /\ result' = result /\ ipc' = ipc /\ file' = file
       /\ orphaned' = orphaned /\ mem' = mem
  BY <1>1 DEF rest, fixed, ending, history, objects
<1>11. Head(th[a].calls).op \notin {"wait", "pthread_exit"} /\ th[a].calls \in Seq(CallsOf(Prog))
  BY <1>1, CallsTyped DEF Now
<1>m. main # Nobody => main \in Actors /\ th[main].state = "running"
  BY MainFacts DEF Lives
<1>12. TextsOK'
  <2>1. ASSUME NEW c \in Actors PROVE TextOK(c)' /\ Simple(c)'
    <3>1. CASE c = n
      <4>1. NoFork(th'[c].signals) BY <1>5, <1>9, <3>1 DEF NoFork
      <4> QED BY <1>2, <1>3, <1>4, <1>5, <1>9, <1>10, <3>1, <4>1, TextFacts, TextNext
    <3>2. CASE c # n /\ c # a BY <1>2, <1>9, <1>10, <3>2, TextFacts, TextNext
    <3>3. CASE c = a
      <4>2. c # main => Modest(th'[c].calls)
        BY <1>1, <1>2, <1>8, <1>9, <1>11, <3>3, TextFacts, ModestTail
      <4>3. th'[c].state = "running" /\ th'[c].process # c => EndsAlone(th'[c].calls)
        <5> SUFFICES ASSUME th[a].process # a PROVE EndsAlone(Tail(th[a].calls))
          BY <1>8, <1>9, <3>3
        <5>1. EndsAlone(th[a].calls) BY <1>2, <1>7, TextFacts
        <5> QED BY <1>11, <5>1, EndsAloneTail
      <4> QED BY <1>2, <1>3, <1>8, <1>9, <1>10, <3>3, <4>2, <4>3, TextFacts, TextNext
    <3> QED BY <3>1, <3>2, <3>3
  <2>2. main # Nobody => CleansUp(Prog, th'[main].calls)
    <3> SUFFICES ASSUME main # Nobody PROVE CleansUp(Prog, th'[main].calls) OBVIOUS
    <3>1. main \in Actors /\ CleansUp(Prog, th[main].calls) /\ main # n
      BY <1>2, <1>6, <1>m, <1>n DEF TextsOK, MainCalls
    <3>2. CASE main # a BY <1>9, <3>1, <3>2
    <3>3. CASE main = a BY <1>1, <1>8, <1>9, <1>11, <3>1, <3>3, CleansUpTail
    <3> QED BY <3>2, <3>3
  <2> QED BY <1>2, <1>10, <2>1, <2>2, TextsNext DEF TextsOK
<1>13. ASSUME ~orphaned, main # Nobody PROVE OneChild' /\ FileGoes' /\ ObjectGoes'
  <2>1. OneChild BY <1>13, TidinessFacts DEF Home
  <2>2. main \in Actors /\ main # n BY <1>6, <1>13, <1>m, <1>n
  <2>p. \A c \in Actors \ {n} : /\ th'[c].state = th[c].state /\ th'[c].process = th[c].process
                                /\ th'[c].parent = th[c].parent
    BY <1>8, <1>9
  <2>3. ChildrenOn(main) = Children(main)
    <3>1. ASSUME NEW c \in Actors
          PROVE  (th'[c].process = c /\ th'[c].parent = main) <=>
                 (th[c].process = c /\ th[c].parent = main)
      <4>1. CASE c = n BY <1>5, <1>6, <1>9, <1>n, <1>13, <4>1
      <4>2. CASE c # n BY <2>p, <4>2
      <4> QED BY <4>1, <4>2
    <3> QED BY <3>1 DEF Children, ChildrenOn
  <2>4. Children(main) # {} => Waited(th'[main].calls, 0)
    <3> SUFFICES ASSUME Children(main) # {} PROVE Waited(th'[main].calls, 0) OBVIOUS
    <3>1. Waited(th[main].calls, 0) BY <2>1 DEF OneChild, MainCalls
    <3>2. CASE main # a BY <1>9, <2>2, <3>1, <3>2
    <3>3. CASE main = a BY <1>1, <1>8, <1>9, <1>11, <3>1, <3>3, WaitedTail
    <3> QED BY <3>2, <3>3
  <2>5. ASSUME NEW c \in Actors, th'[c].state # "none"
        PROVE  th'[c].process = main \/ th'[th'[c].process].parent = main
    <3>0. PICK d \in Actors : d # n /\ th[d].state # "none" /\ th'[c].process = th[d].process
      <4>1. CASE c = n BY <1>5, <1>7, <1>9, <4>1
      <4>2. CASE c # n BY <2>5, <2>p, <4>2
      <4> QED BY <4>1, <4>2
    <3>1. th[d].process = main \/ th[th[d].process].parent = main
      BY <2>1, <3>0 DEF OneChild
    <3>2. th[d].process \in Actors BY <3>0, FamilyFacts
    <3>3. CASE th[d].process = main BY <3>0, <3>3
    <3>4. CASE th[th[d].process].parent = main
      <4>1. th[d].process # n BY <1>6, <1>13, <1>n, <3>4
      <4> QED BY <2>p, <3>0, <3>2, <3>4, <4>1
    <3> QED BY <3>1, <3>3, <3>4
  <2>6. \A c, d \in ChildrenOn(main) : c = d BY <2>1, <2>3 DEF OneChild
  <2>7. OneChild' BY <1>10, <2>3, <2>4, <2>5, <2>6, OneChildNext
  <2> QED BY <1>3, <1>10, <1>12, <2>2, <2>7, NoMakers
<1>14. ASSUME ~orphaned, result = "pass" PROVE FALSE
  <2>1. Clean BY <1>14, TidinessFacts DEF LeavesNothing
  <2> QED BY <1>7, <2>1 DEF Clean
<1> QED BY <1>10, <1>12, <1>13, <1>14, TidinessNext

-----------------------------------------------------------------------------
(* Tidiness when a process waits. *)

\* Thread a of process p has waited for child b.
Reaped(a, p, b) ==
  /\ a \in Actors /\ p \in Actors /\ b \in Actors /\ p = Me(a) /\ a # b
  /\ th[a].state = "running" /\ th[a].calls # <<>> /\ Head(th[a].calls).op = "wait"
  /\ th[b].state = "zombie" /\ th[b].process = b /\ th[b].parent = p
  /\ th'[b] = Nothing /\ th'[a].calls = Tail(th[a].calls)
  /\ th'[a].state = th[a].state /\ th'[a].process = th[a].process
  /\ th'[a].parent = th[a].parent /\ th'[a].signals = th[a].signals
  /\ \A c \in Actors : c # a /\ c # b => th'[c] = th[c]
  /\ mem'[p].status \in {mem[p].status, 1} /\ mem'[p].var["r"] = th[b].code
  /\ mem'[p].buffer = mem[p].buffer /\ mem'[p].atexit = mem[p].atexit
  /\ \A c \in Actors : c # p => mem'[c] = mem[c]
  /\ UNCHANGED <<fixed, ending, ipc, file, orphaned>>

LEMMA WaitsShape ==
  ASSUME TypeOK, NEW a \in Actors, Waits(a)
  PROVE  Moves(a) \/ \E p, b \in Actors : Reaped(a, p, b)
<1>1. /\ Runs(a) /\ th[a].calls # <<>> /\ Now(a).op = "wait" /\ UNCHANGED <<rest, objects>>
  BY AtFacts DEF Waits
<1>2. UNCHANGED <<fixed, ending, ipc, file, orphaned>> BY <1>1 DEF rest, history, objects
<1>3. ~ChecksExit(Now(a)) /\ ~Removes(Now(a)) BY <1>1 DEF ChecksExit, Removes
<1>4. CASE Children(Me(a)) = {}
  <2>1. Returns(a, Failed) BY <1>4 DEF Waits
  <2>2. /\ Others(a) /\ th'[a].calls = Tail(th[a].calls)
        /\ mem'[Me(a)].status \in {mem[Me(a)].status, 1}
        /\ mem'[Me(a)].var = mem[Me(a)].var
        /\ mem'[Me(a)].buffer = mem[Me(a)].buffer /\ mem'[Me(a)].atexit = mem[Me(a)].atexit
    BY <1>1, <2>1, ReturnsShape
  <2>3. Makes(a) BY <1>1, <1>2, <1>3, <1>4, <2>2 DEF Makes
  <2> QED BY <1>1, <1>2, <2>2, <2>3 DEF Moves
<1>5. CASE Children(Me(a)) # {}
  <2>1. PICK b \in Children(Me(a)) :
             /\ th[b].state = "zombie"
             /\ th' = [th EXCEPT ![a] = Onward(a), ![b] = Nothing]
             /\ Keeps(a, [Judged(Mine(a), Now(a), 0) EXCEPT !.var["r"] = th[b].code])
    BY <1>5 DEF Waits
  <2>2. PICK p \in Actors : p = Me(a) BY <1>1, RunnerLives
  <2>3. b \in Actors /\ th[b].process = b /\ th[b].parent = p BY <2>2 DEF Children
  <2>4. th[a].state = "running" /\ a # b BY <1>1, <2>1 DEF Runs
  <2>5. /\ th'[b] = Nothing /\ th'[a] = Onward(a)
        /\ \A c \in Actors : c # a /\ c # b => th'[c] = th[c]
    BY <2>1, <2>3, <2>4 DEF TypeOK, ThreadsOK
  <2>6. /\ Onward(a).state = th[a].state /\ Onward(a).process = th[a].process
        /\ Onward(a).parent = th[a].parent /\ Onward(a).calls = Tail(th[a].calls)
        /\ Onward(a).signals = th[a].signals
    BY ThreadTyped DEF Onward, Thread
  <2> DEFINE j == Judged(Mine(a), Now(a), 0)
             m == [j EXCEPT !.var["r"] = th[b].code]
  <2>7. Mine(a) \in Memory /\ Mine(a) = mem[p] BY <1>1, <2>2, RunnerLives DEF Mine
  <2>8. j \in Memory /\ j.status \in {Mine(a).status, 1} /\ j.buffer = Mine(a).buffer
        /\ j.atexit = Mine(a).atexit
    BY <2>7, JudgedFacts, JudgedTyped
  <2> HIDE DEF j
  <2>9. m.status = j.status /\ m.buffer = j.buffer /\ m.atexit = j.atexit
        /\ m.var["r"] = th[b].code
    BY <2>8 DEF Memory, Variables
  <2>10. mem' = [mem EXCEPT ![p] = m] BY <2>1, <2>2 DEF Keeps, j
  <2> HIDE DEF m
  <2>11. mem'[p] = m /\ \A c \in Actors : c # p => mem'[c] = mem[c]
    BY <2>10 DEF TypeOK, ThreadsOK
  <2>12. Reaped(a, p, b)
    BY <1>1, <1>2, <2>1, <2>2, <2>3, <2>4, <2>5, <2>6, <2>7, <2>8, <2>9, <2>11 DEF Reaped, Now
  <2> QED BY <2>2, <2>3, <2>12
<1> QED BY <1>4, <1>5

LEMMA ReapedTidiness ==
  ASSUME TypeOK, Tidiness, NEW a, NEW p, NEW b, Reaped(a, p, b), bug = "none", Tidy(test)
  PROVE  Tidiness'
<1>1. /\ a \in Actors /\ p \in Actors /\ b \in Actors /\ p = th[a].process /\ a # b
      /\ th[a].state = "running" /\ th[a].calls # <<>> /\ Head(th[a].calls).op = "wait"
      /\ th[b].state = "zombie" /\ th[b].process = b /\ th[b].parent = p
      /\ th'[b] = Nothing /\ th'[a].calls = Tail(th[a].calls)
      /\ th'[a].state = th[a].state /\ th'[a].process = th[a].process
      /\ th'[a].parent = th[a].parent /\ th'[a].signals = th[a].signals
      /\ \A c \in Actors : c # a /\ c # b => th'[c] = th[c]
      /\ mem'[p].status \in {mem[p].status, 1} /\ mem'[p].var["r"] = th[b].code
      /\ mem'[p].buffer = mem[p].buffer /\ mem'[p].atexit = mem[p].atexit
      /\ \A c \in Actors : c # p => mem'[c] = mem[c]
      /\ test' = test /\ main' = main /\ result' = result /\ ipc' = ipc /\ file' = file
      /\ orphaned' = orphaned
  BY DEF Reaped, fixed, ending, Me
<1>2. TextsOK BY TidinessFacts
<1>n. /\ Nothing.state = "none" /\ Nothing.parent = Nobody /\ Nothing.calls = <<>>
      /\ NoFork(Nothing.signals)
  BY DEF Nothing, NoFork
<1>3. th[a].calls \in Seq(CallsOf(Prog)) BY <1>1, CallsTyped
<1>m. main # Nobody => main \in Actors /\ th[main].state = "running" /\ th[main].process = main
  BY MainFacts DEF Lives
<1>4. TextsOK'
  <2>1. ASSUME NEW c \in Actors PROVE TextOK(c)' /\ Simple(c)'
    <3>0. mem'[c].buffer = mem[c].buffer /\ mem'[c].atexit = mem[c].atexit BY <1>1
    <3>1. CASE c = b
      <4>1. Modest(th'[c].calls) BY <1>1, <1>n, <3>1, EmptyText
      <4> QED BY <1>1, <1>2, <1>n, <3>0, <3>1, <4>1, TextFacts, TextNext
    <3>2. CASE c # b /\ c # a BY <1>1, <1>2, <3>0, <3>2, TextFacts, TextNext
    <3>3. CASE c = a
      <4>2. c # main => Modest(th'[c].calls) BY <1>1, <1>2, <1>3, <3>3, TextFacts, ModestTail
      <4>3. th'[c].state = "running" /\ th'[c].process # c => EndsAlone(th'[c].calls)
        <5> SUFFICES ASSUME th[a].process # a PROVE EndsAlone(Tail(th[a].calls))
          BY <1>1, <3>3
        <5>1. EndsAlone(th[a].calls) /\ Head(th[a].calls).op # "pthread_exit"
          BY <1>1, <1>2, TextFacts
        <5> QED BY <1>3, <5>1, EndsAloneTail
      <4> QED BY <1>1, <1>2, <3>0, <3>3, <4>2, <4>3, TextFacts, TextNext
    <3> QED BY <3>1, <3>2, <3>3
  <2>2. main # Nobody => CleansUp(Prog, th'[main].calls)
    <3> SUFFICES ASSUME main # Nobody PROVE CleansUp(Prog, th'[main].calls) OBVIOUS
    <3>1. main \in Actors /\ CleansUp(Prog, th[main].calls) /\ main # b
      BY <1>1, <1>2, <1>m DEF TextsOK, MainCalls
    <3>2. CASE main # a BY <1>1, <3>1, <3>2
    <3>3. CASE main = a BY <1>1, <1>3, <3>1, <3>3, CleansUpTail
    <3> QED BY <3>2, <3>3
  <2> QED BY <1>1, <1>2, <2>1, <2>2, TextsNext DEF TextsOK
<1>5. ASSUME ~orphaned, main # Nobody PROVE OneChild' /\ FileGoes' /\ ObjectGoes'
  <2>1. OneChild /\ FileGoes /\ ObjectGoes BY <1>5, TidinessFacts DEF Home
  <2>2. main \in Actors /\ main # b BY <1>1, <1>5, <1>m
  <2>3. p = main
    <3>1. th[b].process = main \/ th[th[b].process].parent = main BY <1>1, <2>1 DEF OneChild
    <3> QED BY <1>1, <2>2, <3>1
  <2>4. Children(main) = {b}
    <3>1. b \in Children(main) BY <1>1, <2>2, <2>3 DEF Children
    <3> QED BY <2>1, <3>1 DEF OneChild
  <2>5. ChildrenOn(main) = {}
    <3> SUFFICES ASSUME NEW c \in ChildrenOn(main) PROVE FALSE OBVIOUS
    <3>1. c \in Actors /\ th'[c].process = c /\ th'[c].parent = main /\ c # main
      BY DEF ChildrenOn
    <3>2. c # b BY <1>1, <1>5, <1>n, <3>1
    <3>3. th[c].process = c /\ th[c].parent = main BY <1>1, <3>1, <3>2
    <3>4. c \in Children(main) BY <3>1, <3>3 DEF Children
    <3> QED BY <2>4, <3>2, <3>4
  <2>6. OneChild'
    <3>1. ASSUME NEW c \in Actors, th'[c].state # "none"
          PROVE  th'[c].process = main \/ th'[th'[c].process].parent = main
      <4>1. c # b /\ th[c].state # "none" /\ th'[c].process = th[c].process
        BY <1>1, <1>n, <3>1
      <4>2. th[c].process = main \/ th[th[c].process].parent = main
        BY <2>1, <4>1 DEF OneChild
      <4>3. PICK q \in Actors : q = th[c].process BY <4>1, FamilyFacts
      <4>4. q # b
        <5>1. th[c].state = "zombie" => q = c BY <4>3, FamilyFacts
        <5>2. th[c].state \in {"running", "done"} => th[q].state = "running"
          BY <4>3, FamilyFacts DEF Lives
        <5>3. th[c].state \in {"none", "running", "zombie", "done"} BY FamilyFacts
        <5> QED BY <1>1, <4>1, <5>1, <5>2, <5>3
      <4>5. th'[q].parent = th[q].parent BY <1>1, <4>3, <4>4
      <4> QED BY <4>1, <4>2, <4>3, <4>5
    <3> QED BY <1>1, <2>5, <3>1, OneChildNext
  <2>7. CASE ~Makers BY <1>1, <1>4, <2>2, <2>6, <2>7, NoMakers
  <2>8. CASE Makers
    <3>1. a = main BY <1>1, <1>2, <2>3, <2>8, TextFacts
    <3>2. /\ MainCalls # <<>> /\ MainCalls \in Seq(CallsOf(Prog))
          /\ Head(MainCalls).op = "wait" /\ th'[main].calls = Tail(MainCalls)
      BY <1>1, <1>3, <3>1 DEF MainCalls
    <3>3. FileGoes'
      <4>1. ~mem'[main].buffer BY <1>1, <2>1, <2>3 DEF FileGoes
      <4>2. WritesFile(Prog) /\ file # "none" => Unlinked(Tail(MainCalls), 0)
        BY <2>1, <3>2, UnlinkedTail DEF FileGoes
      <4> QED BY <1>1, <2>5, <3>2, <4>1, <4>2, FileGoesNext
    <3>4. ObjectGoes'
      <4> SUFFICES ASSUME ipc.id # 0
                   PROVE  \/ Removed(Prog, Tail(MainCalls), 0)
                          \/ /\ Tail(MainCalls) # <<>> /\ ChecksExit(Head(Tail(MainCalls)))
                             /\ mem'[main].var["r"] = 1
                          \/ mem'[main].status = 1
        BY <1>1, <3>2, ObjectGoesNext
      <4>1. CASE Removed(Prog, MainCalls, 0) BY <3>2, <4>1, RemovedTail
      <4>2. CASE ExitChecked(MainCalls, 0) /\ \E c \in Children(main) : Accounts(c)
        <5>1. Accounts(b) BY <2>4, <4>2
        <5>2. th[b].code = 1 BY <1>1, <5>1 DEF Accounts
        <5>3. Tail(MainCalls) # <<>> /\ ChecksExit(Head(Tail(MainCalls)))
          BY <3>2, <4>2, ExitCheckedTail
        <5> QED BY <1>1, <2>3, <5>2, <5>3
      <4>3. CASE ChecksExit(Head(MainCalls)) BY <3>2, <4>3 DEF ChecksExit
      <4>4. CASE mem[main].status = 1 BY <1>1, <2>3, <4>4
      <4> QED BY <2>1, <4>1, <4>2, <4>3, <4>4 DEF ObjectGoes
    <3> QED BY <2>6, <3>3, <3>4
  <2> QED BY <2>6, <2>7, <2>8
<1>6. ASSUME ~orphaned, result = "pass" PROVE FALSE
  <2>1. Clean BY <1>6, TidinessFacts DEF LeavesNothing
  <2> QED BY <1>1, <2>1 DEF Clean
<1> QED BY <1>1, <1>4, <1>5, <1>6, TidinessNext

LEMMA WaitsTidiness ==
  ASSUME TypeOK, Tidiness, NEW a \in Actors, Waits(a), bug = "none", Tidy(test)
  PROVE  Tidiness'
BY WaitsShape, ReapedTidiness, MovesTidiness

-----------------------------------------------------------------------------
(* Tidiness at the start of a round, and the theorem. *)

\* Thread n is the first of a round, and whatever else runs is not main's.
LEMMA RoundTidiness ==
  ASSUME TypeOK', Tidy(test), test' = test, NEW n \in Actors, main' = n, n # Nobody,
         result' = "none", th'[n].state = "running", th'[n].process = n,
         th'[n].calls = Prog["main"], th'[n].signals = <<>>, mem'[n] = Fresh,
         \A c \in Actors \ {n} : TextOK(c)' /\ Simple(c)',
         file' # "none" => WritesFile(Prog), ipc'.id # 0 => UsesObject(Prog),
         ~orphaned' => file' = "none" \/ test \in Again,
         ~orphaned' => \A c \in Actors \ {n} : th'[c] = Nothing
  PROVE  Tidiness'
<1>n. Nothing.state = "none" /\ Nothing.parent = Nobody BY DEF Nothing
<1>1. /\ CleansUp(Prog, Prog["main"]) /\ (UsesObject(Prog) => Removed(Prog, Prog["main"], 0))
      /\ test \in Again => ~WritesFile(Prog)
  BY TidyRoutine
<1>2. ~Fresh.buffer /\ Fresh.atexit = "none" BY DEF Fresh
<1>3. TextsOK'
  <2>1. NoFork(th'[n].signals) BY DEF NoFork
  <2>2. TextOK(n)' /\ Simple(n)' BY <1>2, <2>1, TextNext
  <2>3. \A c \in Actors : TextOK(c)' /\ Simple(c)' BY <2>2
  <2> QED BY <1>1, <2>3, TextsNext
<1>4. ASSUME ~orphaned' PROVE OneChild' /\ FileGoes' /\ ObjectGoes'
  <2>1. ChildrenOn(n) = {}
    <3> SUFFICES ASSUME NEW c \in ChildrenOn(n) PROVE FALSE OBVIOUS
    <3>1. c \in Actors /\ c # n /\ th'[c].parent = n BY DEF ChildrenOn
    <3> QED BY <1>4, <1>n, <3>1
  <2>2. OneChild' BY <1>4, <1>n, <2>1, OneChildNext
  <2>3. FileGoes' BY <1>1, <1>2, <1>4, <2>1, FileGoesNext
  <2>4. ObjectGoes' BY <1>1, ObjectGoesNext
  <2> QED BY <2>2, <2>3, <2>4
<1> QED BY <1>3, <1>4, TidinessNext

LEMMA StartsStaticTidiness ==
  ASSUME TypeOK, Tidiness, StartsStatic, bug = "none", Tidy(test) PROVE Tidiness'
<1>1. /\ Free # {} /\ result' = "none" /\ main' = Newcomer /\ result # "none"
      /\ th' = [th EXCEPT ![Newcomer] = First(Newcomer)] /\ test \in Again
      /\ orphaned' = (\E a \in Actors : th[a].state # "none")
      /\ UNCHANGED <<test, bug, mem, objects>>
  BY DEF StartsStatic
<1>2. PICK n \in Actors : n = Newcomer /\ th[n] = Nothing BY <1>1, NewcomerFree, FamilyFacts
<1>n. Nothing.state = "none" BY DEF Nothing
<1>3. th'[n] = First(n) /\ \A c \in Actors \ {n} : th'[c] = th[c]
  BY <1>1, <1>2 DEF TypeOK, ThreadsOK
<1>4. /\ First(n).state = "running" /\ First(n).process = n /\ First(n).calls = Prog["main"]
      /\ First(n).signals = <<>>
  BY DEF First, Nothing, Prog
<1>5. mem' = mem /\ mem[n] = Fresh
  <2>1. ~Lives(n) BY <1>2, <1>n DEF Lives
  <2> QED BY <1>1, <2>1, FamilyFacts
<1>6. TextsOK BY TidinessFacts
<1>7. main = Nobody BY <1>1, MainFacts
<1>8. test' = test /\ file' = file /\ ipc' = ipc BY <1>1 DEF objects
<1>9. ASSUME NEW c \in Actors \ {n} PROVE TextOK(c)' /\ Simple(c)'
  <2>1. c # main BY <1>7, ActorsAssumption
  <2> QED BY <1>3, <1>5, <1>6, <1>8, <2>1, TextFacts, TextNext
<1>10. ~orphaned' => \A c \in Actors \ {n} : th'[c] = Nothing BY <1>1, <1>3, FamilyFacts
<1>11. TypeOK' BY StartsStaticType
<1>12. n # Nobody /\ main' = n BY <1>1, <1>2, ActorsAssumption
<1>13. (file' # "none" => WritesFile(Prog)) /\ (ipc'.id # 0 => UsesObject(Prog))
  BY <1>6, <1>8 DEF TextsOK
<1> QED BY <1>1, <1>3, <1>4, <1>5, <1>8, <1>9, <1>10, <1>11, <1>12, <1>13, RoundTidiness

LEMMA InitTidiness == ASSUME Init PROVE Tidiness
<1> SUFFICES ASSUME Tidy(test) PROVE TextsOK /\ OneChild /\ FileGoes /\ ObjectGoes
  BY DEF Tidiness, Init
<1>0. 1 \in Actors /\ Nobody \notin Actors /\ main = 1 /\ file = "none" /\ ipc.id = 0
  BY ActorsAssumption DEF Init
<1>1. /\ th[1] = First(1) /\ \A c \in Actors \ {1} : th[c] = Nothing
      /\ \A c \in Actors : mem[c] = Fresh
  BY <1>0 DEF Init
<1>2. /\ First(1).state = "running" /\ First(1).process = 1 /\ First(1).calls = Prog["main"]
      /\ First(1).signals = <<>>
  BY DEF First, Nothing, Prog
<1>3. /\ Nothing.state = "none" /\ Nothing.parent = Nobody /\ Nothing.calls = <<>>
      /\ Nothing.signals = <<>> /\ ~Fresh.buffer /\ Fresh.atexit = "none"
  BY DEF Nothing, Fresh
<1>4. CleansUp(Prog, MainCalls) BY <1>0, <1>1, <1>2, TidyRoutine DEF MainCalls
<1>5. ASSUME NEW c \in Actors PROVE TextOK(c) /\ Simple(c)
  <2>1. CASE c = 1 BY <1>0, <1>1, <1>2, <1>3, <2>1 DEF TextOK, Simple
  <2>2. CASE c # 1
    <3>1. th[c] = Nothing /\ Modest(th[c].calls) BY <1>1, <1>3, <2>2, EmptyText
    <3> QED BY <1>1, <1>3, <3>1 DEF TextOK, Simple
  <2> QED BY <2>1, <2>2
<1>6. TextsOK BY <1>0, <1>4, <1>5 DEF TextsOK
<1>7. Children(main) = {}
  <2> SUFFICES ASSUME NEW c \in Children(main) PROVE FALSE OBVIOUS
  <2>1. c \in Actors /\ c # 1 /\ th[c].parent = 1 BY <1>0 DEF Children
  <2> QED BY <1>0, <1>1, <1>3, <2>1
<1>8. OneChild BY <1>0, <1>1, <1>2, <1>3, <1>7 DEF OneChild
<1>9. FileGoes BY <1>0, <1>1, <1>3, <1>7 DEF FileGoes
<1>10. ObjectGoes BY <1>0 DEF ObjectGoes
<1> QED BY <1>6, <1>8, <1>9, <1>10

LEMMA StepTidiness ==
  ASSUME TypeOK, Tidiness, NEW a \in Actors, Step(a), bug = "none", Tidy(test)
  PROVE  Tidiness'
<1>1. TextsOK BY TidinessFacts
<1>2. CASE MainReturns(a) \/ ThreadEnds(a) \/ ExitsNow(a) \/ Forks(a) \/ Waits(a)
           \/ ThreadCreated(a) \/ ThreadJoined(a)
  BY <1>2, MainReturnsTidiness, ThreadEndsTidiness, ExitsNowTidiness, ForksTidiness,
     WaitsTidiness, ThreadCreatedTidiness, ThreadJoinedTidiness
<1>3. CASE Kills(a)
  <2>1. Now(a).op # "pthread_kill" BY <1>3, AtFacts, TidyNow DEF Kills
  <2> QED BY <1>3, <2>1, KillsMoves, MovesTidiness
<1>4. ~HandlesFork(a)
  <2> SUFFICES ASSUME HandlesFork(a) PROVE FALSE OBVIOUS
  <2>1. th[a].signals # <<>> /\ Head(th[a].signals) = "fork"
    BY DEF HandlesFork, SignalArrives, Signal
  <2>2. NoFork(th[a].signals) /\ th[a].signals \in Seq({"count", "got", "fork"})
    BY <1>1, TextFacts, ThreadTyped
  <2> QED BY <2>1, <2>2, NoForkFacts
<1>5. CASE GoesOn(a) \/ Raises(a) \/ HandlesSignal(a) \/ AwaitsSignals(a) \/ GetsObject(a)
           \/ RemovesObject(a) \/ LooksAtObject(a) \/ Puts(a) \/ Takes(a)
           \/ ChecksVariable(a) \/ SetsVariable(a) \/ SetsSpecific(a) \/ SetsLock(a)
           \/ WritesPipe(a) \/ ReadsPipe(a) \/ UsesFile(a) \/ DaemonFails(a)
  <2>1. Moves(a)
    BY <1>5, GoesOnMoves, RaisesMoves, HandlesSignalMoves, AwaitsSignalsMoves,
       GetsObjectMoves, RemovesObjectMoves, LooksAtObjectMoves, PutsMoves, TakesMoves,
       ChecksVariableMoves, SetsVariableMoves, SetsSpecificMoves, SetsLockMoves,
       WritesPipeMoves, ReadsPipeMoves, UsesFileMoves, DaemonFailsMoves
  <2> QED BY <2>1, MovesTidiness
<1> QED BY <1>2, <1>3, <1>4, <1>5 DEF Step

LEMMA NextTidiness == ASSUME TypeOK, Tidiness, [Next]_vars PROVE Tidiness'
<1>1. UNCHANGED <<test, bug>>
  <2>1. ASSUME NEW a \in Actors, Step(a) PROVE UNCHANGED <<test, bug>>
    BY <2>1 DEF Step, fixed, rest, MainReturns, ThreadEnds, ExitsNow, GoesOn, Forks, Waits,
       ThreadCreated, ThreadJoined, Raises, Kills, HandlesSignal, HandlesFork, AwaitsSignals,
       GetsObject, RemovesObject, LooksAtObject, Puts, Takes, ChecksVariable, SetsVariable,
       SetsSpecific, SetsLock, WritesPipe, ReadsPipe, UsesFile, DaemonFails
  <2> QED BY <2>1 DEF Next, TimeIsOver, StartsStatic, Rests, vars, fixed
<1>2. CASE ~(bug = "none" /\ Tidy(test)) BY <1>1, <1>2 DEF Tidiness
<1>3. CASE bug = "none" /\ Tidy(test)
  <2>1. CASE UNCHANGED vars
    BY <2>1 DEF vars, Tidiness, TextsOK, TextOK, Simple, OneChild, FileGoes, ObjectGoes, Clean,
       Prog, MainCalls, Children, Accounts
  <2>2. CASE \E a \in Actors : Step(a) BY <1>3, <2>2, StepTidiness
  <2> QED BY <1>3, <2>1, <2>2, TimeIsOverTidiness, StartsStaticTidiness DEF Next, Rests
<1> QED BY <1>2, <1>3

\* A tidy test that passes with a correct library has left no process, no
\* System V object, no lock and no file, whatever was left by a run before it
\* that was killed (README:29; the programs in src/functional and
\* src/regression).
THEOREM NothingLeftHolds == Spec => [](Tidy(test) => NothingLeft)
<1> DEFINE IInv == TypeOK /\ Tidiness
<1>1. Init => IInv BY InitType, InitTidiness
<1>2. IInv /\ [Next]_vars => IInv' BY NextType, NextTidiness
<1>3. IInv => (Tidy(test) => NothingLeft)
  <2> SUFFICES ASSUME TypeOK, Tidiness, Tidy(test), bug = "none", result = "pass", ~orphaned
               PROVE  /\ \A a \in Actors : th[a].state = "none"
                      /\ ipc.id = 0 /\ lock = Nobody /\ file = "none"
    BY DEF NothingLeft
  <2>1. Clean BY DEF Tidiness
  <2>2. lock = Nobody BY <2>1, MainFacts DEF Clean, Lives
  <2> QED BY <2>1, <2>2 DEF Clean
<1> QED BY <1>1, <1>2, <1>3, PTL DEF Spec
=============================================================================
