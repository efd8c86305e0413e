------------------------- MODULE PosixThreadsProofs -------------------------
(***************************************************************************)
(* Proofs about PosixThreads, for whatever programs the tests may be.      *)
(***************************************************************************)
EXTENDS LockDiscipline, TLAPS, SequenceTheorems, FiniteSetTheorems

LEMMA VariablesNamed == {"once", "i", "nowhere"} \subseteq Variables
BY DEF Variables
LEMMA MainIsThread == "main" \in Threads
BY DEF Threads
LEMMA OneElement == ASSUME NEW S, NEW x \in S PROVE <<x>> \in Seq(S)
OBVIOUS
LEMMA UpdatedFunction ==
  ASSUME NEW S, NEW f \in [S -> Int], NEW x, NEW v \in Int
  PROVE  [f EXCEPT ![x] = v] \in [S -> Int]
OBVIOUS
LEMMA NoOneElse == NoOne \notin Threads
BY DEF NoOne, Threads

-----------------------------------------------------------------------------
(* Types of threads. *)

\* What the calls of a thread are, and what the call it makes is.
LEMMA NowNames ==
  ASSUME TypeOK, NEW t \in Threads, InCall(t)
  PROVE  /\ Now(t) \in CallsOf(Programs[test]) /\ Names(Programs[test], Now(t))
         /\ Now(t).want \in Int /\ Now(t).than \in Int /\ Now(t).jump \in Nat
         /\ Tail(th[t].calls) \in Seq(CallsOf(Programs[test]))
<1>1. th[t].calls \in Seq(CallsOf(Programs[test])) /\ th[t].calls # <<>>
  BY DEF TypeOK, ThreadsOK, Thread, InCall
<1>2. Now(t) \in CallsOf(Programs[test]) /\ Tail(th[t].calls) \in Seq(CallsOf(Programs[test]))
  BY <1>1, HeadTailProperties DEF Now
<1>3. test \in Tests BY DEF TypeOK
<1>4. Names(Programs[test], Now(t)) BY <1>2, <1>3, ProgramsAssumption
<1> QED BY <1>2, <1>4 DEF Names

\* A thread that goes on, with calls of the test before those left, is a thread.
LEMMA AfterThread ==
  ASSUME TypeOK, NEW t \in Threads, InCall(t),
         NEW calls \in Seq(CallsOf(Programs[test]))
  PROVE  After(t, calls) \in Thread
<1>1. Tail(th[t].calls) \in Seq(CallsOf(Programs[test])) BY NowNames
<1>2. calls \o Tail(th[t].calls) \in Seq(CallsOf(Programs[test])) BY <1>1
<1>3. th[t] \in Thread BY DEF TypeOK, ThreadsOK
<1> QED BY <1>2, <1>3 DEF After, Thread

LEMMA OnwardThread ==
  ASSUME TypeOK, NEW t \in Threads, InCall(t)
  PROVE  /\ Onward(t) \in Thread
         /\ Onward(t) = [th[t] EXCEPT !.state = "running", !.calls = Tail(th[t].calls)]
<1>1. Tail(th[t].calls) \in Seq(CallsOf(Programs[test])) BY NowNames
<1>2. <<>> \o Tail(th[t].calls) = Tail(th[t].calls) BY <1>1
<1>3. <<>> \in Seq(CallsOf(Programs[test])) OBVIOUS
<1> QED BY <1>2, <1>3, AfterThread DEF Onward, After

LEMMA RoutineCalls ==
  ASSUME TypeOK, NEW r \in DOMAIN Programs[test]
  PROVE  /\ Programs[test][r] \in Seq(CallsOf(Programs[test]))
         /\ Programs[test][r] \in Seq(CallsIn(Programs[test][r]))
<1>1. test \in Tests BY DEF TypeOK
<1>2. Programs[test][r] \in Seq(CallsIn(Programs[test][r])) BY <1>1, ProgramsAssumption
<1>3. CallsIn(Programs[test][r]) \subseteq CallsOf(Programs[test]) BY DEF CallsOf
<1> QED BY <1>2, <1>3, SeqMonotonic

LEMMA PopOf == ASSUME NEW p PROVE Pop(TRUE) \in CallsOf(p) /\ Set("once", 2) \in CallsOf(p)
<1> DEFINE a == Pop(TRUE)
<1> DEFINE b == Set("once", 2)
<1>1. CallsOf(p) = (UNION {CallsIn(p[r]) : r \in DOMAIN p}) \cup {a, b} BY DEF CallsOf
<1> HIDE DEF a, b
<1>2. a \in CallsOf(p) /\ b \in CallsOf(p) BY <1>1
<1> QED BY <1>2 DEF a, b

LEMMA UnwoundThread ==
  ASSUME TypeOK, NEW t \in Threads, NEW v \in Int
  PROVE  Unwound(t, v) \in Thread
<1>1. th[t] \in Thread /\ th[t].handlers \in Seq(DOMAIN Programs[test]) BY DEF TypeOK, ThreadsOK, Thread
<1>2. [i \in DOMAIN th[t].handlers |-> Pop(TRUE)] \in Seq(CallsOf(Programs[test]))
  <2>1. DOMAIN th[t].handlers = 1..Len(th[t].handlers) /\ Len(th[t].handlers) \in Nat BY <1>1
  <2> DEFINE e == Pop(TRUE)
  <2>2. e \in CallsOf(Programs[test]) BY PopOf
  <2> HIDE DEF e
  <2>3. [i \in 1..Len(th[t].handlers) |-> e] \in Seq(CallsOf(Programs[test])) BY <2>1, <2>2
  <2> QED BY <2>1, <2>3 DEF e
<1>3. <<>> \in Seq(CallsOf(Programs[test])) OBVIOUS
<1> QED BY <1>1, <1>2, <1>3 DEF Unwound, Thread

\* A thread that starts.
LEMMA StartedThread ==
  ASSUME TypeOK, NEW t \in Threads, t \in DOMAIN Programs[test]
  PROVE  Started(t) \in Thread
<1>1. Programs[test][t] \in Seq(CallsOf(Programs[test])) BY RoutineCalls
<1>2. [k \in Keys |-> "nowhere"] \in [Keys -> Variables] BY VariablesNamed
<1>3. TlsImage \in [DOMAIN TlsImage -> Int] BY DEF TlsImage
<1>4. <<>> \in Seq(DOMAIN Programs[test]) OBVIOUS
<1>5. <<>> \in Seq(CallsOf(Programs[test])) OBVIOUS
<1>6. Newborn \in Thread BY <1>2, <1>3, <1>4, <1>5 DEF Newborn, Thread
<1> QED BY <1>1, <1>6 DEF Started, Thread

-----------------------------------------------------------------------------
(* The steps that several actions share. *)

\* One thread is replaced by another value.
LEMMA ThreadReplaced ==
  ASSUME TypeOK, test' = test, NEW t \in Threads, NEW x \in Thread,
         x.state \in {"waiting", "barrier"} \cup LeavingWait => x.calls # <<>>,
         th' = [th EXCEPT ![t] = x]
  PROVE  ThreadsOK'
<1>1. Thread' = Thread BY DEF Thread
<1>2. th' \in [Threads -> Thread] BY DEF TypeOK, ThreadsOK
<1>3. \A u \in Threads : th'[u] = IF u = t THEN x ELSE th[u] BY DEF TypeOK, ThreadsOK
<1> QED BY <1>1, <1>2, <1>3 DEF TypeOK, ThreadsOK

LEMMA GoesType ==
  ASSUME TypeOK, test' = test, NEW t \in Threads, InCall(t), Goes(t)
  PROVE  ThreadsOK'
<1>1. Onward(t) \in Thread /\ Onward(t).state = "running"
  BY OnwardThread DEF TypeOK, ThreadsOK, Thread
<1> QED BY <1>1, ThreadReplaced DEF Goes, LeavingWait

LEMMA ThreadsStay ==
  ASSUME TypeOK, test' = test, th' = th
  PROVE  ThreadsOK'
<1>1. Thread' = Thread BY DEF Thread
<1> QED BY <1>1 DEF TypeOK, ThreadsOK

\* A call returns with result r.
LEMMA ReturnsType ==
  ASSUME TypeOK, test' = test, NEW t \in Threads, InCall(t), NEW r \in Int, Returns(t, r)
  PROVE  ThreadsOK' /\ DataOK'
<1>1. ThreadsOK' BY GoesType DEF Returns
<1>2. status' \in {0, 1} BY DEF Returns, Judge, TypeOK, DataOK
<1>3. Now(t).into \in Variables BY NowNames DEF Names
<1>4. mem' \in [Variables -> Int] BY <1>3 DEF Returns, TypeOK, DataOK
<1> QED BY <1>1, <1>2, <1>4 DEF DataOK

LEMMA MutexSteps ==
  ASSUME TypeOK, NEW t \in Threads
  PROVE  /\ mutex' = Released => MutexOK'
         /\ MayLock(t) /\ mutex' = Locked(t) => MutexOK'
         /\ UNCHANGED mutex => MutexOK'
         /\ LockResult(t) \in Int
<1> DEFINE Mutexes == [type : MutexTypes, owner : Threads \cup {NoOne}, count : Nat,
                       mark : {"sound", "dead", "lost"}]
<1>a. mutex \in Mutexes /\ (mutex.owner = NoOne <=> mutex.count = 0) BY DEF TypeOK, MutexOK
<1>b. MutexOK' <=> mutex' \in Mutexes /\ (mutex'.owner = NoOne <=> mutex'.count = 0)
  BY DEF MutexOK
<1>1. ASSUME mutex' = Released PROVE MutexOK'
  <2>1. mutex' \in Mutexes BY <1>1, <1>a DEF Released
  <2>2. mutex'.owner = NoOne /\ mutex'.count = 0 BY <1>1, <1>a DEF Released
  <2> QED BY <2>1, <2>2, <1>b
<1>2. ASSUME mutex' = Locked(t) PROVE MutexOK'
  <2>1. mutex' = mutex \/ mutex' = [mutex EXCEPT !.owner = t, !.count = @ + 1]
    BY <1>2 DEF Locked
  <2>2. t # NoOne /\ mutex.count + 1 # 0 BY <1>a, NoOneElse
  <2>a. mutex.count + 1 \in Nat BY <1>a
  <2>b. [mutex EXCEPT !.owner = t, !.count = mutex.count + 1] \in Mutexes BY <2>a, <1>a
  <2>3. mutex' \in Mutexes BY <2>1, <2>b, <1>a
  <2>4. mutex'.owner = NoOne <=> mutex'.count = 0 BY <2>1, <2>2, <1>a
  <2> QED BY <2>3, <2>4, <1>b
<1>3. LockResult(t) \in Int BY DEF LockResult, ENOTRECOVERABLE, EOWNERDEAD, EDEADLK
<1> QED BY <1>1, <1>2, <1>3 DEF TypeOK, MutexOK

LEMMA UnchangedParts ==
  ASSUME TypeOK
  PROVE  /\ UNCHANGED <<sem, rw, opened>> => ObjectsOK'
         /\ UNCHANGED <<mem, status>> => DataOK'
         /\ UNCHANGED <<exited, late, woken, misused>> => FlagsOK'
BY DEF TypeOK, ObjectsOK, DataOK, FlagsOK

\* A step that changes nothing but one thread.
LEMMA OnlyThread ==
  ASSUME TypeOK, NEW t \in Threads, NEW x \in Thread,
         x.state \in {"waiting", "barrier"} \cup LeavingWait => x.calls # <<>>,
         th' = [th EXCEPT ![t] = x],
         UNCHANGED <<objects, mem, status, flags>>
  PROVE  TypeOK'
<1>1. ThreadsOK' BY ThreadReplaced DEF objects
<1>2. MutexOK' BY MutexSteps DEF objects
<1> QED BY <1>1, <1>2, UnchangedParts DEF TypeOK, objects, flags, history

\* A step in which a thread goes on and nothing but the data changes.
LEMMA OnlyReturns ==
  ASSUME TypeOK, NEW t \in Threads, InCall(t), NEW r \in Int, Returns(t, r),
         UNCHANGED <<rest, mutex, sem>>, misused' \in BOOLEAN
  PROVE  TypeOK'
<1>1. ThreadsOK' /\ DataOK' BY ReturnsType DEF rest
<1>2. MutexOK' BY MutexSteps DEF rest
<1>3. FlagsOK' BY DEF TypeOK, FlagsOK, rest
<1> QED BY <1>1, <1>2, <1>3, UnchangedParts DEF TypeOK, rest

LEMMA RestUnchanged ==
  UNCHANGED <<objects, flags>> => UNCHANGED <<rest, mutex, sem, misused>>
BY DEF objects, flags, rest, history

LEMMA MisusedType == ASSUME TypeOK PROVE misused \in BOOLEAN /\ late \in BOOLEAN
BY DEF TypeOK, FlagsOK

-----------------------------------------------------------------------------
(* Type correctness: the variables of the test. *)

LEMMA SetVariableType ==
  ASSUME TypeOK, NEW t \in Threads, SetVariable(t) PROVE TypeOK'
<1>1. InCall(t) /\ Goes(t) /\ UNCHANGED <<objects, status, flags>> BY DEF SetVariable, At
<1>2. ThreadsOK' BY <1>1, GoesType DEF objects
<1>3. Names(Programs[test], Now(t)) BY <1>1, NowNames
<1>4. mem' \in [Variables -> Int]
  <2>1. mem \in [Variables -> Int] BY DEF TypeOK, DataOK
  <2>2. Now(t).than \in Int BY <1>3 DEF Names
  <2>3. CASE At(t, "set") /\ mem' = [mem EXCEPT ![Now(t).obj] = Now(t).than]
    BY <2>1, <2>2, <2>3
  <2>4. CASE At(t, "add") /\ mem' = [mem EXCEPT ![Now(t).obj] = @ + Now(t).than]
    <3>1. Now(t).obj \in Variables BY <2>4, <1>3 DEF At, Names
    <3> QED BY <2>1, <2>2, <2>4, <3>1
  <2>5. CASE At(t, "copy") /\ mem' = [mem EXCEPT ![Now(t).obj] = mem[Now(t).arg]]
    <3>1. Now(t).arg \in Variables BY <2>5, <1>3 DEF At, Names
    <3> QED BY <2>1, <2>5, <3>1
  <2> QED BY <2>3, <2>4, <2>5 DEF SetVariable
<1>5. DataOK' BY <1>1, <1>4 DEF TypeOK, DataOK
<1>6. MutexOK' BY <1>1, MutexSteps DEF objects
<1> QED BY <1>1, <1>2, <1>5, <1>6, UnchangedParts DEF TypeOK, objects, flags, history

LEMMA CheckVariableType ==
  ASSUME TypeOK, NEW t \in Threads, CheckVariable(t) PROVE TypeOK'
<1>1. InCall(t) /\ Now(t).op = "check" BY DEF CheckVariable, At
<1>2. Now(t).obj \in Variables BY <1>1, NowNames DEF Names
<1>3. mem[Now(t).obj] \in Int BY <1>2 DEF TypeOK, DataOK
<1>4. Returns(t, mem[Now(t).obj]) /\ UNCHANGED <<rest, mutex, sem, misused>>
  BY RestUnchanged DEF CheckVariable
<1> QED BY <1>1, <1>3, <1>4, OnlyReturns, MisusedType

LEMMA SkipType ==
  ASSUME TypeOK, NEW t \in Threads, Skip(t) PROVE TypeOK'
<1>1. InCall(t) /\ th[t].state = "running" /\ UNCHANGED <<objects, mem, status, flags>>
  BY DEF Skip, At, Runs
<1> DEFINE calls == IF mem[Now(t).obj] = Now(t).than
                      THEN SubSeq(th[t].calls, Now(t).jump + 2, Len(th[t].calls))
                      ELSE Tail(th[t].calls)
           x == [th[t] EXCEPT !.calls = calls]
<1>2. th[t] \in Thread /\ th[t].calls \in Seq(CallsOf(Programs[test]))
  BY DEF TypeOK, ThreadsOK, Thread
<1>3. Tail(th[t].calls) \in Seq(CallsOf(Programs[test])) /\ Now(t).jump \in Nat BY <1>1, NowNames
<1>4. SubSeq(th[t].calls, Now(t).jump + 2, Len(th[t].calls)) \in Seq(CallsOf(Programs[test]))
  <2>1. Len(th[t].calls) \in Nat /\ Now(t).jump + 2 \in Int BY <1>2, <1>3
  <2>2. \A i \in Now(t).jump + 2 .. Len(th[t].calls) : th[t].calls[i] \in CallsOf(Programs[test])
    BY <1>2, <1>3, <2>1, ElementOfSeq
  <2> QED BY <2>1, <2>2, SubSeqProperties
<1>5. calls \in Seq(CallsOf(Programs[test])) BY <1>3, <1>4
<1>6. x \in Thread /\ x.state = "running" BY <1>1, <1>2, <1>5 DEF Thread
<1>7. th' = [th EXCEPT ![t] = x] BY <1>2 DEF Skip, TypeOK, ThreadsOK
<1> HIDE DEF x
<1> QED BY <1>1, <1>6, <1>7, OnlyThread DEF LeavingWait

-----------------------------------------------------------------------------
(* Mutexes and condition variables. *)

\* A step in which a thread goes on and the mutex changes.
LEMMA MutexReturns ==
  ASSUME TypeOK, NEW t \in Threads, InCall(t), NEW r \in Int, Returns(t, r),
         UNCHANGED <<rest, sem>>, MutexOK', misused' \in BOOLEAN
  PROVE  TypeOK'
<1>1. ThreadsOK' /\ DataOK' BY ReturnsType DEF rest
<1>2. FlagsOK' BY DEF TypeOK, FlagsOK, rest
<1> QED BY <1>1, <1>2, UnchangedParts DEF TypeOK, rest

LEMMA MutexInitialisedType ==
  ASSUME TypeOK, NEW t \in Threads, MutexInitialised(t) PROVE TypeOK'
<1>1. InCall(t) /\ Now(t).op = "mutex_init" BY DEF MutexInitialised, At
<1>2. Now(t).arg \in MutexTypes BY <1>1, NowNames DEF Names
<1>3. MutexOK' BY <1>2 DEF MutexInitialised, NewMutex, MutexOK
<1> QED BY <1>1, <1>3, MutexReturns, MisusedType DEF MutexInitialised

LEMMA MutexDestroyedType ==
  ASSUME TypeOK, NEW t \in Threads, MutexDestroyed(t) PROVE TypeOK'
<1>1. InCall(t) BY DEF MutexDestroyed, At
<1>2. misused' \in BOOLEAN BY MisusedType DEF MutexDestroyed
<1> QED BY <1>1, <1>2, OnlyReturns DEF MutexDestroyed

LEMMA MutexLockedType ==
  ASSUME TypeOK, NEW t \in Threads, MutexLocked(t) PROVE TypeOK'
<1>1. InCall(t) BY DEF MutexLocked, At
<1>2. MutexOK' /\ LockResult(t) \in Int BY MutexSteps DEF MutexLocked
<1> QED BY <1>1, <1>2, MutexReturns, MisusedType DEF MutexLocked

LEMMA MutexUnlockedType ==
  ASSUME TypeOK, NEW t \in Threads, MutexUnlocked(t) PROVE TypeOK'
<1>1. InCall(t) /\ UNCHANGED <<rest, sem>> BY DEF MutexUnlocked, At
<1>2. 0 \in Int /\ EPERM \in Int /\ misused \in BOOLEAN BY MisusedType DEF EPERM
<1>3. CASE mutex.owner = t
  <2>1. Returns(t, 0) /\ UNCHANGED misused BY <1>3 DEF MutexUnlocked
  <2>2. MutexOK'
    <3>1. CASE mutex.count = 1
      BY <1>3, <3>1, MutexSteps DEF MutexUnlocked
    <3>2. CASE mutex.count # 1
      <4>1. mutex' = [mutex EXCEPT !.count = mutex.count - 1] BY <1>3, <3>2 DEF MutexUnlocked
      <4>2. mutex.count \in Nat /\ mutex.count # 0
        BY <1>3, NoOneElse DEF TypeOK, MutexOK
      <4>3. mutex.count - 1 \in Nat /\ mutex.count - 1 # 0 BY <3>2, <4>2
      <4>4. mutex'.count = mutex.count - 1 /\ mutex'.owner = t
        BY <1>3, <4>1 DEF TypeOK, MutexOK
      <4>5. mutex' \in [type : MutexTypes, owner : Threads \cup {NoOne}, count : Nat,
                       mark : {"sound", "dead", "lost"}]
        BY <4>1, <4>3 DEF TypeOK, MutexOK
      <4> QED BY <4>3, <4>4, <4>5, NoOneElse DEF MutexOK
    <3> QED BY <3>1, <3>2
  <2> QED BY <1>1, <1>2, <2>1, <2>2, MutexReturns
<1>4. CASE mutex.owner # t /\ (mutex.type = "normal" \/ bug = "type_ignored")
  <2>1. mutex' = Released /\ Returns(t, 0) /\ misused' = (misused \/ mutex.type = "normal")
    BY <1>4 DEF MutexUnlocked
  <2>2. misused' \in BOOLEAN BY <1>2, <2>1
  <2> QED BY <1>1, <1>2, <2>1, <2>2, MutexSteps, MutexReturns
<1>5. CASE mutex.owner # t /\ ~(mutex.type = "normal" \/ bug = "type_ignored")
  <2>1. Returns(t, EPERM) /\ UNCHANGED <<mutex, misused>> BY <1>5 DEF MutexUnlocked
  <2> QED BY <1>1, <1>2, <2>1, MutexSteps, MutexReturns
<1> QED BY <1>3, <1>4, <1>5

LEMMA MutexConsistentType ==
  ASSUME TypeOK, NEW t \in Threads, MutexConsistent(t) PROVE TypeOK'
<1>1. InCall(t) BY DEF MutexConsistent, At
<1>2. MutexOK' BY DEF MutexConsistent, TypeOK, MutexOK
<1> QED BY <1>1, <1>2, MutexReturns, MisusedType DEF MutexConsistent

LEMMA CondWaitingType ==
  ASSUME TypeOK, NEW t \in Threads, CondWaiting(t) PROVE TypeOK'
<1>1. InCall(t) /\ UNCHANGED <<rest, sem, mem, status>> BY DEF CondWaiting, At
<1>2. ThreadsOK' /\ MutexOK' /\ misused' \in BOOLEAN
  <2>1. CASE LoopIsOver(t)
    <3>1. Goes(t) /\ UNCHANGED <<mutex, misused>> BY <2>1 DEF CondWaiting
    <3> QED BY <1>1, <3>1, GoesType, MutexSteps, MisusedType DEF rest
  <2>2. CASE ~LoopIsOver(t)
    <3> DEFINE x == [th[t] EXCEPT !.state = "waiting"]
    <3>1. th' = [th EXCEPT ![t] = x] /\ mutex' = Released
          /\ misused' = (misused \/ mutex.owner # t)
      BY <2>2 DEF CondWaiting
    <3>2. x \in Thread /\ x.calls # <<>> BY ZenonT(30), <1>1 DEF TypeOK, ThreadsOK, Thread, InCall
    <3>3. test' = test BY <1>1 DEF rest
    <3> HIDE DEF x
    <3>4. ThreadsOK' BY <3>1, <3>2, <3>3, ThreadReplaced
    <3> QED BY <3>1, <3>4, MutexSteps, MisusedType
  <2> QED BY <2>1, <2>2
<1>3. FlagsOK' BY <1>1, <1>2 DEF TypeOK, FlagsOK, rest
<1> QED BY <1>1, <1>2, <1>3, UnchangedParts DEF TypeOK, rest

\* Several threads are replaced.
LEMMA ThreadsReplaced ==
  ASSUME TypeOK, test' = test, th' \in [Threads -> Thread],
         \A u \in Threads :
           th'[u].state \in {"waiting", "barrier"} \cup LeavingWait => th'[u].calls # <<>>
  PROVE  ThreadsOK'
<1>1. Thread' = Thread BY DEF Thread
<1> QED BY <1>1 DEF ThreadsOK

\* A step that changes nothing but threads.
LEMMA OnlyThreads ==
  ASSUME TypeOK, ThreadsOK', UNCHANGED <<objects, mem, status, flags>>
  PROVE  TypeOK'
<1>1. MutexOK' BY MutexSteps, MainIsThread DEF objects
<1> QED BY <1>1, UnchangedParts DEF TypeOK, objects, flags, history

LEMMA WokenType ==
  ASSUME TypeOK, NEW t \in Threads, InCall(t), NEW s \in SUBSET Waiters,
         test' = test, th' = Woken(s, t)
  PROVE  ThreadsOK'
<1>1. Onward(t) \in Thread /\ Onward(t).state = "running"
  BY OnwardThread DEF TypeOK, ThreadsOK, Thread
<1>2. ASSUME NEW u \in s PROVE /\ [th[u] EXCEPT !.state = "woken"] \in Thread
                              /\ [th[u] EXCEPT !.state = "woken"].calls # <<>>
  <2>1. u \in Threads /\ th[u].state = "waiting" BY DEF Waiters
  <2> QED BY ZenonT(30), <2>1 DEF TypeOK, ThreadsOK, Thread, LeavingWait
<1>3. \A u \in Threads : th[u] \in Thread BY DEF TypeOK, ThreadsOK
<1>4. th' \in [Threads -> Thread] BY <1>1, <1>2, <1>3 DEF Woken
<1>5. ASSUME NEW u \in Threads,
             th'[u].state \in {"waiting", "barrier"} \cup LeavingWait
      PROVE  th'[u].calls # <<>>
  <2>1. th'[u] = IF u = t THEN Onward(t)
                ELSE IF u \in s THEN [th[u] EXCEPT !.state = "woken"] ELSE th[u]
    BY DEF Woken
  <2> QED BY <1>1, <1>2, <1>5, <2>1 DEF TypeOK, ThreadsOK, LeavingWait
<1> QED BY <1>4, <1>5, ThreadsReplaced

LEMMA CondSignalledType ==
  ASSUME TypeOK, NEW t \in Threads, CondSignalled(t) PROVE TypeOK'
<1>1. InCall(t) /\ UNCHANGED <<objects, mem, status, flags>> BY DEF CondSignalled, At
<1>2. test' = test BY <1>1 DEF objects
<1>3. CASE Goes(t) BY <1>1, <1>2, <1>3, GoesType, OnlyThreads
<1>4. CASE \E u \in Waiters : th' = Woken({u}, t)
  <2>1. PICK u \in Waiters : th' = Woken({u}, t) BY <1>4
  <2>2. {u} \in SUBSET Waiters OBVIOUS
  <2> QED BY <1>1, <1>2, <2>1, <2>2, WokenType, OnlyThreads
<1> QED BY <1>3, <1>4 DEF CondSignalled

LEMMA CondBroadcastType ==
  ASSUME TypeOK, NEW t \in Threads, CondBroadcast(t) PROVE TypeOK'
<1>1. InCall(t) /\ UNCHANGED <<objects, mem, status, flags>> BY DEF CondBroadcast, At
<1>2. test' = test BY <1>1 DEF objects
<1>3. \E s \in SUBSET Waiters : th' = Woken(s, t)
  <2>1. Waiters \in SUBSET Waiters /\ \A u \in Waiters : {u} \in SUBSET Waiters OBVIOUS
  <2> QED BY <2>1 DEF CondBroadcast
<1> QED BY <1>1, <1>2, <1>3, WokenType, OnlyThreads

LEMMA CondDestroyedType ==
  ASSUME TypeOK, NEW t \in Threads, CondDestroyed(t) PROVE TypeOK'
<1>1. InCall(t) BY DEF CondDestroyed, At
<1>2. misused' \in BOOLEAN BY MisusedType DEF CondDestroyed
<1> QED BY <1>1, <1>2, OnlyReturns DEF CondDestroyed

\* A blocked thread changes its state only.
LEMMA StateType ==
  ASSUME TypeOK, NEW t \in Threads, NEW v \in LeavingWait, th[t].state = "waiting",
         test' = test, th' = [th EXCEPT ![t].state = v]
  PROVE  ThreadsOK'
<1> DEFINE x == [th[t] EXCEPT !.state = v]
<1>1. x \in Thread /\ x.calls # <<>> BY ZenonT(30) DEF TypeOK, ThreadsOK, Thread
<1>2. th' = [th EXCEPT ![t] = x] BY DEF TypeOK, ThreadsOK
<1> HIDE DEF x
<1> QED BY <1>1, <1>2, ThreadReplaced

LEMMA WokenByNothingType ==
  ASSUME TypeOK, NEW t \in Threads, WokenByNothing(t) PROVE TypeOK'
<1>1. ThreadsOK' BY StateType DEF WokenByNothing, objects, LeavingWait
<1>2. MutexOK' BY MutexSteps DEF WokenByNothing, objects
<1>3. FlagsOK' BY DEF WokenByNothing, TypeOK, FlagsOK
<1> QED BY <1>1, <1>2, <1>3, UnchangedParts DEF WokenByNothing, TypeOK, objects

-----------------------------------------------------------------------------
(* Threads and cancellation. *)

LEMMA ThreadCreatedType ==
  ASSUME TypeOK, NEW t \in Threads, ThreadCreated(t) PROVE TypeOK'
<1>1. InCall(t) /\ Now(t).op = "create" /\ UNCHANGED <<objects, mem, status, flags>>
  BY DEF ThreadCreated, At
<1> DEFINE w == Now(t).obj
           y == [Started(w) EXCEPT !.tls = IF bug = "tls_inherited" THEN th[t].tls ELSE @]
<1>2. w \in Threads /\ w \in DOMAIN Programs[test] BY <1>1, NowNames DEF Names
<1>3. Onward(t) \in Thread /\ Onward(t).state = "running"
  BY <1>1, OnwardThread DEF TypeOK, ThreadsOK, Thread
<1>4. Started(w) \in Thread BY <1>2, StartedThread
<1>5. Started(w).state = "running" BY <1>2 DEF Started, Newborn
<1>6. y \in Thread /\ y.state = "running" BY <1>4, <1>5 DEF TypeOK, ThreadsOK, Thread
<1>7. th' = [th EXCEPT ![t] = Onward(t), ![w] = y] BY DEF ThreadCreated
<1> HIDE DEF y, w
<1>8. th' \in [Threads -> Thread] BY <1>2, <1>3, <1>6, <1>7 DEF TypeOK, ThreadsOK
<1>9. \A u \in Threads : th'[u] = IF u = w THEN y ELSE IF u = t THEN Onward(t) ELSE th[u]
  BY <1>2, <1>7 DEF TypeOK, ThreadsOK
<1>10. ThreadsOK'
  BY <1>1, <1>3, <1>6, <1>8, <1>9, ThreadsReplaced DEF objects, TypeOK, ThreadsOK, LeavingWait
<1> QED BY <1>1, <1>10, OnlyThreads

LEMMA ThreadJoinedType ==
  ASSUME TypeOK, NEW t \in Threads, ThreadJoined(t) PROVE TypeOK'
<1> DEFINE w == Now(t).obj
<1>1. InCall(t) /\ Now(t).op = "join" /\ th[t].state = "running" /\ th[w].state = "done"
      /\ th' = [th EXCEPT ![t] = Onward(t), ![w].state = "joined"]
      /\ UNCHANGED <<objects, mem, flags>>
  BY DEF ThreadJoined, At, Runs
<1>2. w \in Threads BY <1>1, NowNames DEF Names
<1> HIDE DEF w
<1>3. t # w BY <1>1
<1> DEFINE y == [th[w] EXCEPT !.state = "joined"]
<1>4. Onward(t) \in Thread /\ Onward(t).state = "running"
  BY <1>1, OnwardThread DEF TypeOK, ThreadsOK, Thread
<1>5. y \in Thread /\ y.state = "joined" BY ZenonT(30), <1>2 DEF TypeOK, ThreadsOK, Thread
<1>6. th' = [th EXCEPT ![t] = Onward(t), ![w] = y] BY <1>1, <1>2, <1>3 DEF TypeOK, ThreadsOK
<1> HIDE DEF y
<1>7. th' \in [Threads -> Thread] BY <1>2, <1>4, <1>5, <1>6 DEF TypeOK, ThreadsOK
<1>8. \A u \in Threads : th'[u] = IF u = w THEN y ELSE IF u = t THEN Onward(t) ELSE th[u]
  BY <1>2, <1>6 DEF TypeOK, ThreadsOK
<1>9. ThreadsOK'
  BY <1>1, <1>4, <1>5, <1>7, <1>8, ThreadsReplaced DEF objects, TypeOK, ThreadsOK, LeavingWait
<1>10. status' \in {0, 1} BY DEF ThreadJoined, Judge, TypeOK, DataOK
<1>11. DataOK' BY <1>1, <1>10 DEF TypeOK, DataOK
<1>12. MutexOK' BY <1>1, MutexSteps DEF objects
<1> QED BY <1>1, <1>9, <1>11, <1>12, UnchangedParts DEF TypeOK, objects, flags, history

LEMMA ThreadDetachedType ==
  ASSUME TypeOK, NEW t \in Threads, ThreadDetached(t) PROVE TypeOK'
<1>1. InCall(t) BY DEF ThreadDetached, At
<1> QED BY <1>1, OnlyReturns, RestUnchanged, MisusedType DEF ThreadDetached

LEMMA ThreadCancelledType ==
  ASSUME TypeOK, NEW t \in Threads, ThreadCancelled(t) PROVE TypeOK'
<1> DEFINE w == Now(t).obj
<1>1. InCall(t) /\ Now(t).op = "cancel" /\ UNCHANGED <<objects, mem, status, flags>>
      /\ th' = [th EXCEPT ![t] = Onward(t), ![w].pending = TRUE]
  BY DEF ThreadCancelled, At
<1>2. w \in Threads BY <1>1, NowNames DEF Names
<1> HIDE DEF w
<1> DEFINE x == IF w = t THEN Onward(t) ELSE th[w]
           y == [x EXCEPT !.pending = TRUE]
<1>3. Onward(t) \in Thread /\ Onward(t).state = "running"
  BY <1>1, OnwardThread DEF TypeOK, ThreadsOK, Thread
<1>4. x \in Thread /\ (x.state \in {"waiting", "barrier"} \cup LeavingWait => x.calls # <<>>)
  BY <1>2, <1>3 DEF TypeOK, ThreadsOK, LeavingWait
<1>5. th' = [th EXCEPT ![t] = Onward(t), ![w] = y] BY <1>1, <1>2 DEF TypeOK, ThreadsOK
<1> HIDE DEF x
<1>6. y \in Thread /\ y.state = x.state /\ y.calls = x.calls BY <1>4 DEF Thread
<1> HIDE DEF y
<1>7. th' \in [Threads -> Thread] BY <1>2, <1>3, <1>5, <1>6 DEF TypeOK, ThreadsOK
<1>8. \A u \in Threads : th'[u] = IF u = w THEN y ELSE IF u = t THEN Onward(t) ELSE th[u]
  BY <1>2, <1>5 DEF TypeOK, ThreadsOK
<1>9. ThreadsOK'
  BY <1>1, <1>3, <1>4, <1>6, <1>7, <1>8, ThreadsReplaced DEF objects, TypeOK, ThreadsOK, LeavingWait
<1> QED BY <1>1, <1>9, OnlyThreads

\* What a thread that goes on changes of itself.
LEMMA OnwardWith ==
  ASSUME TypeOK, NEW t \in Threads, InCall(t)
  PROVE  /\ Onward(t) \in Thread /\ Onward(t).state = "running"
         /\ \A b \in BOOLEAN : /\ [Onward(t) EXCEPT !.enabled = b] \in Thread
                              /\ [Onward(t) EXCEPT !.enabled = b].state = "running"
         /\ [Onward(t) EXCEPT !.async = TRUE] \in Thread
         /\ [Onward(t) EXCEPT !.async = TRUE].state = "running"
         /\ \A hs \in Seq(DOMAIN Programs[test]) :
              /\ [Onward(t) EXCEPT !.handlers = hs] \in Thread
              /\ [Onward(t) EXCEPT !.handlers = hs].state = "running"
<1>1. Onward(t) \in Thread /\ Onward(t).state = "running"
  BY OnwardThread DEF TypeOK, ThreadsOK, Thread
<1> QED BY <1>1 DEF Thread

LEMMA CancelStateSetType ==
  ASSUME TypeOK, NEW t \in Threads, CancelStateSet(t) PROVE TypeOK'
<1>1. InCall(t) /\ UNCHANGED <<objects, mem, status, flags>> BY DEF CancelStateSet, At
<1>2. CASE th' = [th EXCEPT ![t] = [Onward(t) EXCEPT !.enabled = (Now(t).obj = "enable")]]
  <2>1. PICK b \in BOOLEAN : b = (Now(t).obj = "enable") OBVIOUS
  <2> DEFINE x == [Onward(t) EXCEPT !.enabled = b]
  <2>2. x \in Thread /\ x.state = "running" BY <1>1, OnwardWith
  <2>3. th' = [th EXCEPT ![t] = x] BY <1>2, <2>1
  <2> HIDE DEF x
  <2> QED BY <1>1, <2>2, <2>3, OnlyThread DEF LeavingWait
<1>3. CASE th' = [th EXCEPT ![t] = [Onward(t) EXCEPT !.async = TRUE]]
  <2> DEFINE x == [Onward(t) EXCEPT !.async = TRUE]
  <2>1. x \in Thread /\ x.state = "running" BY <1>1, OnwardWith
  <2>2. th' = [th EXCEPT ![t] = x] BY <1>3
  <2> HIDE DEF x
  <2> QED BY <1>1, <2>1, <2>2, OnlyThread DEF LeavingWait
<1> QED BY <1>2, <1>3 DEF CancelStateSet

LEMMA HandlerPushedType ==
  ASSUME TypeOK, NEW t \in Threads, HandlerPushed(t) PROVE TypeOK'
<1>1. InCall(t) /\ Now(t).op = "push" /\ UNCHANGED <<objects, mem, status, flags>>
  BY DEF HandlerPushed, At
<1> DEFINE hs == <<Now(t).obj>> \o th[t].handlers
           x == [Onward(t) EXCEPT !.handlers = hs]
<1>2. Now(t).obj \in DOMAIN Programs[test] BY <1>1, NowNames DEF Names
<1>3. th[t].handlers \in Seq(DOMAIN Programs[test]) BY DEF TypeOK, ThreadsOK, Thread
<1>a. <<Now(t).obj>> \in Seq(DOMAIN Programs[test]) BY <1>2, OneElement
<1>4. hs \in Seq(DOMAIN Programs[test]) BY <1>a, <1>3, ConcatProperties
<1>5. x \in Thread /\ x.state = "running" BY <1>1, <1>4, OnwardWith
<1>6. th' = [th EXCEPT ![t] = x] BY DEF HandlerPushed
<1> HIDE DEF x
<1> QED BY <1>1, <1>5, <1>6, OnlyThread DEF LeavingWait

LEMMA HandlerPoppedType ==
  ASSUME TypeOK, NEW t \in Threads, HandlerPopped(t) PROVE TypeOK'
<1>1. InCall(t) /\ th[t].handlers # <<>> /\ UNCHANGED <<objects, mem, status, flags>>
  BY DEF HandlerPopped, At
<1> DEFINE calls == IF Now(t).obj = "run" THEN Programs[test][Head(th[t].handlers)] ELSE <<>>
           x == [After(t, calls) EXCEPT !.handlers = Tail(th[t].handlers)]
<1>2. th[t].handlers \in Seq(DOMAIN Programs[test]) BY DEF TypeOK, ThreadsOK, Thread
<1>3. Head(th[t].handlers) \in DOMAIN Programs[test]
      /\ Tail(th[t].handlers) \in Seq(DOMAIN Programs[test])
  BY <1>1, <1>2, HeadTailProperties
<1>4. <<>> \in Seq(CallsOf(Programs[test])) OBVIOUS
<1>5. calls \in Seq(CallsOf(Programs[test])) BY <1>3, <1>4, RoutineCalls
<1> HIDE DEF calls
<1>6. After(t, calls) \in Thread BY <1>1, <1>5, AfterThread
<1>7. After(t, calls).state = "running" BY DEF After, TypeOK, ThreadsOK, Thread
<1>8. x \in Thread /\ x.state = "running" BY <1>3, <1>6, <1>7 DEF Thread
<1>9. th' = [th EXCEPT ![t] = x] BY DEF HandlerPopped, calls
<1> HIDE DEF x
<1> QED BY <1>1, <1>8, <1>9, OnlyThread DEF LeavingWait

LEMMA UnwoundStep ==
  ASSUME TypeOK, NEW t \in Threads, NEW v \in Int, test' = test,
         th' = [th EXCEPT ![t] = Unwound(t, v)]
  PROVE  ThreadsOK'
<1>1. Unwound(t, v) \in Thread BY UnwoundThread
<1>2. Unwound(t, v).state = "running" BY DEF Unwound, TypeOK, ThreadsOK, Thread
<1> QED BY <1>1, <1>2, ThreadReplaced DEF LeavingWait

LEMMA ThreadExitsType ==
  ASSUME TypeOK, NEW t \in Threads, ThreadExits(t) \/ CancelActs(t) PROVE TypeOK'
<1>1. 0 \in Int /\ CANCELED \in Int BY DEF CANCELED
<1>2. UNCHANGED <<objects, mem, status, flags>> BY DEF ThreadExits, CancelActs
<1>3. ThreadsOK' BY <1>1, <1>2, UnwoundStep DEF ThreadExits, CancelActs, objects
<1> QED BY <1>2, <1>3, OnlyThreads

LEMMA CancelWaitType ==
  ASSUME TypeOK, NEW t \in Threads, CancelWait(t) PROVE TypeOK'
<1>1. ThreadsOK' BY StateType DEF CancelWait, MayCancelWait, objects, LeavingWait
<1> QED BY <1>1, OnlyThreads DEF CancelWait

LEMMA WaitReturnsType ==
  ASSUME TypeOK, NEW t \in Threads, WaitReturns(t) PROVE TypeOK'
<1>1. th[t].state \in LeavingWait /\ MayLock(t) /\ mutex' = Locked(t)
      /\ UNCHANGED <<rest, sem, mem, misused>>
  BY DEF WaitReturns
<1>2. InCall(t) BY <1>1 DEF TypeOK, ThreadsOK, InCall
<1>3. test' = test BY <1>1 DEF rest
<1>4. CANCELED \in Int /\ status \in {0, 1} BY DEF CANCELED, TypeOK, DataOK
<1>5. ThreadsOK' /\ status' \in {0, 1}
  <2>1. CASE th[t].state = "cancelled"
    <3>1. th' = [th EXCEPT ![t] = Unwound(t, CANCELED)] /\ UNCHANGED status
      BY <2>1 DEF WaitReturns
    <3> QED BY <1>3, <1>4, <3>1, UnwoundStep
  <2>2. CASE th[t].state = "timedout"
    <3>1. Goes(t) /\ Judge(t, ETIMEDOUT) BY <2>2 DEF WaitReturns
    <3> QED BY <1>2, <1>3, <1>4, <3>1, GoesType DEF Judge
  <2>3. CASE th[t].state = "woken" /\ Now(t).into # "nowhere"
    <3> DEFINE x == [th[t] EXCEPT !.state = "running"]
    <3>1. th' = [th EXCEPT ![t] = x] /\ UNCHANGED status
      BY <2>3 DEF WaitReturns, TypeOK, ThreadsOK
    <3>2. x \in Thread /\ x.state = "running" BY ZenonT(30) DEF TypeOK, ThreadsOK, Thread
    <3> HIDE DEF x
    <3> QED BY <1>3, <1>4, <3>1, <3>2, ThreadReplaced DEF LeavingWait
  <2>4. CASE th[t].state = "woken" /\ Now(t).into = "nowhere"
    <3>1. Goes(t) /\ Judge(t, 0) BY <2>4 DEF WaitReturns
    <3> QED BY <1>2, <1>3, <1>4, <3>1, GoesType DEF Judge
  <2> QED BY <1>1, <2>1, <2>2, <2>3, <2>4 DEF LeavingWait
<1>6. MutexOK' BY <1>1, MutexSteps
<1>7. DataOK' BY <1>1, <1>5 DEF TypeOK, DataOK
<1>8. FlagsOK' BY <1>1 DEF TypeOK, FlagsOK, rest
<1> QED BY <1>1, <1>5, <1>6, <1>7, <1>8, UnchangedParts DEF TypeOK, rest

LEMMA ThreadEndsType ==
  ASSUME TypeOK, NEW t \in Threads, ThreadEnds(t) PROVE TypeOK'
<1>1. UNCHANGED <<test, bug, sem, rw, opened, status, history>> /\ exited' = (t = "main")
  BY DEF ThreadEnds
<1>2. ThreadsOK'
  <2> DEFINE x == [th[t] EXCEPT !.state = "done"]
  <2>1. th' = [th EXCEPT ![t] = x] BY DEF ThreadEnds, TypeOK, ThreadsOK
  <2>2. x \in Thread /\ x.state = "done" BY DEF TypeOK, ThreadsOK, Thread
  <2> HIDE DEF x
  <2> QED BY <1>1, <2>1, <2>2, ThreadReplaced DEF LeavingWait
<1>3. mem' \in [Variables -> Int] BY DEF ThreadEnds, TypeOK, DataOK
<1>4. DataOK' BY <1>1, <1>3 DEF TypeOK, DataOK
<1>5. MutexOK'
  <2>1. CASE UNCHANGED mutex BY <2>1, MutexSteps
  <2>2. CASE mutex' = [mutex EXCEPT !.owner = NoOne, !.count = 0, !.mark = "dead"]
    <3>1. mutex'.owner = NoOne /\ mutex'.count = 0 BY <2>2 DEF TypeOK, MutexOK
    <3>2. mutex' \in [type : MutexTypes, owner : Threads \cup {NoOne}, count : Nat,
                     mark : {"sound", "dead", "lost"}]
      BY <2>2 DEF TypeOK, MutexOK
    <3> QED BY <3>1, <3>2 DEF MutexOK
  <2> QED BY <2>1, <2>2 DEF ThreadEnds
<1>6. FlagsOK' BY <1>1 DEF TypeOK, FlagsOK, history
<1> QED BY <1>1, <1>2, <1>4, <1>5, <1>6, UnchangedParts DEF TypeOK

-----------------------------------------------------------------------------
(* Semaphores, the barrier, once, data, the reader-writer lock. *)

\* A step in which a thread goes on and semaphores, the lock, what is opened or
\* the data change.
LEMMA ObjectsReturn ==
  ASSUME TypeOK, NEW t \in Threads, InCall(t), NEW r \in Int, Returns(t, r),
         UNCHANGED <<test, mutex, flags>>, ObjectsOK'
  PROVE  TypeOK'
<1>1. ThreadsOK' /\ DataOK' BY ReturnsType
<1>2. MutexOK' BY MutexSteps
<1> QED BY <1>1, <1>2, UnchangedParts DEF TypeOK, flags, history

LEMMA SemInitialisedType ==
  ASSUME TypeOK, NEW t \in Threads, SemInitialised(t) PROVE TypeOK'
<1>1. InCall(t) /\ Now(t).op = "sem_init" BY DEF SemInitialised, At
<1>2. Now(t).than \in Nat BY <1>1, NowNames DEF Names
<1>3. ObjectsOK' BY <1>2 DEF SemInitialised, TypeOK, ObjectsOK, rest
<1> QED BY <1>1, <1>3, ObjectsReturn DEF SemInitialised, rest, flags, history

LEMMA SemPostedType ==
  ASSUME TypeOK, NEW t \in Threads, SemPosted(t) PROVE TypeOK'
<1>1. InCall(t) /\ Now(t).op = "post" BY DEF SemPosted, At
<1>2. Now(t).obj \in Semaphores BY <1>1, NowNames DEF Names
<1>3. sem[Now(t).obj] + 1 \in Nat BY <1>2 DEF TypeOK, ObjectsOK
<1>4. ObjectsOK' BY <1>3 DEF SemPosted, TypeOK, ObjectsOK, rest
<1> QED BY <1>1, <1>4, ObjectsReturn DEF SemPosted, rest, flags, history

LEMMA SemWaitedType ==
  ASSUME TypeOK, NEW t \in Threads, SemWaited(t) PROVE TypeOK'
<1>1. InCall(t) /\ Now(t).op \in {"wait", "timedwait", "trywait"} BY DEF SemWaited, At
<1>2. Now(t).obj \in Semaphores BY <1>1, NowNames DEF Names
<1>3. sem[Now(t).obj] \in Nat BY <1>2 DEF TypeOK, ObjectsOK
<1>4. ObjectsOK'
  <2>1. UNCHANGED <<rw, opened>> BY DEF SemWaited, rest
  <2>2. sem' = sem \/ (sem[Now(t).obj] > 0 /\ sem' = [sem EXCEPT ![Now(t).obj] = @ - 1])
    BY DEF SemWaited
  <2>3. sem[Now(t).obj] > 0 => sem[Now(t).obj] - 1 \in Nat BY <1>3
  <2>4. sem' \in [Semaphores -> Nat] BY <2>2, <2>3 DEF TypeOK, ObjectsOK
  <2> QED BY <2>1, <2>4 DEF TypeOK, ObjectsOK
<1>5. EAGAIN \in Int /\ (Returns(t, 0) \/ Returns(t, EAGAIN)) BY DEF SemWaited, EAGAIN
<1> QED BY <1>1, <1>4, <1>5, ObjectsReturn DEF SemWaited, rest, flags, history

LEMMA SemValueType ==
  ASSUME TypeOK, NEW t \in Threads, SemValue(t) PROVE TypeOK'
<1>1. InCall(t) /\ Now(t).op = "getvalue" BY DEF SemValue, At
<1>2. Now(t).obj \in Semaphores BY <1>1, NowNames DEF Names
<1>3. sem[Now(t).obj] \in Int BY <1>2 DEF TypeOK, ObjectsOK
<1> QED BY <1>1, <1>3, OnlyReturns, RestUnchanged, MisusedType DEF SemValue

LEMMA BarrierReachedType ==
  ASSUME TypeOK, NEW t \in Threads, BarrierReached(t) PROVE TypeOK'
<1>1. InCall(t) /\ UNCHANGED <<objects, mem, status, flags>> BY DEF BarrierReached, At
<1>2. CASE th' = [th EXCEPT ![t].state = "barrier"]
  <2> DEFINE x == [th[t] EXCEPT !.state = "barrier"]
  <2>1. x \in Thread /\ x.calls # <<>> BY <1>1 DEF TypeOK, ThreadsOK, Thread, InCall
  <2>2. th' = [th EXCEPT ![t] = x] BY <1>2 DEF TypeOK, ThreadsOK
  <2> HIDE DEF x
  <2> QED BY <1>1, <2>1, <2>2, OnlyThread
<1>3. CASE th' = [u \in Threads |-> IF u \in AtBarrier \cup {t} THEN Onward(u) ELSE th[u]]
  <2>1. ASSUME NEW u \in AtBarrier \cup {t}
        PROVE  u \in Threads /\ Onward(u) \in Thread /\ Onward(u).state = "running"
    <3>1. u \in Threads /\ InCall(u) BY <1>1 DEF AtBarrier, TypeOK, ThreadsOK, InCall
    <3> QED BY <3>1, OnwardWith
  <2>2. th' \in [Threads -> Thread] BY <1>3, <2>1 DEF TypeOK, ThreadsOK
  <2>3. \A u \in Threads : th'[u] = IF u \in AtBarrier \cup {t} THEN Onward(u) ELSE th[u]
    BY <1>3
  <2>4. ThreadsOK'
    BY <1>1, <2>1, <2>2, <2>3, ThreadsReplaced DEF objects, TypeOK, ThreadsOK, LeavingWait
  <2> QED BY <1>1, <2>4, OnlyThreads
<1> QED BY <1>2, <1>3 DEF BarrierReached

LEMMA BarrierDestroyedType ==
  ASSUME TypeOK, NEW t \in Threads, BarrierDestroyed(t) PROVE TypeOK'
<1>1. InCall(t) BY DEF BarrierDestroyed, At
<1>2. misused' \in BOOLEAN BY MisusedType DEF BarrierDestroyed
<1> QED BY <1>1, <1>2, OnlyReturns DEF BarrierDestroyed

LEMMA OnceCalledType ==
  ASSUME TypeOK, NEW t \in Threads, OnceCalled(t) PROVE TypeOK'
<1>1. InCall(t) /\ Now(t).op = "once" /\ UNCHANGED <<objects, status, flags>>
  BY DEF OnceCalled, At
<1>2. test' = test BY <1>1 DEF objects
<1>3. ThreadsOK' /\ mem' \in [Variables -> Int]
  <2>1. CASE mem["once"] = 0 \/ bug = "once_again"
    <3> DEFINE calls == Programs[test][Now(t).obj] \o <<Set("once", 2)>>
    <3>1. Now(t).obj \in DOMAIN Programs[test] BY <1>1, NowNames DEF Names
    <3>2. Programs[test][Now(t).obj] \in Seq(CallsOf(Programs[test])) BY <3>1, RoutineCalls
    <3>3. <<Set("once", 2)>> \in Seq(CallsOf(Programs[test]))
      <4> DEFINE c == Set("once", 2)
      <4>1. c \in CallsOf(Programs[test]) BY PopOf
      <4> HIDE DEF c
      <4>2. <<c>> \in Seq(CallsOf(Programs[test])) BY <4>1
      <4> QED BY <4>2 DEF c
    <3>4. calls \in Seq(CallsOf(Programs[test])) BY <3>2, <3>3, ConcatProperties
    <3>5. th' = [th EXCEPT ![t] = After(t, calls)] /\ mem' = [mem EXCEPT !["once"] = 1]
      BY <2>1 DEF OnceCalled
    <3> HIDE DEF calls
    <3>6. After(t, calls) \in Thread BY <1>1, <3>4, AfterThread
    <3>7. After(t, calls).state = "running" BY DEF After, TypeOK, ThreadsOK, Thread
    <3>8. ThreadsOK' BY <1>2, <3>5, <3>6, <3>7, ThreadReplaced DEF LeavingWait
    <3>9. mem' \in [Variables -> Int]
      <4>1. mem' = [mem EXCEPT !["once"] = 1] BY <3>5
      <4>2. mem \in [Variables -> Int] BY DEF TypeOK, DataOK
      <4> QED BY <4>1, <4>2, UpdatedFunction
    <3> QED BY <3>8, <3>9
  <2>2. CASE ~(mem["once"] = 0 \/ bug = "once_again")
    <3>1. Goes(t) /\ UNCHANGED mem BY <2>2 DEF OnceCalled
    <3> QED BY <1>1, <1>2, <3>1, GoesType DEF TypeOK, DataOK
  <2> QED BY <2>1, <2>2
<1>4. DataOK' BY <1>1, <1>3 DEF TypeOK, DataOK
<1>5. MutexOK' BY <1>1, MutexSteps DEF objects
<1> QED BY <1>1, <1>3, <1>4, <1>5, UnchangedParts DEF TypeOK, objects, flags, history

LEMMA SpecificSetType ==
  ASSUME TypeOK, NEW t \in Threads, SpecificSet(t) PROVE TypeOK'
<1>1. InCall(t) /\ Now(t).op = "setspecific" /\ UNCHANGED <<objects, mem, status, flags>>
  BY DEF SpecificSet, At
<1> DEFINE x == [Onward(t) EXCEPT !.specific[Now(t).obj] = Now(t).arg]
<1>2. Now(t).arg \in Variables BY <1>1, NowNames DEF Names
<1>3. Onward(t) \in Thread /\ Onward(t).state = "running" BY <1>1, OnwardWith
<1>4. x \in Thread /\ x.state = "running" BY <1>2, <1>3 DEF Thread
<1>5. th' = [th EXCEPT ![t] = x] BY DEF SpecificSet
<1> HIDE DEF x
<1> QED BY <1>1, <1>4, <1>5, OnlyThread DEF LeavingWait

LEMMA SpecificCheckedType ==
  ASSUME TypeOK, NEW t \in Threads, SpecificChecked(t) PROVE TypeOK'
<1>1. InCall(t) BY DEF SpecificChecked, At
<1>2. PICK r \in Int : Returns(t, r) BY DEF SpecificChecked
<1> QED BY <1>1, <1>2, OnlyReturns, RestUnchanged, MisusedType DEF SpecificChecked

LEMMA RwLockedType ==
  ASSUME TypeOK, NEW t \in Threads, RwLocked(t) \/ RwUnlocked(t) PROVE TypeOK'
<1>1. InCall(t) /\ UNCHANGED <<test, bug, mutex, sem, opened, flags>>
  BY DEF RwLocked, RwUnlocked, At
<1>2. rw' \in {"free", "read", "write"}
  BY DEF RwLocked, RwUnlocked, Asks, TypeOK, ObjectsOK
<1>3. ObjectsOK' BY <1>1, <1>2 DEF TypeOK, ObjectsOK
<1>4. PICK r \in Int : Returns(t, r) BY DEF RwLocked, RwUnlocked, EBUSY
<1> QED BY <1>1, <1>3, <1>4, ObjectsReturn

-----------------------------------------------------------------------------
(* Thread-local storage, the shared object, the named semaphore, time. *)

LEMMA TlsAddedType ==
  ASSUME TypeOK, NEW t \in Threads, TlsAdded(t) PROVE TypeOK'
<1>1. InCall(t) /\ Now(t).op = "tls_add" /\ UNCHANGED <<objects, mem, status, flags>>
  BY DEF TlsAdded, At
<1>2. Onward(t) \in Thread /\ Onward(t).state = "running" BY <1>1, OnwardWith
<1> DEFINE new(u) == IF u = t THEN Onward(t) ELSE th[u]
           added(u) == [new(u) EXCEPT !.tls[Now(t).obj] = @ + Now(t).than]
<1>3. ASSUME NEW u \in Threads
      PROVE  /\ new(u) \in Thread /\ added(u) \in Thread
             /\ added(u).state = new(u).state /\ added(u).calls = new(u).calls
             /\ new(u).state \in {"waiting", "barrier"} \cup LeavingWait => new(u).calls # <<>>
  <2>1. Now(t).obj \in DOMAIN TlsImage /\ Now(t).than \in Int
    BY <1>1, NowNames DEF Names
  <2>2. new(u) \in Thread BY <1>2 DEF TypeOK, ThreadsOK
  <2>3. new(u).state \in {"waiting", "barrier"} \cup LeavingWait => new(u).calls # <<>>
    BY <1>2 DEF TypeOK, ThreadsOK, LeavingWait
  <2> HIDE DEF new
  <2>4. new(u).tls \in [DOMAIN TlsImage -> Int] BY <2>2 DEF Thread
  <2>5. new(u).tls[Now(t).obj] + Now(t).than \in Int BY <2>1, <2>4
  <2>6. added(u) \in Thread BY <2>2, <2>4, <2>5 DEF Thread
  <2>7. added(u).state = new(u).state /\ added(u).calls = new(u).calls BY <2>2 DEF Thread
  <2> QED BY <2>2, <2>3, <2>6, <2>7
<1>4. th' = [u \in Threads |-> IF u = Block(t) THEN added(u) ELSE new(u)] BY DEF TlsAdded
<1> HIDE DEF added, new
<1>5. th' \in [Threads -> Thread] BY <1>3, <1>4
<1>6. \A u \in Threads : th'[u] = added(u) \/ th'[u] = new(u) BY <1>4
<1>7. ThreadsOK' BY <1>1, <1>3, <1>5, <1>6, ThreadsReplaced DEF objects
<1> QED BY <1>1, <1>7, OnlyThreads

LEMMA TlsCheckedType ==
  ASSUME TypeOK, NEW t \in Threads, TlsChecked(t) PROVE TypeOK'
<1>1. InCall(t) /\ Now(t).op = "tls_check" BY DEF TlsChecked, At
<1>2. Now(t).obj \in DOMAIN TlsImage BY <1>1, NowNames DEF Names
<1>3. Block(t) \in Threads BY MainIsThread DEF Block
<1>4. th[Block(t)].tls[Now(t).obj] \in Int BY <1>2, <1>3 DEF TypeOK, ThreadsOK, Thread
<1> QED BY <1>1, <1>4, OnlyReturns, RestUnchanged, MisusedType DEF TlsChecked

LEMMA ModuleOpenedType ==
  ASSUME TypeOK, NEW t \in Threads, ModuleOpened(t) PROVE TypeOK'
<1>1. InCall(t) /\ Now(t).op = "dlopen" /\ Goes(t)
      /\ UNCHANGED <<test, bug, mutex, sem, rw, status, flags>>
  BY DEF ModuleOpened, At
<1>2. Now(t).obj \in {"self", "local", "global"} BY <1>1, NowNames DEF Names
<1>3. ThreadsOK' BY <1>1, GoesType
<1>4. mem' \in [Variables -> Int]
  BY DEF ModuleOpened, SelfHandle, ObjectHandle, TypeOK, DataOK
<1>5. opened' \in [module : {"none", "local", "global"}, older : SUBSET Threads,
                  named : BOOLEAN, handles : Int]
  <2>1. CASE Now(t).obj = "self" BY <2>1 DEF ModuleOpened, TypeOK, ObjectsOK
  <2>2. CASE Now(t).obj # "self"
    <3>1. opened' = [opened EXCEPT
                       !.module = IF opened.module = "global" THEN opened.module
                                  ELSE Now(t).obj,
                       !.older = IF opened.module = "none"
                                   THEN {u \in Threads : th[u].state # "unborn"}
                                 ELSE opened.older]
      BY <2>2 DEF ModuleOpened
    <3>2. Now(t).obj \in {"local", "global"} BY <1>2, <2>2
    <3> QED BY <3>1, <3>2 DEF TypeOK, ObjectsOK
  <2> QED BY <2>1, <2>2
<1>6. ObjectsOK' BY <1>1, <1>5 DEF TypeOK, ObjectsOK
<1>7. DataOK' BY <1>1, <1>4 DEF TypeOK, DataOK
<1>8. MutexOK' BY <1>1, MutexSteps
<1> QED BY <1>1, <1>3, <1>6, <1>7, <1>8, UnchangedParts DEF TypeOK, flags, history

LEMMA SymbolFoundType ==
  ASSUME TypeOK, NEW t \in Threads, SymbolFound(t) PROVE TypeOK'
<1>1. InCall(t) BY DEF SymbolFound, At
<1>2. PICK r \in Int : Returns(t, r) BY DEF SymbolFound
<1> QED BY <1>1, <1>2, OnlyReturns, RestUnchanged, MisusedType DEF SymbolFound

\* The calls that just return 0.
LEMMA QuietCallType ==
  ASSUME TypeOK, NEW t \in Threads, ModuleClosed(t) \/ SemUnlinked(t) \/ ShmOpened(t)
  PROVE  TypeOK'
<1>1. InCall(t) BY DEF ModuleClosed, SemUnlinked, ShmOpened, At
<1>2. Returns(t, 0) /\ UNCHANGED <<objects, flags>>
  BY DEF ModuleClosed, SemUnlinked, ShmOpened
<1> QED BY <1>1, <1>2, OnlyReturns, RestUnchanged, MisusedType

LEMMA ObjectCalledType ==
  ASSUME TypeOK, NEW t \in Threads, ObjectCalled(t) PROVE TypeOK'
<1>1. InCall(t) /\ Goes(t) /\ UNCHANGED <<objects, mem, status, flags>>
  BY DEF ObjectCalled, At
<1>2. ThreadsOK' BY <1>1, GoesType DEF objects
<1> QED BY <1>1, <1>2, OnlyThreads

LEMMA SemOpenedType ==
  ASSUME TypeOK, NEW t \in Threads, SemOpened(t) PROVE TypeOK'
<1>1. InCall(t) /\ Now(t).op = "sem_open" /\ UNCHANGED <<test, bug, mutex, rw, flags>>
  BY DEF SemOpened, At
<1>2. Now(t).than \in Nat BY <1>1, NowNames DEF Names
<1>3. sem' \in [Semaphores -> Nat] BY <1>2 DEF SemOpened, TypeOK, ObjectsOK
<1>4. opened' \in [module : {"none", "local", "global"}, older : SUBSET Threads,
                  named : BOOLEAN, handles : Int]
  <2>1. opened.handles + 1 \in Int BY DEF TypeOK, ObjectsOK
  <2>2. opened' = opened \/ opened' = [opened EXCEPT !.named = TRUE, !.handles = opened.handles + 1]
    BY DEF SemOpened
  <2> QED BY <2>1, <2>2 DEF TypeOK, ObjectsOK
<1>5. ObjectsOK' BY <1>1, <1>3, <1>4 DEF TypeOK, ObjectsOK
<1>6. PICK r \in Int : Returns(t, r) BY DEF SemOpened
<1> QED BY <1>1, <1>5, <1>6, ObjectsReturn

LEMMA SemClosedType ==
  ASSUME TypeOK, NEW t \in Threads, SemClosed(t) PROVE TypeOK'
<1>1. InCall(t) /\ Returns(t, 0) /\ UNCHANGED <<test, bug, mutex, sem, rw, flags>>
  BY DEF SemClosed, At
<1>2. opened.handles - 1 \in Int BY DEF TypeOK, ObjectsOK
<1>3. ObjectsOK' BY <1>1, <1>2 DEF SemClosed, TypeOK, ObjectsOK
<1> QED BY <1>1, <1>3, ObjectsReturn

LEMMA CrashesType ==
  ASSUME TypeOK, NEW t \in Threads, Crashes(t) PROVE TypeOK'
<1>1. ThreadsOK' BY ThreadsStay DEF Crashes, objects
<1>2. MutexOK' BY MutexSteps DEF Crashes, objects
<1>3. DataOK' /\ FlagsOK' BY DEF Crashes, TypeOK, DataOK, FlagsOK, history
<1> QED BY <1>1, <1>2, <1>3, UnchangedParts DEF Crashes, TypeOK, objects

LEMMA TimerRunsOutType ==
  ASSUME TypeOK, NEW t \in Threads, TimerRunsOut(t) PROVE TypeOK'
<1>1. InCall(t) /\ UNCHANGED <<objects, exited, woken, misused>>
  BY DEF TimerRunsOut, Timed
<1>2. test' = test BY <1>1 DEF objects
<1>3. ThreadsOK' /\ DataOK'
  <2>1. CASE Now(t).op = "cond_timedwait"
    <3>1. th[t].state = "waiting" BY <2>1 DEF TimerRunsOut, Timed
    <3>2. th' = [th EXCEPT ![t].state = "timedout"] /\ UNCHANGED <<mem, status>>
      BY <2>1 DEF TimerRunsOut
    <3> QED BY <1>2, <3>1, <3>2, StateType, UnchangedParts DEF LeavingWait
  <2>2. CASE Now(t).op # "cond_timedwait"
    <3>1. Returns(t, 0) \/ Returns(t, ETIMEDOUT) BY <2>2 DEF TimerRunsOut
    <3>2. ETIMEDOUT \in Int BY DEF ETIMEDOUT
    <3> QED BY <1>1, <1>2, <3>1, <3>2, ReturnsType
  <2> QED BY <2>1, <2>2
<1>4. MutexOK' BY <1>1, MutexSteps DEF objects
<1>5. FlagsOK' BY <1>1 DEF TimerRunsOut, TypeOK, FlagsOK
<1> QED BY <1>1, <1>3, <1>4, <1>5, UnchangedParts DEF TypeOK, objects

LEMMA FrameLeftType ==
  ASSUME TypeOK, NEW t \in Threads, FrameLeft(t) PROVE TypeOK'
<1>1. InCall(t) /\ UNCHANGED <<rest, mutex, sem, mem, status>> BY DEF FrameLeft, At
<1>2. test' = test BY <1>1 DEF rest
<1>3. \A u \in Threads :
        th'[u] = IF u = t THEN Onward(t)
                 ELSE IF SleepsOnMutex(u) THEN [th[u] EXCEPT !.state = "stranded"] ELSE th[u]
  BY DEF FrameLeft
<1>4. Onward(t) \in Thread /\ Onward(t).state = "running"
  BY <1>1, OnwardThread DEF TypeOK, ThreadsOK, Thread
<1>5. \A u \in Threads : th[u] \in Thread BY DEF TypeOK, ThreadsOK
<1>6. ASSUME NEW u \in Threads
      PROVE  /\ [th[u] EXCEPT !.state = "stranded"] \in Thread
             /\ [th[u] EXCEPT !.state = "stranded"].state = "stranded"
  BY ZenonT(30), <1>5 DEF Thread
<1>7. th' \in [Threads -> Thread] BY <1>3, <1>4, <1>5, <1>6 DEF FrameLeft
<1>8. ASSUME NEW u \in Threads, th'[u].state \in {"waiting", "barrier"} \cup LeavingWait
      PROVE  th'[u].calls # <<>>
  <2>1. th'[u] = th[u] BY <1>3, <1>4, <1>6, <1>8 DEF LeavingWait
  <2> QED BY <1>8, <2>1 DEF TypeOK, ThreadsOK
<1>9. ThreadsOK' BY <1>2, <1>7, <1>8, ThreadsReplaced
<1>10. MutexOK' BY <1>1, MutexSteps
<1>11. FlagsOK' BY <1>1 DEF FrameLeft, TypeOK, FlagsOK, rest
<1> QED BY <1>1, <1>9, <1>10, <1>11, UnchangedParts DEF TypeOK, rest

-----------------------------------------------------------------------------
(* Type correctness. *)

LEMMA InitType == Init => TypeOK
<1> SUFFICES ASSUME Init PROVE TypeOK OBVIOUS
<1>1. test \in Tests BY DEF Init
<1>2. "main" \in DOMAIN Programs[test] /\ <<>> \in Seq(CallsOf(Programs[test]))
      /\ <<>> \in Seq(DOMAIN Programs[test])
  BY <1>1, ProgramsAssumption
<1>3. Programs[test]["main"] \in Seq(CallsOf(Programs[test]))
  <2>1. Programs[test]["main"] \in Seq(CallsIn(Programs[test]["main"]))
    BY <1>1, <1>2, ProgramsAssumption
  <2>2. CallsIn(Programs[test]["main"]) \subseteq CallsOf(Programs[test])
    BY <1>2 DEF CallsOf
  <2> QED BY <2>1, <2>2, SeqMonotonic
<1>4. TlsImage \in [DOMAIN TlsImage -> Int] BY DEF TlsImage
<1>5. [k \in Keys |-> "nowhere"] \in [Keys -> Variables] BY VariablesNamed
<1>6. Newborn \in Thread /\ Newborn.state = "unborn"
  BY <1>2, <1>4, <1>5 DEF Newborn, Thread
<1>7. Started("main") \in Thread /\ Started("main").state = "running"
  BY <1>3, <1>6 DEF Started, Thread
<1>8. ThreadsOK BY <1>6, <1>7 DEF Init, ThreadsOK, LeavingWait
<1>9. MutexOK BY DEF Init, NewMutex, MutexOK, MutexTypes
<1>10. ObjectsOK
  <2>1. opened = [module |-> "none", older |-> {}, named |-> FALSE, handles |-> 0]
    BY DEF Init
  <2>2. opened \in [module : {"none", "local", "global"}, older : SUBSET Threads,
                   named : BOOLEAN, handles : Int]
    BY <2>1
  <2> QED BY <2>2 DEF Init, ObjectsOK
<1>11. DataOK BY DEF Init, DataOK
<1>12. FlagsOK BY DEF Init, FlagsOK
<1> QED BY <1>1, <1>8, <1>9, <1>10, <1>11, <1>12 DEF TypeOK

LEMMA StepType ==
  ASSUME TypeOK, NEW t \in Threads, Step(t) \/ TimerRunsOut(t) \/ WokenByNothing(t)
  PROVE  TypeOK'
BY SetVariableType, CheckVariableType, SkipType, MutexInitialisedType,
   MutexDestroyedType, MutexLockedType, MutexUnlockedType, MutexConsistentType,
   CondWaitingType, CondSignalledType, CondBroadcastType, CondDestroyedType,
   ThreadCreatedType, ThreadJoinedType, ThreadDetachedType, ThreadCancelledType,
   CancelStateSetType, HandlerPushedType, HandlerPoppedType, ThreadExitsType,
   CancelWaitType, WaitReturnsType, ThreadEndsType, SemInitialisedType, SemPostedType,
   SemWaitedType, SemValueType, BarrierReachedType, BarrierDestroyedType,
   OnceCalledType, SpecificSetType, SpecificCheckedType, RwLockedType, TlsAddedType,
   TlsCheckedType, ModuleOpenedType, SymbolFoundType, ObjectCalledType, QuietCallType,
   SemOpenedType, SemClosedType, FrameLeftType, CrashesType, TimerRunsOutType,
   WokenByNothingType
   DEF Step

LEMMA StutterType == ASSUME TypeOK, UNCHANGED vars PROVE TypeOK'
<1>1. ThreadsOK' /\ MutexOK' BY ThreadsStay, MutexSteps, MainIsThread DEF vars
<1> QED BY <1>1, UnchangedParts DEF TypeOK, vars, history

\* Threads, mutex, semaphores and the rest stay what they are whatever calls the
\* tests make, as long as each call names things of the right kind: a blocked
\* thread is in a call, and the mutex is counted exactly while it has an owner.
THEOREM TypeCorrect == Spec => []TypeOK
<1>1. TypeOK /\ [Next]_vars => TypeOK'
  BY StepType, StutterType DEF Next, Stopped
<1> QED BY <1>1, InitType, PTL DEF Spec

-----------------------------------------------------------------------------
(* What the steps do to the calls that threads have still to make. *)

Cancelled(u) == \E t \in Threads : InCall(t) /\ Now(t).op = "cancel" /\ Now(t).obj = u

\* The calls that do more than this to what a thread has to do.
Leaps == {"skip", "create", "join", "push", "pop", "exit", "once", "setspecific"}

\* A thread in state v may block in state w in the same call.
MayBlock(u, w) ==
  w \in Blocks => \/ BlocksIn(w, Now(u))
                 \/ /\ th[u].state \in Blocks
                    /\ BlocksIn(th[u].state, Now(u)) => BlocksIn(w, Now(u))

\* Thread u asks for being cancelled at once.
SetsType(u) == /\ th[u].state = "running" /\ InCall(u) /\ Now(u).op = "setcanceltype"
               /\ th'[u].calls = Tail(th[u].calls)

\* All who have come to the barrier go on.
AllMet ==
  \E v \in Threads :
    /\ BarrierReached(v) /\ ~(Cardinality(AtBarrier) + 1 < Now(v).than)
    /\ th' = [w \in Threads |-> IF w \in AtBarrier \cup {v} THEN Onward(w) ELSE th[w]]

\* Thread u does not go on from a call that makes, locks or unlocks the mutex,
\* unless it is that call that it makes, or its timer that runs out; nor from the
\* barrier unless all have met.
Locking == {"mutex_init", "lock", "timedlock", "unlock", "barrier_wait"}
LocksItself(u) ==
  \/ th[u].state \in Blocks /\ (Waits(u) \/ AllMet)
  \/ Now(u).op = "barrier_wait" /\ AllMet
  \/ Now(u).op \notin Locking
  \/ MutexInitialised(u) \/ MutexLocked(u) \/ MutexUnlocked(u) \/ TimerRunsOut(u)

\* At most, thread u goes on to its next call.
Quiet(u) ==
  /\ \/ th'[u].calls = th[u].calls /\ MayBlock(u, th'[u].state)
     \/ /\ th[u].calls # <<>> /\ th'[u].calls = Tail(th[u].calls)
        /\ th'[u].state = "running"
        /\ th[u].state \in Blocks \/ Now(u).op \notin Leaps
  /\ th'[u].handlers = th[u].handlers
  /\ th'[u].specific = th[u].specific
  /\ th'[u].state \in {"unborn", "joined"} <=> th[u].state \in {"unborn", "joined"}
  /\ th'[u].pending => th[u].pending \/ Cancelled(u)
  /\ th'[u].state = "cancelled" => th[u].state = "cancelled" \/ th[u].pending
  /\ th'[u].async => th[u].async \/ SetsType(u)
  /\ th[u].state \in {"unborn", "done"} => th'[u].state = th[u].state
  /\ th'[u].state = "done" => th[u].state = "done" \/ ThreadEnds(u)
  /\ CondWaiting(u) \/ WaitReturns(u) \/ (Waits(u)' <=> Waits(u))
  /\ th'[u].calls = th[u].calls \/ LocksItself(u)
  /\ th'[u].state = "stranded" => th[u].state = "stranded" \/ SleepsOnMutex(u)

\* The actions that do no more than that.
Returning(t) ==
  \/ SetVariable(t) \/ CheckVariable(t) \/ MutexInitialised(t) \/ MutexDestroyed(t)
  \/ MutexLocked(t) \/ MutexUnlocked(t) \/ MutexConsistent(t) \/ CondDestroyed(t)
  \/ ThreadDetached(t) \/ SemInitialised(t) \/ SemPosted(t) \/ SemWaited(t) \/ SemValue(t)
  \/ BarrierDestroyed(t) \/ SpecificChecked(t) \/ RwLocked(t) \/ RwUnlocked(t)
  \/ ShmOpened(t) \/ TlsChecked(t) \/ ModuleOpened(t) \/ SymbolFound(t) \/ ObjectCalled(t)
  \/ ModuleClosed(t) \/ SemOpened(t) \/ SemClosed(t) \/ SemUnlinked(t)
Blocking(t) ==
  \/ CondWaiting(t) \/ CondSignalled(t) \/ CondBroadcast(t) \/ WokenByNothing(t)
  \/ ThreadCancelled(t) \/ CancelStateSet(t) \/ CancelWait(t) \/ TlsAdded(t)
  \/ (WaitReturns(t) /\ th[t].state # "cancelled")
  \/ ThreadEnds(t) \/ BarrierReached(t) \/ FrameLeft(t) \/ Crashes(t) \/ TimerRunsOut(t)
\* The others.
Leaping(t) ==
  \/ Skip(t) \/ ThreadCreated(t) \/ ThreadJoined(t) \/ HandlerPushed(t)
  \/ HandlerPopped(t) \/ ThreadExits(t) \/ CancelActs(t)
  \/ (WaitReturns(t) /\ th[t].state = "cancelled") \/ OnceCalled(t) \/ SpecificSet(t)

LEMMA StepKinds ==
  ASSUME NEW t, Step(t) \/ TimerRunsOut(t) \/ WokenByNothing(t)
  PROVE  Returning(t) \/ Blocking(t) \/ Leaping(t)
BY DEF Step, Returning, Blocking, Leaping

\* What is known of a thread that goes on.
LEMMA OnwardFields ==
  ASSUME TypeOK, NEW t \in Threads, InCall(t)
  PROVE  /\ Onward(t).state = "running" /\ Onward(t).calls = Tail(th[t].calls)
         /\ Onward(t).handlers = th[t].handlers /\ Onward(t).specific = th[t].specific
         /\ Onward(t).pending = th[t].pending /\ Onward(t).enabled = th[t].enabled
         /\ Onward(t).async = th[t].async
         /\ th[t].calls # <<>>
<1>1. th[t] \in Thread BY DEF TypeOK, ThreadsOK
<1>2. Onward(t) = [th[t] EXCEPT !.state = "running", !.calls = Tail(th[t].calls)]
  BY OnwardThread
<1>3. Onward(t).state = "running" /\ Onward(t).calls = Tail(th[t].calls)
  BY <1>1, <1>2 DEF Thread
<1>4. /\ Onward(t).handlers = th[t].handlers /\ Onward(t).specific = th[t].specific
      /\ Onward(t).pending = th[t].pending /\ Onward(t).enabled = th[t].enabled
      /\ Onward(t).async = th[t].async
  BY <1>1, <1>2 DEF Thread
<1> QED BY <1>3, <1>4 DEF InCall

LEMMA SameQuiet == ASSUME NEW u, th'[u] = th[u] PROVE Quiet(u)
BY DEF Quiet, MayBlock, Waits

LEMMA OnwardQuiet ==
  ASSUME TypeOK, NEW u \in Threads, InCall(u), Working(u), th'[u] = Onward(u),
         th[u].state \in Blocks \/ Now(u).op \notin Leaps, Waits(u) => WaitReturns(u),
         LocksItself(u)
  PROVE  Quiet(u)
<1>1. /\ th'[u].state = "running" /\ th'[u].calls = Tail(th[u].calls)
      /\ th'[u].handlers = th[u].handlers /\ th'[u].specific = th[u].specific
      /\ th'[u].pending = th[u].pending /\ th'[u].async = th[u].async /\ th[u].calls # <<>>
  BY OnwardFields
<1>2. ~Waits(u)' BY <1>1 DEF Waits, LeavingWait
<1>3. th[u].state \notin {"unborn", "done", "joined"} BY DEF Working
<1> QED BY <1>1, <1>2, <1>3 DEF Quiet

LEMMA GoesQuiet ==
  ASSUME TypeOK, NEW t \in Threads, InCall(t), Working(t), Goes(t),
         th[t].state \in Blocks \/ Now(t).op \notin Leaps, Waits(t) => WaitReturns(t),
         LocksItself(t)
  PROVE  \A u \in Threads : Quiet(u)
<1> SUFFICES ASSUME NEW u \in Threads PROVE Quiet(u) OBVIOUS
<1>1. th'[u] = IF u = t THEN Onward(t) ELSE th[u] BY DEF Goes, TypeOK, ThreadsOK
<1> QED BY <1>1, SameQuiet, OnwardQuiet

LEMMA ReturningGoes ==
  ASSUME TypeOK, NEW t, Returning(t)
  PROVE  /\ Goes(t) /\ InCall(t) /\ Alive(t) /\ ~exited /\ UNCHANGED <<test, exited>>
         /\ Working(t) /\ ~Waits(t) /\ LocksItself(t)
         /\ Now(t).op \notin Leaps
         /\ opened'.named => opened.named \/ (InCall(t) /\ Now(t).op = "sem_open")
<1>1. Goes(t) /\ (\E op : op \notin Leaps /\ At(t, op)) /\ UNCHANGED <<test, exited>>
  BY DEF Returning, SetVariable, CheckVariable, MutexInitialised, MutexDestroyed,
         MutexLocked, MutexUnlocked, MutexConsistent, CondDestroyed, ThreadDetached,
         SemInitialised, SemPosted, SemWaited, SemValue, BarrierDestroyed,
         SpecificChecked, RwLocked, RwUnlocked, ShmOpened, TlsChecked, ModuleOpened,
         SymbolFound, ObjectCalled, ModuleClosed, SemOpened, SemClosed, SemUnlinked,
         Returns, rest, objects, flags, Leaps
<1>2. InCall(t) /\ Alive(t) /\ ~exited /\ Now(t).op \notin Leaps /\ Working(t) /\ ~Waits(t)
  BY <1>1 DEF At, Runs, Alive, Working, Waits, LeavingWait
<1>l. LocksItself(t)
  <2>1. CASE MutexInitialised(t) \/ MutexLocked(t) \/ MutexUnlocked(t)
    BY <2>1 DEF LocksItself
  <2>2. CASE ~(MutexInitialised(t) \/ MutexLocked(t) \/ MutexUnlocked(t))
    <3>1. Now(t).op \notin Locking
      BY <2>2
      DEF Returning, SetVariable, CheckVariable, MutexDestroyed,
         MutexConsistent, CondDestroyed, ThreadDetached,
         SemInitialised, SemPosted, SemWaited, SemValue, BarrierDestroyed,
         SpecificChecked, RwLocked, RwUnlocked, ShmOpened, TlsChecked, ModuleOpened,
         SymbolFound, ObjectCalled, ModuleClosed, SemOpened, SemClosed, SemUnlinked,
         At, Locking
    <3> QED BY <3>1 DEF LocksItself
  <2> QED BY <2>1, <2>2
<1>3. CASE SemOpened(t) BY <1>3, <1>1, <1>2, <1>l DEF SemOpened, At
<1>4. CASE ModuleOpened(t)
  <2>1. opened'.named = opened.named BY <1>4 DEF ModuleOpened, TypeOK, ObjectsOK
  <2> QED BY <1>1, <1>2, <1>l, <2>1
<1>5. CASE SemClosed(t)
  <2>1. opened'.named = opened.named BY <1>5 DEF SemClosed, TypeOK, ObjectsOK
  <2> QED BY <1>1, <1>2, <1>l, <2>1
<1>6. CASE ~SemOpened(t) /\ ~ModuleOpened(t) /\ ~SemClosed(t)
  <2>1. UNCHANGED opened
    BY <1>6
    DEF Returning, SetVariable, CheckVariable, MutexInitialised, MutexDestroyed,
         MutexLocked, MutexUnlocked, MutexConsistent, CondDestroyed, ThreadDetached,
         SemInitialised, SemPosted, SemWaited, SemValue, BarrierDestroyed,
         SpecificChecked, RwLocked, RwUnlocked, ShmOpened, TlsChecked,
         SymbolFound, ObjectCalled, ModuleClosed, SemUnlinked, rest, objects, flags
  <2> QED BY <1>1, <1>2, <1>l, <2>1
<1> QED BY <1>3, <1>4, <1>5, <1>6

\* A thread changes but its calls, handlers and data.
LEMMA StateQuiet ==
  ASSUME NEW u, th'[u].calls = th[u].calls, th'[u].handlers = th[u].handlers,
         th'[u].specific = th[u].specific, th'[u].pending = th[u].pending,
         th'[u].async = th[u].async,
         Working(u), th'[u].state \notin {"unborn", "joined"},
         th'[u].state = "done" => ThreadEnds(u),
         th'[u].state = "cancelled" => th[u].pending, MayBlock(u, th'[u].state),
         th'[u].state = "stranded" => SleepsOnMutex(u),
         CondWaiting(u) \/ WaitReturns(u) \/ (Waits(u)' <=> Waits(u))
  PROVE  Quiet(u)
BY DEF Quiet, Working

LEMMA StateChanged ==
  ASSUME TypeOK, NEW t \in Threads, Working(t), NEW v,
         v \notin {"unborn", "joined", "stranded"},
         v = "done" => ThreadEnds(t),
         v = "cancelled" => th[t].pending, MayBlock(t, v), th' = [th EXCEPT ![t].state = v],
         CondWaiting(t) \/ WaitReturns(t) \/ (v \in {"waiting"} \cup LeavingWait <=> Waits(t))
  PROVE  \A u \in Threads : Quiet(u)
<1> SUFFICES ASSUME NEW u \in Threads PROVE Quiet(u) OBVIOUS
<1>1. CASE u # t BY <1>1, SameQuiet DEF TypeOK, ThreadsOK
<1>2. CASE u = t
  <2>1. th[t] \in Thread /\ th'[t] = [th[t] EXCEPT !.state = v] BY DEF TypeOK, ThreadsOK
  <2>2. /\ th'[t].calls = th[t].calls /\ th'[t].handlers = th[t].handlers
        /\ th'[t].specific = th[t].specific /\ th'[t].pending = th[t].pending
        /\ th'[t].async = th[t].async /\ th'[t].state = v
    BY <2>1 DEF Thread
  <2> QED BY <1>2, <2>2, StateQuiet DEF Waits
<1> QED BY <1>1, <1>2

LEMMA MayBlockOn ==
  ASSUME NEW u
  PROVE  /\ MayBlock(u, "running") /\ MayBlock(u, "done") /\ MayBlock(u, "stranded")
         /\ Now(u).op \in CondWaits => MayBlock(u, "waiting")
         /\ Now(u).op = "barrier_wait" => MayBlock(u, "barrier")
         /\ th[u].state = "waiting" =>
              MayBlock(u, "woken") /\ MayBlock(u, "timedout") /\ MayBlock(u, "cancelled")
BY DEF MayBlock, Blocks, BlocksIn, LeavingWait

LEMMA AtAlive ==
  ASSUME NEW t, NEW op, At(t, op)
  PROVE  /\ InCall(t) /\ Alive(t) /\ ~exited
         /\ Working(t) /\ ~Waits(t) /\ th[t].state = "running"
BY DEF At, Runs, Alive, Working, Waits, LeavingWait

LEMMA WokenQuiet ==
  ASSUME TypeOK, NEW t \in Threads, InCall(t), Working(t), ~Waits(t), NEW s \in SUBSET Waiters,
         th' = Woken(s, t), Now(t).op \notin Leaps, Now(t).op \notin Locking
  PROVE  \A u \in Threads : Quiet(u)
<1> SUFFICES ASSUME NEW u \in Threads PROVE Quiet(u) OBVIOUS
<1>1. th'[u] = IF u = t THEN Onward(t)
              ELSE IF u \in s THEN [th[u] EXCEPT !.state = "woken"] ELSE th[u]
  BY DEF Woken
<1>2. CASE u = t BY <1>1, <1>2, OnwardQuiet DEF LocksItself
<1>3. CASE u # t /\ u \notin s BY <1>1, <1>3, SameQuiet
<1>4. CASE u # t /\ u \in s
  <2>1. Working(u) /\ th[u] \in Thread BY <1>4 DEF Waiters, Working, TypeOK, ThreadsOK
  <2>2. th'[u] = [th[u] EXCEPT !.state = "woken"] BY <1>1, <1>4
  <2>3. /\ th'[u].calls = th[u].calls /\ th'[u].handlers = th[u].handlers
        /\ th'[u].specific = th[u].specific /\ th'[u].pending = th[u].pending
        /\ th'[u].async = th[u].async /\ th'[u].state = "woken"
    BY <2>1, <2>2 DEF Thread
  <2>4. MayBlock(u, "woken") BY <1>4, MayBlockOn DEF Waiters
  <2>5. Waits(u)' <=> Waits(u) BY <1>4, <2>3 DEF Waits, Waiters, LeavingWait
  <2> QED BY <2>1, <2>3, <2>4, <2>5, StateQuiet
<1> QED BY <1>2, <1>3, <1>4

LEMMA BlockingQuiet ==
  ASSUME TypeOK, NEW t \in Threads, Blocking(t)
  PROVE  \A u \in Threads : Quiet(u)
<1>1. CASE CondWaiting(t)
  <2>1. InCall(t) /\ Working(t) /\ ~Waits(t) /\ Now(t).op \in CondWaits BY <1>1, AtAlive DEF CondWaiting, At
  <2>2. Goes(t) \/ th' = [th EXCEPT ![t].state = "waiting"] BY <1>1 DEF CondWaiting
  <2>3. Now(t).op \notin Leaps /\ LocksItself(t)
    BY <2>1 DEF CondWaits, Leaps, LocksItself, Locking
  <2>4. "waiting" \notin {"unborn", "joined", "stranded"} /\ "waiting" \notin {"cancelled", "done"} OBVIOUS
  <2> QED BY <1>1, <2>1, <2>2, <2>3, <2>4, GoesQuiet, StateChanged, MayBlockOn
<1>2. CASE CondSignalled(t)
  <2>1. /\ InCall(t) /\ Working(t) /\ ~Waits(t) /\ Now(t).op \notin Leaps
        /\ Now(t).op \notin Locking /\ LocksItself(t)
    BY <1>2, AtAlive DEF CondSignalled, At, Leaps, Locking, LocksItself
  <2>2. CASE Goes(t) BY <2>1, <2>2, GoesQuiet
  <2>3. CASE \E u \in Waiters : th' = Woken({u}, t)
    <3>1. PICK u \in Waiters : th' = Woken({u}, t) BY <2>3
    <3>2. {u} \in SUBSET Waiters OBVIOUS
    <3> QED BY <2>1, <3>1, <3>2, WokenQuiet
  <2> QED BY <1>2, <2>2, <2>3 DEF CondSignalled
<1>3. CASE CondBroadcast(t)
  <2>1. /\ InCall(t) /\ Working(t) /\ ~Waits(t) /\ Now(t).op \notin Leaps
        /\ Now(t).op \notin Locking /\ LocksItself(t)
    BY <1>3, AtAlive DEF CondBroadcast, At, Leaps, Locking, LocksItself
  <2>2. \E s \in SUBSET Waiters : th' = Woken(s, t)
    <3>1. Waiters \in SUBSET Waiters /\ \A u \in Waiters : {u} \in SUBSET Waiters OBVIOUS
    <3> QED BY <1>3, <3>1 DEF CondBroadcast
  <2> QED BY <2>1, <2>2, WokenQuiet
<1>4. CASE WokenByNothing(t)
  <2>1. Working(t) /\ Waits(t) BY <1>4 DEF WokenByNothing, Working, Waits
  <2>2. "woken" \notin {"unborn", "joined", "stranded"} /\ "woken" \notin {"cancelled", "done"} OBVIOUS
  <2>3. th' = [th EXCEPT ![t].state = "woken"] BY <1>4 DEF WokenByNothing
  <2>4. MayBlock(t, "woken") BY <1>4, MayBlockOn DEF WokenByNothing
  <2>5. "woken" \in {"waiting"} \cup LeavingWait BY DEF LeavingWait
  <2> QED BY <2>1, <2>2, <2>3, <2>4, <2>5, StateChanged
<1>5. CASE ThreadCancelled(t)
  <2> DEFINE w == Now(t).obj
  <2>1. InCall(t) /\ Working(t) /\ ~Waits(t) /\ Now(t).op = "cancel" BY <1>5, AtAlive DEF ThreadCancelled, At
  <2>2. w \in Threads BY <2>1, NowNames DEF Names
  <2>3. th' = [th EXCEPT ![t] = Onward(t), ![w].pending = TRUE] BY <1>5 DEF ThreadCancelled
  <2>4. Cancelled(w) BY <2>1 DEF Cancelled
  <2> HIDE DEF w
  <2> SUFFICES ASSUME NEW u \in Threads PROVE Quiet(u) OBVIOUS
  <2> DEFINE x == IF u = t THEN Onward(t) ELSE th[u]
  <2>5. th'[u] = IF u = w THEN [x EXCEPT !.pending = TRUE] ELSE x
    BY <2>2, <2>3 DEF TypeOK, ThreadsOK
  <2>6. x \in Thread BY <2>1, OnwardWith DEF TypeOK, ThreadsOK
  <2>7. /\ \/ x.calls = th[u].calls /\ x.state = th[u].state
           \/ /\ th[u].calls # <<>> /\ x.calls = Tail(th[u].calls)
              /\ x.state = "running" /\ Now(u).op \notin Leaps /\ LocksItself(u)
        /\ x.handlers = th[u].handlers /\ x.specific = th[u].specific
        /\ x.pending = th[u].pending /\ x.async = th[u].async
        /\ x.state = th[u].state \/ (Working(u) /\ ~Waits(u) /\ x.state = "running")
    BY <2>1, OnwardFields DEF Leaps, LocksItself, Locking
  <2> HIDE DEF x
  <2>8. /\ th'[u].calls = x.calls /\ th'[u].handlers = x.handlers
        /\ th'[u].specific = x.specific /\ th'[u].state = x.state /\ th'[u].async = x.async
        /\ u # w => th'[u].pending = x.pending
    BY <2>5, <2>6 DEF Thread
  <2>9. Waits(u)' <=> Waits(u) BY <2>7, <2>8 DEF Waits, LeavingWait
  <2>10. Working(u) => th[u].state \notin {"unborn", "done", "joined"} BY DEF Working
  <2> QED BY <2>4, <2>7, <2>8, <2>9, <2>10 DEF Quiet, MayBlock
<1>6. CASE CancelStateSet(t)
  <2>1. /\ InCall(t) /\ Working(t) /\ ~Waits(t) /\ Now(t).op \notin Leaps
        /\ LocksItself(t)
    BY <1>6, AtAlive DEF CancelStateSet, At, Leaps, LocksItself, Locking
  <2> SUFFICES ASSUME NEW u \in Threads PROVE Quiet(u) OBVIOUS
  <2>2. CASE u # t BY <1>6, <2>2, SameQuiet DEF CancelStateSet, TypeOK, ThreadsOK
  <2>3. CASE u = t
    <3>1. \/ th'[t] = [Onward(t) EXCEPT !.enabled = (Now(t).obj = "enable")]
          \/ /\ th'[t] = [Onward(t) EXCEPT !.async = TRUE]
             /\ th[t].state = "running" /\ Now(t).op = "setcanceltype"
      BY <1>6 DEF CancelStateSet, TypeOK, ThreadsOK, At, Runs
    <3>2. Onward(t) \in Thread BY <2>1, OnwardThread
    <3>3. /\ th'[t].calls = Onward(t).calls /\ th'[t].handlers = Onward(t).handlers
          /\ th'[t].specific = Onward(t).specific /\ th'[t].state = Onward(t).state
          /\ th'[t].pending = Onward(t).pending
          /\ \/ th'[t].async = Onward(t).async
             \/ th[t].state = "running" /\ Now(t).op = "setcanceltype"
      BY <3>1, <3>2 DEF Thread
    <3>4. /\ Onward(t).state = "running" /\ Onward(t).calls = Tail(th[t].calls)
          /\ Onward(t).handlers = th[t].handlers /\ Onward(t).specific = th[t].specific
          /\ Onward(t).pending = th[t].pending /\ Onward(t).async = th[t].async
          /\ th[t].calls # <<>>
      BY <2>1, OnwardFields
    <3>5. ~Waits(t)' BY <3>3, <3>4 DEF Waits, LeavingWait
    <3>6. th'[t].async => th[t].async \/ SetsType(t) BY <2>1, <3>3, <3>4 DEF SetsType
    <3>7. th[t].state \notin {"unborn", "done", "joined"} BY <2>1 DEF Working
    <3> QED BY <2>1, <2>3, <3>3, <3>4, <3>5, <3>6, <3>7 DEF Quiet
  <2> QED BY <2>2, <2>3
<1>7. CASE CancelWait(t)
  <2>1. Working(t) /\ Waits(t) /\ th[t].pending /\ th[t].state = "waiting"
    BY <1>7 DEF CancelWait, MayCancelWait, Working, Waits
  <2>2. "cancelled" \notin {"unborn", "joined", "stranded", "done"} /\ "cancelled" \in {"waiting"} \cup LeavingWait
    BY DEF LeavingWait
  <2> QED BY <1>7, <2>1, <2>2, StateChanged, MayBlockOn DEF CancelWait
<1>8. CASE TlsAdded(t)
  <2>1. /\ InCall(t) /\ Working(t) /\ ~Waits(t) /\ Now(t).op \notin Leaps
        /\ LocksItself(t)
    BY <1>8, AtAlive DEF TlsAdded, At, Leaps, LocksItself, Locking
  <2> SUFFICES ASSUME NEW u \in Threads PROVE Quiet(u) OBVIOUS
  <2> DEFINE x == IF u = t THEN Onward(t) ELSE th[u]
  <2>2. th'[u] = x \/ th'[u] = [x EXCEPT !.tls[Now(t).obj] = @ + Now(t).than]
    BY <1>8 DEF TlsAdded
  <2>3. x \in Thread BY <2>1, OnwardWith DEF TypeOK, ThreadsOK
  <2>4. /\ \/ x.calls = th[u].calls /\ x.state = th[u].state
           \/ /\ th[u].calls # <<>> /\ x.calls = Tail(th[u].calls)
              /\ x.state = "running" /\ Now(u).op \notin Leaps /\ LocksItself(u)
        /\ x.handlers = th[u].handlers /\ x.specific = th[u].specific
        /\ x.pending = th[u].pending /\ x.async = th[u].async
        /\ x.state = th[u].state \/ (Working(u) /\ ~Waits(u) /\ x.state = "running")
    BY <2>1, OnwardFields
  <2> HIDE DEF x
  <2>5. /\ th'[u].calls = x.calls /\ th'[u].handlers = x.handlers
        /\ th'[u].specific = x.specific /\ th'[u].state = x.state
        /\ th'[u].pending = x.pending /\ th'[u].async = x.async
    BY <2>2, <2>3 DEF Thread
  <2>6. Waits(u)' <=> Waits(u) BY <2>4, <2>5 DEF Waits, LeavingWait
  <2>7. Working(u) => th[u].state \notin {"unborn", "done", "joined"} BY DEF Working
  <2> QED BY <2>4, <2>5, <2>6, <2>7 DEF Quiet, MayBlock
<1>9. CASE WaitReturns(t) /\ th[t].state # "cancelled"
  <2>1. th[t].state \in LeavingWait BY <1>9 DEF WaitReturns
  <2>2. InCall(t) /\ Working(t) BY <2>1 DEF TypeOK, ThreadsOK, InCall, Working, LeavingWait
  <2>3. Goes(t) \/ th' = [th EXCEPT ![t].state = "running"] BY <1>9 DEF WaitReturns
  <2>4. "running" \notin {"unborn", "joined", "stranded"} /\ "running" \notin {"cancelled", "done"} OBVIOUS
  <2>5. th[t].state \in Blocks /\ LocksItself(t) BY <2>1 DEF Blocks, LocksItself, Waits
  <2> QED BY <1>9, <2>2, <2>3, <2>4, <2>5, GoesQuiet, StateChanged, MayBlockOn
<1>10. CASE ThreadEnds(t)
  <2>1. Working(t) /\ ~Waits(t) BY <1>10 DEF ThreadEnds, Runs, Working, Waits, LeavingWait
  <2>2. "done" \notin {"unborn", "joined", "stranded"} \cup {"waiting"} \cup LeavingWait /\ "done" # "cancelled"
    BY DEF LeavingWait
  <2>3. th' = [th EXCEPT ![t].state = "done"] BY <1>10 DEF ThreadEnds
  <2> QED BY <1>10, <2>1, <2>2, <2>3, StateChanged, MayBlockOn
<1>11. CASE BarrierReached(t)
  <2>1. InCall(t) /\ Working(t) /\ ~Waits(t) /\ Now(t).op = "barrier_wait"
    BY <1>11, AtAlive DEF BarrierReached, At
  <2>2. CASE Cardinality(AtBarrier) + 1 < Now(t).than
    <3>0. th' = [th EXCEPT ![t].state = "barrier"] BY <1>11, <2>2 DEF BarrierReached
    <3>1. "barrier" \notin {"unborn", "joined", "stranded"} \cup {"waiting"} \cup LeavingWait
          /\ "barrier" \notin {"cancelled", "done"}
      BY DEF LeavingWait
    <3> QED BY <2>1, <3>0, <3>1, StateChanged, MayBlockOn
  <2>3. CASE ~(Cardinality(AtBarrier) + 1 < Now(t).than)
    <3>0. th' = [u \in Threads |-> IF u \in AtBarrier \cup {t} THEN Onward(u) ELSE th[u]]
      BY <1>11, <2>3 DEF BarrierReached
    <3>m. AllMet BY <1>11, <2>3, <3>0 DEF AllMet
    <3> SUFFICES ASSUME NEW u \in Threads PROVE Quiet(u) OBVIOUS
    <3>1. CASE u \in AtBarrier \cup {t}
      <4>1. /\ InCall(u) /\ Working(u) /\ ~Waits(u)
            /\ th[u].state \in Blocks \/ Now(u).op \notin Leaps
            /\ LocksItself(u)
        BY <2>1, <3>m, <3>1
        DEF AtBarrier, TypeOK, ThreadsOK, InCall, Working, Waits, LeavingWait, Blocks, Leaps,
            LocksItself
      <4> QED BY <3>0, <3>1, <4>1, OnwardQuiet
    <3>2. CASE u \notin AtBarrier \cup {t} BY <3>0, <3>2, SameQuiet
    <3> QED BY <3>1, <3>2
  <2> QED BY <1>11, <2>2, <2>3 DEF BarrierReached
<1>12. CASE Crashes(t) BY <1>12, SameQuiet DEF Crashes
<1>14. CASE FrameLeft(t)
  <2>1. /\ InCall(t) /\ Working(t) /\ ~Waits(t) /\ Now(t).op \notin Leaps
        /\ LocksItself(t)
    BY <1>14, AtAlive DEF FrameLeft, At, Leaps, LocksItself, Locking
  <2> SUFFICES ASSUME NEW u \in Threads PROVE Quiet(u) OBVIOUS
  <2>2. th'[u] = IF u = t THEN Onward(t)
                ELSE IF SleepsOnMutex(u) THEN [th[u] EXCEPT !.state = "stranded"] ELSE th[u]
    BY <1>14 DEF FrameLeft
  <2>3. CASE u = t BY <2>1, <2>2, <2>3, OnwardQuiet
  <2>4. CASE u # t /\ ~SleepsOnMutex(u) BY <2>2, <2>4, SameQuiet
  <2>5. CASE u # t /\ SleepsOnMutex(u)
    <3>1. Working(u) /\ ~Waits(u) BY <2>5 DEF SleepsOnMutex, Runs, Working, Waits, LeavingWait
    <3>2. th'[u] = [th[u] EXCEPT !.state = "stranded"] /\ th[u] \in Thread
      BY <2>2, <2>5 DEF TypeOK, ThreadsOK
    <3>3. /\ th'[u].calls = th[u].calls /\ th'[u].handlers = th[u].handlers
          /\ th'[u].specific = th[u].specific /\ th'[u].pending = th[u].pending
          /\ th'[u].async = th[u].async /\ th'[u].state = "stranded"
      BY <3>2 DEF Thread
    <3>4. MayBlock(u, "stranded") BY MayBlockOn
    <3>5. ~Waits(u)' BY <3>3 DEF Waits, LeavingWait
    <3> QED BY <2>5, <3>1, <3>3, <3>4, <3>5, StateQuiet
  <2> QED BY <2>3, <2>4, <2>5
<1>13. CASE TimerRunsOut(t)
  <2>1. /\ InCall(t) /\ Working(t)
        /\ Waits(t) => th[t].state = "waiting" /\ Now(t).op = "cond_timedwait"
    BY <1>13 DEF TimerRunsOut, Timed, Runs, Working, Waits, LeavingWait
  <2>2. CASE Now(t).op = "cond_timedwait"
    <3>1. th[t].state = "waiting" /\ th' = [th EXCEPT ![t].state = "timedout"]
      BY <1>13, <2>2 DEF TimerRunsOut, Timed
    <3>2. "timedout" \notin {"unborn", "joined", "stranded"} /\ "timedout" \notin {"cancelled", "done"}
          /\ "timedout" \in {"waiting"} \cup LeavingWait
      BY DEF LeavingWait
    <3>3. Waits(t) BY <3>1 DEF Waits
    <3> QED BY <2>1, <3>1, <3>2, <3>3, StateChanged, MayBlockOn
  <2>3. CASE Now(t).op # "cond_timedwait"
    <3>1. Goes(t) BY <1>13, <2>3 DEF TimerRunsOut, Returns
    <3>2. Now(t).op \notin Leaps BY <1>13, <2>3 DEF TimerRunsOut, Timed, Leaps
    <3>3. LocksItself(t) BY <1>13 DEF LocksItself
    <3> QED BY <2>1, <2>3, <3>1, <3>2, <3>3, GoesQuiet
  <2> QED BY <2>2, <2>3
<1> QED
  BY <1>1, <1>2, <1>3, <1>4, <1>5, <1>6, <1>7, <1>8, <1>9, <1>10, <1>11, <1>12, <1>13,
     <1>14
  DEF Blocking

\* All quiet steps together.
LEMMA QuietStep ==
  ASSUME TypeOK, NEW t \in Threads, Returning(t) \/ Blocking(t)
  PROVE  /\ \A u \in Threads : Quiet(u)
         /\ test' = test /\ ~exited
         /\ exited' => Crashes(t) \/ (t = "main" /\ Runs(t) /\ ~InCall(t))
         /\ opened'.named => opened.named \/ (InCall(t) /\ Now(t).op = "sem_open")
<1>1. CASE Returning(t) BY <1>1, ReturningGoes, GoesQuiet
<1>2. CASE Blocking(t)
  <2>1. UNCHANGED <<test, opened>>
    BY <1>2
    DEF Blocking, CondWaiting, CondSignalled, CondBroadcast, WokenByNothing,
        ThreadCancelled, CancelStateSet, CancelWait, TlsAdded, WaitReturns, ThreadEnds,
        BarrierReached, FrameLeft, Crashes, TimerRunsOut, rest, objects
  <2>2. ~exited
    BY <1>2
    DEF Blocking, CondWaiting, CondSignalled, CondBroadcast, WokenByNothing,
        ThreadCancelled, CancelStateSet, CancelWait, MayCancelWait, TlsAdded,
        WaitReturns, ThreadEnds, BarrierReached, FrameLeft, Crashes, TimerRunsOut, Timed, At, Runs
  <2>3. exited' = exited \/ Crashes(t) \/ ThreadEnds(t)
    BY <1>2
    DEF Blocking, CondWaiting, CondSignalled, CondBroadcast, WokenByNothing,
        ThreadCancelled, CancelStateSet, CancelWait, TlsAdded, WaitReturns,
        BarrierReached, FrameLeft, TimerRunsOut, rest, flags
  <2>4. ASSUME exited' PROVE Crashes(t) \/ (t = "main" /\ Runs(t) /\ ~InCall(t))
    <3>1. CASE ThreadEnds(t) BY <2>4, <3>1 DEF ThreadEnds
    <3> QED BY <2>2, <2>3, <2>4, <3>1
  <2>5. \A u \in Threads : Quiet(u) BY <1>2, BlockingQuiet
  <2> QED BY <2>1, <2>2, <2>4, <2>5
<1> QED BY <1>1, <1>2

\* The calls of parts of a sequence of calls.
LEMMA CallsOfParts ==
  ASSUME NEW S, NEW s \in Seq(S)
  PROVE  /\ s # <<>> => /\ CallsIn(Tail(s)) \subseteq CallsIn(s) /\ Head(s) \in CallsIn(s)
                        /\ Tail(s) = SubSeq(s, 2, Len(s))
         /\ \A n \in Nat : CallsIn(SubSeq(s, n + 1, Len(s))) \subseteq CallsIn(s)
         /\ \A u \in Seq(S) : CallsIn(s \o u) \subseteq CallsIn(s) \cup CallsIn(u)
<1>1. Len(s) \in Nat /\ DOMAIN s = 1..Len(s) BY LenProperties
<1>2. ASSUME NEW n \in Nat PROVE CallsIn(SubSeq(s, n + 1, Len(s))) \subseteq CallsIn(s)
  <2> DEFINE u == SubSeq(s, n + 1, Len(s))
  <2>1. \A i \in n + 1 .. Len(s) : s[i] \in S BY <1>1, ElementOfSeq
  <2>2. /\ u \in Seq(S) /\ Len(u) = IF n + 1 <= Len(s) THEN Len(s) - (n + 1) + 1 ELSE 0
        /\ \A i \in 1 .. Len(s) - (n + 1) + 1 : u[i] = s[n + 1 + i - 1]
    BY <1>1, <2>1, SubSeqProperties
  <2> HIDE DEF u
  <2>3. DOMAIN u = 1..Len(u) BY <2>2, LenProperties
  <2>4. ASSUME NEW i \in DOMAIN u PROVE u[i] \in CallsIn(s)
    <3>1. i \in Int /\ 1 <= i /\ i <= Len(u) BY <2>3
    <3>2. n + 1 <= Len(s) /\ Len(u) = Len(s) - (n + 1) + 1
      <4>1. CASE n + 1 <= Len(s) BY <2>2, <4>1
      <4>2. CASE ~(n + 1 <= Len(s)) BY <2>2, <3>1, <4>2
      <4> QED BY <4>1, <4>2
    <3>3. i \in 1 .. Len(s) - (n + 1) + 1 BY <3>1, <3>2
    <3>4. u[i] = s[n + 1 + i - 1] BY <2>2, <3>3
    <3>5. n + 1 + i - 1 \in DOMAIN s BY <1>1, <3>1, <3>2
    <3> QED BY <3>4, <3>5 DEF CallsIn
  <2>5. CallsIn(u) \subseteq CallsIn(s) BY <2>4 DEF CallsIn
  <2> QED BY <2>5 DEF u
<1>3. ASSUME s # <<>>
      PROVE  /\ CallsIn(Tail(s)) \subseteq CallsIn(s) /\ Head(s) \in CallsIn(s)
             /\ Tail(s) = SubSeq(s, 2, Len(s))
  <2>1. Len(s) >= 1 /\ Head(s) = s[1] BY <1>3, <1>1, EmptySeq
  <2>2. Tail(s) = SubSeq(s, 2, Len(s)) BY <1>3, TailIsSubSeq
  <2>3. CallsIn(SubSeq(s, 2, Len(s))) \subseteq CallsIn(s)
    <3>1. 1 \in Nat /\ 1 + 1 = 2 OBVIOUS
    <3>2. CallsIn(SubSeq(s, 1 + 1, Len(s))) \subseteq CallsIn(s) BY <1>2, <3>1
    <3> QED BY <3>1, <3>2
  <2>4. Head(s) \in CallsIn(s)
    <3>1. 1 \in DOMAIN s BY <1>1, <2>1
    <3> QED BY <2>1, <3>1 DEF CallsIn
  <2> QED BY <2>2, <2>3, <2>4
<1>4. ASSUME NEW u \in Seq(S) PROVE CallsIn(s \o u) \subseteq CallsIn(s) \cup CallsIn(u)
  <2>1. Len(u) \in Nat /\ DOMAIN u = 1..Len(u) BY LenProperties
  <2>2. /\ s \o u \in Seq(S) /\ Len(s \o u) = Len(s) + Len(u)
        /\ \A i \in 1 .. Len(s) + Len(u) :
             (s \o u)[i] = IF i <= Len(s) THEN s[i] ELSE u[i - Len(s)]
    BY ConcatProperties
  <2>3. DOMAIN (s \o u) = 1 .. Len(s) + Len(u) BY <2>2, LenProperties
  <2>4. ASSUME NEW i \in DOMAIN (s \o u) PROVE (s \o u)[i] \in CallsIn(s) \cup CallsIn(u)
    <3>1. i \in Int /\ i >= 1 /\ i <= Len(s) + Len(u) BY <1>1, <2>1, <2>3
    <3>2. CASE i <= Len(s) BY <1>1, <2>1, <2>2, <3>1, <3>2 DEF CallsIn
    <3>3. CASE i > Len(s)
      <4>1. i - Len(s) \in DOMAIN u BY <1>1, <2>1, <3>1, <3>3
      <4>2. (s \o u)[i] = u[i - Len(s)] BY <1>1, <2>1, <2>2, <3>1, <3>3
      <4> QED BY <4>1, <4>2 DEF CallsIn
    <3> QED BY <1>1, <3>1, <3>2, <3>3
  <2> QED BY <2>4 DEF CallsIn
<1> QED BY <1>2, <1>3, <1>4

\* What each of the other actions does.
LEMMA SkipFields ==
  ASSUME TypeOK, NEW t \in Threads, Skip(t)
  PROVE  /\ \A u \in Threads \ {t} : th'[u] = th[u]
         /\ th'[t] = [th[t] EXCEPT !.calls = th'[t].calls]
         /\ th[t].state = "running" /\ InCall(t) /\ Now(t).op = "skip"
         /\ \/ th'[t].calls = Tail(th[t].calls)
            \/ th'[t].calls = SubSeq(th[t].calls, Now(t).jump + 2, Len(th[t].calls))
<1> DEFINE s == IF mem[Now(t).obj] = Now(t).than
                  THEN SubSeq(th[t].calls, Now(t).jump + 2, Len(th[t].calls))
                ELSE Tail(th[t].calls)
<1>1. th' = [th EXCEPT ![t].calls = s] BY DEF Skip
<1>2. s = Tail(th[t].calls) \/ s = SubSeq(th[t].calls, Now(t).jump + 2, Len(th[t].calls))
  OBVIOUS
<1>3. th[t].state = "running" /\ InCall(t) /\ Now(t).op = "skip" BY DEF Skip, At, Runs
<1> HIDE DEF s
<1>4. th[t] \in Thread /\ th'[t] = [th[t] EXCEPT !.calls = s]
      /\ \A u \in Threads \ {t} : th'[u] = th[u]
  BY <1>1 DEF TypeOK, ThreadsOK
<1>5. th'[t].calls = s BY <1>4 DEF Thread
<1> QED BY <1>2, <1>3, <1>4, <1>5

LEMMA CreatedFields ==
  ASSUME TypeOK, NEW t \in Threads, ThreadCreated(t)
  PROVE  /\ InCall(t) /\ Now(t).op = "create" /\ th[t].state = "running"
         /\ \E w \in Threads :
              /\ w = Now(t).obj /\ w \in DOMAIN Programs[test]
              /\ \A u \in Threads : u # t /\ u # w => th'[u] = th[u]
              /\ t # w => th'[t] = Onward(t)
              /\ th'[w].state = "running" /\ th'[w].calls = Programs[test][w]
              /\ th'[w].handlers = <<>> /\ th'[w].pending = FALSE /\ th'[w].async = FALSE
              /\ \A k \in Keys : th'[w].specific[k] = "nowhere"
<1>0. PICK w : w = Now(t).obj OBVIOUS
<1>1. InCall(t) /\ Now(t).op = "create" /\ th[t].state = "running"
  BY DEF ThreadCreated, At, Runs
<1>2. w \in Threads /\ w \in DOMAIN Programs[test] BY <1>0, <1>1, NowNames DEF Names
<1> DEFINE v == IF bug = "tls_inherited" THEN th[t].tls ELSE Started(w).tls
           y == [Started(w) EXCEPT !.tls = v]
<1>3. th' = [th EXCEPT ![t] = Onward(t), ![w] = y] BY <1>0 DEF ThreadCreated
<1> HIDE DEF v
<1>4. Started(w) \in Thread BY <1>2, StartedThread
<1>5. /\ Started(w).state = "running" /\ Started(w).calls = Programs[test][w]
      /\ Started(w).handlers = <<>> /\ Started(w).pending = FALSE /\ Started(w).async = FALSE
      /\ Started(w).specific = [k \in Keys |-> "nowhere"]
  BY DEF Started, Newborn
<1>6. /\ y.state = Started(w).state /\ y.calls = Started(w).calls
      /\ y.handlers = Started(w).handlers /\ y.pending = Started(w).pending
      /\ y.specific = Started(w).specific /\ y.async = Started(w).async
  BY <1>4 DEF Thread
<1> HIDE DEF y
<1>7. \A u \in Threads : th'[u] = IF u = w THEN y ELSE IF u = t THEN Onward(t) ELSE th[u]
  BY <1>2, <1>3 DEF TypeOK, ThreadsOK
<1>8. \A u \in Threads : u # t /\ u # w => th'[u] = th[u] BY <1>7
<1>9. t # w => th'[t] = Onward(t) BY <1>7
<1>10. th'[w] = y BY <1>2, <1>7
<1> QED BY <1>0, <1>1, <1>2, <1>5, <1>6, <1>8, <1>9, <1>10

\* The thread that is created.
LEMMA CreatedThread ==
  ASSUME TypeOK, NEW t \in Threads, ThreadCreated(t), NEW u, u = Now(t).obj
  PROVE  /\ th'[u].state = "running" /\ th'[u].calls = Programs[test][u]
         /\ th'[u].handlers = <<>> /\ th'[u].pending = FALSE /\ th'[u].async = FALSE
<1>1. PICK w \in Threads :
        /\ w = Now(t).obj /\ w \in DOMAIN Programs[test]
        /\ \A v \in Threads : v # t /\ v # w => th'[v] = th[v]
        /\ t # w => th'[t] = Onward(t)
        /\ th'[w].state = "running" /\ th'[w].calls = Programs[test][w]
        /\ th'[w].handlers = <<>> /\ th'[w].pending = FALSE /\ th'[w].async = FALSE
        /\ \A k \in Keys : th'[w].specific[k] = "nowhere"
  BY ZenonT(30), CreatedFields
<1>2. u = w BY <1>1
<1> QED BY <1>1, <1>2, Zenon

LEMMA JoinedFields ==
  ASSUME TypeOK, NEW t \in Threads, ThreadJoined(t)
  PROVE  /\ InCall(t) /\ Now(t).op = "join" /\ th[t].state = "running"
         /\ th'[t] = Onward(t)
         /\ \E w \in Threads :
              /\ w = Now(t).obj /\ t # w
              /\ \A u \in Threads : u # t /\ u # w => th'[u] = th[u]
              /\ th'[w].state = "joined" /\ th'[w].calls = th[w].calls
              /\ th'[w].handlers = th[w].handlers /\ th'[w].pending = th[w].pending
<1>0. PICK w : w = Now(t).obj OBVIOUS
<1>1. /\ InCall(t) /\ Now(t).op = "join" /\ th[t].state = "running" /\ th[w].state = "done"
      /\ th' = [th EXCEPT ![t] = Onward(t), ![w].state = "joined"]
  BY <1>0 DEF ThreadJoined, At, Runs
<1>2. w \in Threads BY <1>0, <1>1, NowNames DEF Names
<1>3. t # w BY <1>1
<1>4. \A u \in Threads : th'[u] = IF u = w THEN [th[w] EXCEPT !.state = "joined"]
                                ELSE IF u = t THEN Onward(t) ELSE th[u]
  BY <1>1, <1>2, <1>3 DEF TypeOK, ThreadsOK
<1>5. th[w] \in Thread BY <1>2 DEF TypeOK, ThreadsOK
<1>6. th'[w] = [th[w] EXCEPT !.state = "joined"] BY <1>2, <1>4
<1>7. /\ th'[w].state = "joined" /\ th'[w].calls = th[w].calls
      /\ th'[w].handlers = th[w].handlers /\ th'[w].pending = th[w].pending
  BY <1>5, <1>6 DEF Thread
<1>8. \A u \in Threads : u # t /\ u # w => th'[u] = th[u] BY <1>4
<1>9. th'[t] = Onward(t) BY <1>3, <1>4
<1> QED BY <1>0, <1>1, <1>2, <1>3, <1>7, <1>8, <1>9

\* One thread alone: it handles its cleanup handlers, or is unwound.
LEMMA AloneFields ==
  ASSUME TypeOK, NEW t \in Threads,
         \/ HandlerPushed(t) \/ HandlerPopped(t) \/ ThreadExits(t) \/ CancelActs(t)
         \/ (WaitReturns(t) /\ th[t].state = "cancelled") \/ OnceCalled(t) \/ SpecificSet(t)
  PROVE  /\ \A u \in Threads \ {t} : th'[u] = th[u]
         /\ Alive(t) /\ th'[t].state = "running" /\ th'[t].pending = th[t].pending
<1>1. th \in [Threads -> Thread] /\ th[t] \in Thread BY DEF TypeOK, ThreadsOK
<1>2. CASE HandlerPushed(t)
  <2>1. InCall(t) /\ Alive(t) BY <1>2, AtAlive DEF HandlerPushed
  <2>2. th' = [th EXCEPT ![t] = [Onward(t) EXCEPT !.handlers = <<Now(t).obj>> \o th[t].handlers]]
    BY <1>2 DEF HandlerPushed
  <2>3. th'[t] = [Onward(t) EXCEPT !.handlers = <<Now(t).obj>> \o th[t].handlers]
        /\ \A u \in Threads \ {t} : th'[u] = th[u]
    BY <1>1, <2>2
  <2>4. Onward(t) \in Thread BY <2>1, OnwardThread
  <2>5. th'[t].state = Onward(t).state /\ th'[t].pending = Onward(t).pending
    BY <2>3, <2>4 DEF Thread
  <2> QED BY <2>1, <2>3, <2>5, OnwardFields
<1>3. CASE HandlerPopped(t)
  <2>1. InCall(t) /\ Alive(t) BY <1>3, AtAlive DEF HandlerPopped
  <2> DEFINE s == IF Now(t).obj = "run" THEN Programs[test][Head(th[t].handlers)] ELSE <<>>
  <2>2. th' = [th EXCEPT ![t] = [After(t, s) EXCEPT !.handlers = Tail(th[t].handlers)]]
    BY <1>3 DEF HandlerPopped
  <2> HIDE DEF s
  <2>3. th'[t] = [After(t, s) EXCEPT !.handlers = Tail(th[t].handlers)]
        /\ \A u \in Threads \ {t} : th'[u] = th[u]
    BY <1>1, <2>2
  <2>4. th'[t].state = "running" /\ th'[t].pending = th[t].pending
    BY <1>1, <2>3 DEF After, Thread
  <2> QED BY <2>1, <2>3, <2>4
<1>4. CASE ThreadExits(t) \/ CancelActs(t) \/ (WaitReturns(t) /\ th[t].state = "cancelled")
  <2>1. Alive(t)
    BY <1>4 DEF ThreadExits, CancelActs, MustCancel, WaitReturns, At, Runs, Alive
  <2>2. PICK v : th' = [th EXCEPT ![t] = Unwound(t, v)]
    BY <1>4 DEF ThreadExits, CancelActs, WaitReturns
  <2>3. th'[t] = Unwound(t, v) /\ \A u \in Threads \ {t} : th'[u] = th[u] BY <1>1, <2>2
  <2>4. th'[t].state = "running" /\ th'[t].pending = th[t].pending
    BY <1>1, <2>3 DEF Unwound, Thread
  <2> QED BY <2>1, <2>3, <2>4
<1>5. CASE OnceCalled(t)
  <2>1. InCall(t) /\ Alive(t) BY <1>5, AtAlive DEF OnceCalled
  <2>2. PICK s : th' = [th EXCEPT ![t] = After(t, s)] BY <1>5 DEF OnceCalled, Goes, Onward
  <2>3. th'[t] = After(t, s) /\ \A u \in Threads \ {t} : th'[u] = th[u] BY <1>1, <2>2
  <2>4. th'[t].state = "running" /\ th'[t].pending = th[t].pending
    BY <1>1, <2>3 DEF After, Thread
  <2> QED BY <2>1, <2>3, <2>4
<1>6. CASE SpecificSet(t)
  <2>1. InCall(t) /\ Alive(t) BY <1>6, AtAlive DEF SpecificSet
  <2>2. th' = [th EXCEPT ![t] = [Onward(t) EXCEPT !.specific[Now(t).obj] = Now(t).arg]]
    BY <1>6 DEF SpecificSet
  <2>3. th'[t] = [Onward(t) EXCEPT !.specific[Now(t).obj] = Now(t).arg]
        /\ \A u \in Threads \ {t} : th'[u] = th[u]
    BY <1>1, <2>2
  <2>4. Onward(t) \in Thread BY <2>1, OnwardThread
  <2>5. th'[t].state = Onward(t).state /\ th'[t].pending = Onward(t).pending
    BY <2>3, <2>4 DEF Thread
  <2> QED BY <2>1, <2>3, <2>5, OnwardFields
<1> QED BY <1>2, <1>3, <1>4, <1>5, <1>6

LEMMA LeapingFrame ==
  ASSUME NEW t, Leaping(t)
  PROVE  UNCHANGED <<test, opened, exited>> /\ ~exited
BY DEF Leaping, Skip, ThreadCreated, ThreadJoined, HandlerPushed, HandlerPopped,
       ThreadExits, CancelActs, MustCancel, WaitReturns, OnceCalled, SpecificSet,
       At, Runs, objects, rest, flags

\* A thread that blocks does so in a call that blocks.
LEMMA BlockedStep ==
  ASSUME TypeOK, BlockedInWait, NEW t \in Threads,
         Step(t) \/ TimerRunsOut(t) \/ WokenByNothing(t)
  PROVE  BlockedInWait'
<1> SUFFICES ASSUME NEW u \in Threads, th'[u].state \in Blocks
             PROVE  BlocksIn(th'[u].state, Now(u)')
  BY DEF BlockedInWait, Blocks
<1>0. th[u].state \in Blocks => BlocksIn(th[u].state, Now(u)) BY DEF BlockedInWait
<1>r. "running" \notin Blocks /\ "joined" \notin Blocks BY DEF Blocks, LeavingWait
<1>1. CASE Returning(t) \/ Blocking(t)
  <2>1. Quiet(u) BY <1>1, QuietStep
  <2>2. th'[u].calls = th[u].calls /\ MayBlock(u, th'[u].state) BY <2>1, <1>r DEF Quiet
  <2>3. Now(u)' = Now(u) BY <2>2 DEF Now
  <2> QED BY <1>0, <2>2, <2>3 DEF MayBlock
<1>2. CASE Leaping(t)
  <2>1. th'[u] = th[u]
    <3>1. CASE Skip(t)
      <4>1. /\ th[t].state = "running" /\ th'[t] = [th[t] EXCEPT !.calls = th'[t].calls]
            /\ \A v \in Threads \ {t} : th'[v] = th[v]
        BY <3>1, SkipFields
      <4>2. th[t] \in Thread BY DEF TypeOK, ThreadsOK
      <4>3. th'[t].state = th[t].state BY <4>1, <4>2 DEF Thread
      <4> QED BY <1>r, <4>1, <4>3
    <3>2. CASE ThreadCreated(t)
      <4>1. Onward(t).state = "running" BY <3>2, CreatedFields, OnwardFields
      <4>2. PICK w \in Threads :
              /\ \A v \in Threads : v # t /\ v # w => th'[v] = th[v]
              /\ t # w => th'[t] = Onward(t)
              /\ th'[w].state = "running"
        BY ZenonT(30), <3>2, CreatedFields
      <4>3. u # w BY <1>r, <4>2
      <4>4. u # t BY <1>r, <4>1, <4>2, <4>3
      <4> QED BY <4>2, <4>3, <4>4
    <3>3. CASE ThreadJoined(t)
      <4>1. Onward(t).state = "running" BY <3>3, JoinedFields, OnwardFields
      <4>2. PICK w \in Threads :
              /\ \A v \in Threads : v # t /\ v # w => th'[v] = th[v]
              /\ th'[w].state = "joined"
        BY <3>3, JoinedFields
      <4>3. th'[t] = Onward(t) BY <3>3, JoinedFields
      <4> QED BY <1>r, <4>1, <4>2, <4>3
    <3>4. CASE ~Skip(t) /\ ~ThreadCreated(t) /\ ~ThreadJoined(t)
      BY <1>r, <1>2, <3>4, AloneFields DEF Leaping
    <3> QED BY <3>1, <3>2, <3>3, <3>4
  <2>2. Now(u)' = Now(u) BY <2>1 DEF Now
  <2> QED BY <1>0, <2>1, <2>2
<1> QED BY <1>1, <1>2, StepKinds

-----------------------------------------------------------------------------
(* Workers stay in the routines that main() made them for. *)

\* The routines of a thread, and the handlers that they push.
LEMMA FamilyFacts ==
  ASSUME NEW p, NEW w
  PROVE  /\ w \in DOMAIN p => w \in Family(p, w) /\ CallsIn(p[w]) \subseteq FamilyCalls(p, w)
         /\ \A r \in Family(p, w) : r \in DOMAIN p /\ CallsIn(p[r]) \subseteq FamilyCalls(p, w)
         /\ \A c \in FamilyCalls(p, w) : /\ \E r \in DOMAIN p : c \in CallsIn(p[r])
                                         /\ Changes(c) \subseteq AllWrites(p, w)
                                         /\ CallWrites(c) \subseteq AllWrites(p, w)
                                         /\ Kept(c) \subseteq AllKept(p, w)
                                         /\ Relies(c) \subseteq AllUses(p, w)
                                         /\ CallReads(c) \subseteq AllUses(p, w)
         /\ \A c \in FamilyCalls(p, w) :
              c.op = "push" /\ c.obj \in DOMAIN p => c.obj \in Family(p, w)
         /\ AllWrites(p, w) \subseteq AllUses(p, w) /\ AllKept(p, w) \subseteq AllWrites(p, w)
<1>1. \A r \in Family(p, w) : r \in DOMAIN p BY DEF Family
<1>2. w \in DOMAIN p => w \in Family(p, w) BY DEF Family
<1>3. \A r \in Family(p, w) : CallsIn(p[r]) \subseteq FamilyCalls(p, w) BY DEF FamilyCalls
<1>4. ASSUME NEW c \in FamilyCalls(p, w)
      PROVE  /\ \E r \in Family(p, w) : c \in CallsIn(p[r])
             /\ Changes(c) \subseteq AllWrites(p, w) /\ CallWrites(c) \subseteq AllWrites(p, w)
             /\ Kept(c) \subseteq AllKept(p, w)
             /\ Relies(c) \subseteq AllUses(p, w) /\ CallReads(c) \subseteq AllUses(p, w)
  <2>1. \E r \in Family(p, w) : c \in CallsIn(p[r]) BY DEF FamilyCalls
  <2>2. Changes(c) \subseteq AllWrites(p, w) /\ Kept(c) \subseteq AllKept(p, w)
    BY DEF AllWrites, AllKept
  <2>3. Relies(c) \subseteq AllUses(p, w) BY DEF AllUses
  <2>4. CallWrites(c) \subseteq Changes(c) /\ CallReads(c) \subseteq Relies(c)
    BY DEF Changes, Relies
  <2> QED BY <2>1, <2>2, <2>3, <2>4
<1>5. ASSUME NEW c \in FamilyCalls(p, w), c.op = "push", c.obj \in DOMAIN p
      PROVE  c.obj \in Family(p, w)
  <2>1. PICK r \in Family(p, w) : c \in CallsIn(p[r]) BY <1>4
  <2>2. ASSUME NEW R \in SUBSET DOMAIN p, w \in R,
               \A q \in R : \A d \in CallsIn(p[q]) : d.op = "push" => d.obj \in R
        PROVE  c.obj \in R
    <3>1. r \in R BY <2>1, <2>2 DEF Family
    <3> QED BY <2>1, <2>2, <3>1, <1>5
  <2> QED BY <2>2, <1>5 DEF Family
<1>6. AllWrites(p, w) \subseteq AllUses(p, w) BY DEF AllUses
<1>7. AllKept(p, w) \subseteq AllWrites(p, w) BY DEF AllWrites
<1> QED BY <1>1, <1>2, <1>3, <1>4, <1>5, <1>6, <1>7

\* Pop(TRUE) and Set("once", 2) are calls of the library, not of a test.
LEMMA LibraryCalls ==
  /\ Pop(TRUE).op = "pop" /\ Pop(TRUE).into = "nowhere" /\ Set("once", 2).op = "set"
  /\ CallWrites(Pop(TRUE)) = {} /\ CallReads(Pop(TRUE)) = {}
BY DEF Pop, Set, Call, CallWrites, CallReads, CondWaits

\* The call that a thread makes is one of those it has still to make.
LEMMA NowIn ==
  ASSUME TypeOK, NEW t \in Threads, InCall(t)
  PROVE  /\ Now(t) \in CallsIn(th[t].calls)
         /\ CallsIn(Tail(th[t].calls)) \subseteq CallsIn(th[t].calls)
         /\ \A n \in Nat : CallsIn(SubSeq(th[t].calls, n + 1, Len(th[t].calls)))
                             \subseteq CallsIn(th[t].calls)
<1>1. th[t].calls \in Seq(CallsOf(Programs[test])) /\ th[t].calls # <<>>
  BY DEF TypeOK, ThreadsOK, Thread, InCall
<1> QED BY <1>1, CallsOfParts DEF Now

\* A worker makes calls of its routines, and so it creates no threads.
LEMMA WorkerCalls ==
  ASSUME TypeOK, MainAlone(Programs[test]), WorkersInPlace, NEW w \in Workers, InCall(w)
  PROVE  /\ Now(w) \in FamilyCalls(Programs[test], w) \/ Now(w) = Pop(TRUE)
         /\ Now(w).op \notin {"create", "once"}
<1>1. w \in Threads /\ InRoutines(w) /\ MadeByMain(w) BY DEF Workers, WorkersInPlace
<1>2. Now(w) \in FamilyCalls(Programs[test], w) \/ Now(w) = Pop(TRUE)
  BY <1>1, NowIn DEF InRoutines
<1>3. PICK c \in CallsIn(Main) : c.op = "create" /\ c.obj = w BY <1>1 DEF MadeByMain
<1>4. \A d \in FamilyCalls(Programs[test], w) : d.op \notin {"create", "once"}
  BY <1>3 DEF MainAlone, Main
<1> QED BY <1>2, <1>4, LibraryCalls

\* What is left of a worker's calls is in its routines.
LEMMA RoutinesKept ==
  ASSUME NEW w, InRoutines(w), test' = test,
         CallsIn(th'[w].calls) \subseteq CallsIn(th[w].calls) \cup {Pop(TRUE)}
                                           \cup FamilyCalls(Programs[test], w),
         th'[w].handlers = th[w].handlers, th'[w].specific = th[w].specific
  PROVE  InRoutines(w)'
BY DEF InRoutines

\* A worker goes about its own routines.
LEMMA WorkerLeaps ==
  ASSUME TypeOK, MainAlone(Programs[test]), WorkersInPlace, NEW w \in Workers, Leaping(w)
  PROVE  InRoutines(w)'
<1> DEFINE p == Programs[test]
           s == th[w].calls
<1>1. w \in Threads /\ InRoutines(w) /\ Alive(w) BY DEF Workers, WorkersInPlace
<1>2. test' = test BY LeapingFrame
<1>3. th[w] \in Thread /\ th \in [Threads -> Thread] BY <1>1 DEF TypeOK, ThreadsOK
<1>4. s \in Seq(CallsOf(p)) /\ th[w].handlers \in Seq(DOMAIN p) BY <1>3 DEF Thread
<1>5. CASE Skip(w)
  <2>1. /\ th'[w] = [th[w] EXCEPT !.calls = th'[w].calls] /\ InCall(w)
        /\ th'[w].calls = Tail(s) \/ th'[w].calls = SubSeq(s, Now(w).jump + 2, Len(s))
    BY <1>1, <1>5, SkipFields
  <2>2. th'[w].handlers = th[w].handlers /\ th'[w].specific = th[w].specific
    BY <1>3, <2>1 DEF Thread
  <2>3. Now(w).jump + 1 \in Nat /\ Now(w).jump + 1 + 1 = Now(w).jump + 2 BY <1>1, <2>1, NowNames
  <2>4. CallsIn(SubSeq(s, Now(w).jump + 1 + 1, Len(s))) \subseteq CallsIn(s)
        /\ CallsIn(Tail(s)) \subseteq CallsIn(s)
    BY <1>1, <2>1, <2>3, NowIn
  <2>5. CallsIn(th'[w].calls) \subseteq CallsIn(s) BY <2>1, <2>3, <2>4
  <2> QED BY <1>1, <1>2, <2>2, <2>5, RoutinesKept
<1>6. CASE ThreadCreated(w) \/ OnceCalled(w)
  <2>1. InCall(w) /\ Now(w).op \in {"create", "once"} BY <1>6 DEF ThreadCreated, OnceCalled, At
  <2> QED BY <2>1, WorkerCalls
<1>7. CASE ThreadJoined(w)
  <2>1. th'[w] = Onward(w) /\ InCall(w) BY <1>1, <1>7, JoinedFields
  <2>2. CallsIn(Tail(s)) \subseteq CallsIn(s) BY <1>1, <2>1, NowIn
  <2> QED BY <1>1, <1>2, <2>1, <2>2, OnwardFields, RoutinesKept
<1>8. CASE HandlerPushed(w)
  <2> DEFINE r == Now(w).obj
  <2>1. InCall(w) /\ Now(w).op = "push" BY <1>8 DEF HandlerPushed, At
  <2>2. r \in DOMAIN p BY <1>1, <2>1, NowNames DEF Names
  <2>3. Now(w) \in FamilyCalls(p, w) BY <2>1, WorkerCalls, LibraryCalls
  <2>4. r \in Family(p, w) BY <2>1, <2>2, <2>3, FamilyFacts
  <2>5. th'[w] = [Onward(w) EXCEPT !.handlers = <<r>> \o th[w].handlers]
    BY <1>1, <1>3, <1>8 DEF HandlerPushed
  <2>6. Onward(w) \in Thread BY <1>1, <2>1, OnwardThread
  <2>7. /\ th'[w].handlers = <<r>> \o th[w].handlers
        /\ th'[w].calls = Onward(w).calls /\ th'[w].specific = Onward(w).specific
    BY <2>5, <2>6 DEF Thread
  <2> HIDE DEF r
  <2>8. CallsIn(<<r>> \o th[w].handlers) \subseteq {r} \cup CallsIn(th[w].handlers)
    <3>1. <<r>> \in Seq(DOMAIN p) BY <2>2, OneElement
    <3>2. CallsIn(<<r>>) = {r}
      <4>1. <<r>>[1] = r /\ DOMAIN <<r>> = {1} OBVIOUS
      <4> QED BY <4>1 DEF CallsIn
    <3> QED BY <1>4, <3>1, <3>2, CallsOfParts
  <2>9. CallsIn(Tail(s)) \subseteq CallsIn(s) BY <1>1, <2>1, NowIn
  <2> QED BY <1>1, <1>2, <2>1, <2>4, <2>7, <2>8, <2>9, OnwardFields DEF InRoutines
<1>9. CASE HandlerPopped(w)
  <2> DEFINE r == Head(th[w].handlers)
             u == IF Now(w).obj = "run" THEN p[r] ELSE <<>>
  <2>1. InCall(w) /\ th[w].handlers # <<>> BY <1>9 DEF HandlerPopped, At
  <2>2. r \in CallsIn(th[w].handlers) /\ CallsIn(Tail(th[w].handlers)) \subseteq CallsIn(th[w].handlers)
    BY <1>4, <2>1, CallsOfParts
  <2>3. r \in Family(p, w) /\ r \in DOMAIN p BY <1>1, <2>2, FamilyFacts DEF InRoutines
  <2>4. CallsIn(p[r]) \subseteq FamilyCalls(p, w) /\ p[r] \in Seq(CallsOf(p))
    BY <2>3, FamilyFacts, RoutineCalls
  <2>5. u \in Seq(CallsOf(p)) /\ CallsIn(u) \subseteq FamilyCalls(p, w)
    <3>1. <<>> \in Seq(CallsOf(p)) /\ CallsIn(<<>>) = {} BY DEF CallsIn
    <3> QED BY <2>4, <3>1
  <2>6. th'[w] = [After(w, u) EXCEPT !.handlers = Tail(th[w].handlers)]
    BY <1>1, <1>3, <1>9 DEF HandlerPopped
  <2> HIDE DEF u
  <2>7. /\ th'[w].handlers = Tail(th[w].handlers) /\ th'[w].calls = u \o Tail(s)
        /\ th'[w].specific = th[w].specific
    BY <1>3, <2>6 DEF After, Thread
  <2>8. Tail(s) \in Seq(CallsOf(p)) BY <1>1, <2>1, NowNames
  <2>9. CallsIn(u \o Tail(s)) \subseteq CallsIn(u) \cup CallsIn(Tail(s))
    BY <2>5, <2>8, CallsOfParts
  <2>10. CallsIn(Tail(s)) \subseteq CallsIn(s) BY <1>1, <2>1, NowIn
  <2> QED BY <1>1, <1>2, <2>2, <2>5, <2>7, <2>9, <2>10 DEF InRoutines
<1>10. CASE ThreadExits(w) \/ CancelActs(w) \/ (WaitReturns(w) /\ th[w].state = "cancelled")
  <2>1. PICK v : th' = [th EXCEPT ![w] = Unwound(w, v)]
    BY <1>10 DEF ThreadExits, CancelActs, WaitReturns
  <2>2. th'[w] = Unwound(w, v) BY <1>1, <1>3, <2>1
  <2> DEFINE e == Pop(TRUE)
             u == IF bug = "handlers_skipped" THEN <<>> ELSE [i \in DOMAIN th[w].handlers |-> e]
  <2>3. Unwound(w, v) = [th[w] EXCEPT !.state = "running", !.enabled = FALSE, !.value = v,
                           !.calls = u]
    BY DEF Unwound
  <2> HIDE DEF e
  <2>4. CallsIn(u) \subseteq {e}
    <3>1. CallsIn([i \in DOMAIN th[w].handlers |-> e]) \subseteq {e} BY DEF CallsIn
    <3>2. CallsIn(<<>>) = {} BY DEF CallsIn
    <3> QED BY <3>1, <3>2
  <2> HIDE DEF u
  <2>5. /\ th'[w].calls = u /\ th'[w].handlers = th[w].handlers
        /\ th'[w].specific = th[w].specific
    BY <1>3, <2>2, <2>3 DEF Thread
  <2> QED BY <1>1, <1>2, <2>4, <2>5, RoutinesKept DEF e
<1>11. CASE SpecificSet(w)
  <2> DEFINE x == Now(w).arg
             k == Now(w).obj
  <2>1. InCall(w) /\ Now(w).op = "setspecific" BY <1>11 DEF SpecificSet, At
  <2>2. k \in Keys BY <1>1, <2>1, NowNames DEF Names
  <2>3. Now(w) \in FamilyCalls(p, w) BY <2>1, WorkerCalls, LibraryCalls
  <2>4. x \in AllKept(p, w) \cup {"nowhere"}
    <3>1. Kept(Now(w)) = {x} \ {"nowhere"} BY <2>1 DEF Kept
    <3> QED BY <2>3, <3>1, FamilyFacts
  <2>5. th'[w] = [Onward(w) EXCEPT !.specific[k] = x] BY <1>1, <1>3, <1>11 DEF SpecificSet
  <2>6. Onward(w) \in Thread BY <1>1, <2>1, OnwardThread
  <2> HIDE DEF x, k
  <2>7. /\ th'[w].handlers = Onward(w).handlers /\ th'[w].calls = Onward(w).calls
        /\ th'[w].specific = [Onward(w).specific EXCEPT ![k] = x]
        /\ Onward(w).specific \in [Keys -> Variables]
    BY <2>5, <2>6 DEF Thread
  <2>8. CallsIn(Tail(s)) \subseteq CallsIn(s) BY <1>1, <2>1, NowIn
  <2>9. /\ Onward(w).calls = Tail(s) /\ Onward(w).handlers = th[w].handlers
        /\ Onward(w).specific = th[w].specific
    BY <1>1, <2>1, OnwardFields
  <2>10. \A j \in Keys : th'[w].specific[j] \in AllKept(p, w) \cup {"nowhere"}
    BY <1>1, <2>4, <2>7, <2>9 DEF InRoutines
  <2>11. CallsIn(th'[w].calls) \subseteq FamilyCalls(p, w) \cup {Pop(TRUE)}
         /\ CallsIn(th'[w].handlers) \subseteq Family(p, w)
    BY <1>1, <2>7, <2>8, <2>9 DEF InRoutines
  <2> QED BY <1>2, <2>10, <2>11 DEF InRoutines
<1> QED BY <1>5, <1>6, <1>7, <1>8, <1>9, <1>10, <1>11 DEF Leaping

\* What a leaping thread does to the others: it creates or joins one.
LEMMA LeapElse ==
  ASSUME TypeOK, NEW t \in Threads, Leaping(t), NEW u \in Threads, u # t
  PROVE  \/ th'[u] = th[u]
         \/ /\ ThreadCreated(t) /\ InCall(t) /\ Now(t).op = "create" /\ u = Now(t).obj
            /\ u \in DOMAIN Programs[test]
            /\ th'[u].calls = Programs[test][u] /\ th'[u].handlers = <<>>
            /\ \A k \in Keys : th'[u].specific[k] = "nowhere"
         \/ /\ ThreadJoined(t) /\ th'[u].state = "joined" /\ th'[u].calls = th[u].calls
            /\ th'[u].handlers = th[u].handlers /\ th'[u].pending = th[u].pending
<1>1. CASE Skip(t) BY <1>1, SkipFields
<1>2. CASE ThreadCreated(t)
  <2>1. InCall(t) /\ Now(t).op = "create" BY <1>2, CreatedFields
  <2>2. PICK w \in Threads :
          /\ w = Now(t).obj /\ w \in DOMAIN Programs[test]
          /\ \A v \in Threads : v # t /\ v # w => th'[v] = th[v]
          /\ th'[w].calls = Programs[test][w] /\ th'[w].handlers = <<>>
          /\ \A k \in Keys : th'[w].specific[k] = "nowhere"
    BY ZenonT(30), <1>2, CreatedFields
  <2>3. CASE u = w BY <1>2, <2>1, <2>2, <2>3
  <2>4. CASE u # w BY <2>2, <2>4
  <2> QED BY <2>3, <2>4
<1>3. CASE ThreadJoined(t)
  <2>1. PICK w \in Threads :
          /\ \A v \in Threads : v # t /\ v # w => th'[v] = th[v]
          /\ th'[w].state = "joined" /\ th'[w].calls = th[w].calls
          /\ th'[w].handlers = th[w].handlers /\ th'[w].pending = th[w].pending
    BY <1>3, JoinedFields
  <2> QED BY <1>3, <2>1
<1>4. CASE ~Skip(t) /\ ~ThreadCreated(t) /\ ~ThreadJoined(t)
  BY <1>4, AloneFields DEF Leaping
<1> QED BY <1>1, <1>2, <1>3, <1>4

\* Only threads that run leap.
LEMMA LeaperAlive == ASSUME TypeOK, NEW t \in Threads, Leaping(t) PROVE Alive(t)
BY SkipFields, CreatedFields, JoinedFields, AloneFields DEF Leaping, Alive

\* main() alone creates threads.
LEMMA MainCreates ==
  ASSUME TypeOK, MainAlone(Programs[test]), WorkersInPlace, NEW t \in Threads, ThreadCreated(t)
  PROVE  t = "main"
<1>1. Alive(t) /\ InCall(t) /\ Now(t).op = "create" BY CreatedFields DEF Alive
<1> QED BY <1>1, WorkerCalls DEF Workers

\* A worker has been one before, unless main() creates it.
LEMMA WorkersGrow ==
  ASSUME TypeOK, MainAlone(Programs[test]), WorkersInPlace, NEW t \in Threads,
         Step(t) \/ TimerRunsOut(t) \/ WokenByNothing(t), NEW w \in Workers'
  PROVE  \/ /\ t = "main" /\ ThreadCreated(t) /\ InCall(t) /\ Now(t).op = "create"
            /\ w = Now(t).obj
         \/ w \in Workers /\ Quiet(w)
         \/ w \in Workers /\ Leaping(t) /\ (t = w \/ th'[w] = th[w])
<1>1. w \in Threads /\ w # "main" /\ th'[w].state \notin {"unborn", "joined"}
  BY DEF Workers, Alive
<1>2. CASE Returning(t) \/ Blocking(t)
  <2>1. Quiet(w) BY <1>1, <1>2, QuietStep
  <2> QED BY <1>1, <2>1 DEF Quiet, Workers, Alive
<1>3. CASE Leaping(t) /\ t = w BY <1>1, <1>3, LeaperAlive DEF Workers
<1>4. CASE Leaping(t) /\ t # w BY <1>1, <1>4, LeapElse, MainCreates DEF Workers, Alive
<1> QED BY <1>2, <1>3, <1>4, StepKinds

-----------------------------------------------------------------------------
(* main() goes through its text. *)

\* Where main() is.
LEMMA MainFacts ==
  ASSUME TypeOK, MainInPlace
  PROVE  /\ Len(Main) \in Nat /\ DOMAIN Main = 1..Len(Main)
         /\ Len(th["main"].calls) \in Nat /\ Done \in Nat /\ Done <= Len(Main)
         /\ Len(Main) = Done + Len(th["main"].calls)
         /\ InCall("main") => /\ Done + 1 \in DOMAIN Main /\ Now("main") = Main[Done + 1]
                              /\ Now("main") \in CallsIn(Main)
                              /\ Len(th["main"].calls) >= 1
         /\ ~InCall("main") => Done = Len(Main)
<1> DEFINE s == th["main"].calls
<1>1. s \in Seq(CallsOf(Programs[test])) BY MainIsThread DEF TypeOK, ThreadsOK, Thread
<1>2. test \in Tests /\ "main" \in DOMAIN Programs[test]
  BY ProgramsAssumption DEF TypeOK
<1>3. Main \in Seq(CallsIn(Main)) BY <1>2, RoutineCalls DEF Main
<1>4. Len(Main) \in Nat /\ DOMAIN Main = 1..Len(Main) BY <1>3, LenProperties
<1>5. Len(s) \in Nat /\ DOMAIN s = 1..Len(s) BY <1>1, LenProperties
<1>6. Len(s) <= Len(Main) BY DEF MainInPlace
<1>7. Done = Len(Main) - Len(s) BY DEF Done
<1>8. ASSUME InCall("main")
      PROVE  /\ Done + 1 \in DOMAIN Main /\ Now("main") = Main[Done + 1]
             /\ Now("main") \in CallsIn(Main) /\ Len(s) >= 1
  <2>1. s # <<>> BY <1>8 DEF InCall
  <2>2. Len(s) >= 1 /\ Head(s) = s[1] BY <1>1, <1>5, <2>1, EmptySeq
  <2>3. 1 \in DOMAIN s BY <1>5, <2>2
  <2>4. s[1] = Main[Done + 1]
    <3>1. \A k \in DOMAIN s : s[k] = Main[Done + k] BY DEF MainInPlace
    <3> QED BY <2>3, <3>1
  <2>5. Done + 1 \in DOMAIN Main
    <3> DEFINE m == Len(Main)
               n == Len(s)
               d == Done
               D == DOMAIN Main
    <3>1. m \in Nat /\ n \in Nat /\ n >= 1 /\ n <= m /\ d = m - n /\ D = 1..m
      BY <1>4, <1>5, <1>6, <1>7, <2>2
    <3> HIDE DEF m, n, d, D
    <3>2. d + 1 \in D BY <3>1
    <3> QED BY <3>2 DEF d, D
  <2>6. Main[Done + 1] \in CallsIn(Main) BY <2>5 DEF CallsIn
  <2> QED BY <2>2, <2>4, <2>5, <2>6 DEF Now
<1>9. ASSUME ~InCall("main") PROVE Done = Len(Main)
  <2>1. Len(s) = 0 BY <1>9 DEF InCall
  <2> QED BY <1>4, <1>7, <2>1
<1>10. Done \in Nat /\ Done <= Len(Main) /\ Len(Main) = Done + Len(s)
  <2> DEFINE m == Len(Main)
             n == Len(s)
             d == Done
  <2>1. m \in Nat /\ n \in Nat /\ n <= m /\ d = m - n BY <1>4, <1>5, <1>6, <1>7
  <2> HIDE DEF m, n, d
  <2>2. d \in Nat /\ d <= m /\ m = d + n BY <2>1
  <2> QED BY <2>2 DEF m, n, d
<1> QED BY <1>4, <1>5, <1>8, <1>9, <1>10

\* main() leaves n calls behind.
MovesOn(n) ==
  /\ n \in 0..Len(th["main"].calls)
  /\ DOMAIN th'["main"].calls = 1 .. Len(th["main"].calls) - n
  /\ Len(th'["main"].calls) = Len(th["main"].calls) - n
  /\ \A k \in 1 .. Len(th["main"].calls) - n : th'["main"].calls[k] = th["main"].calls[n + k]

\* It makes one call, jumps over some, or leaves them all to end at once.
MayMove(n) ==
  \/ n = 0
  \/ /\ n = 1 /\ InCall("main") /\ Now("main").op # "skip"
     /\ Now("main").op = "join" => th'[Now("main").obj].state = "joined"
  \/ /\ InCall("main") /\ Now("main").op = "skip"
     /\ n \in {1, Now("main").jump + 1} \/ (n = Len(th["main"].calls) /\ n <= Now("main").jump + 1)
  \/ /\ n = Len(th["main"].calls)
     /\ \/ th["main"].pending \/ th["main"].state = "cancelled"
        \/ InCall("main") /\ Now("main").op = "exit"

LEMMA MovesOnFacts ==
  ASSUME TypeOK
  PROVE  /\ th'["main"].calls = th["main"].calls => MovesOn(0)
         /\ InCall("main") /\ th'["main"].calls = Tail(th["main"].calls) => MovesOn(1)
         /\ th'["main"].calls = <<>> => MovesOn(Len(th["main"].calls))
         /\ \A j \in Nat :
              /\ InCall("main")
              /\ th'["main"].calls = SubSeq(th["main"].calls, j + 2, Len(th["main"].calls))
              => \E n : MovesOn(n) /\ \/ n = j + 1
                                      \/ n = Len(th["main"].calls) /\ n <= j + 1
<1> DEFINE s == th["main"].calls
           u == th'["main"].calls
           S == CallsOf(Programs[test])
<1>1. s \in Seq(S) BY MainIsThread DEF TypeOK, ThreadsOK, Thread
<1>2. Len(s) \in Nat /\ DOMAIN s = 1..Len(s) BY <1>1, LenProperties
<1>3. ASSUME u = s PROVE MovesOn(0)
  <2>1. \A k \in 1 .. Len(s) - 0 : 0 + k = k BY <1>2
  <2> QED BY <1>2, <1>3, <2>1 DEF MovesOn
<1>4. ASSUME InCall("main"), u = Tail(s) PROVE MovesOn(1)
  <2>1. s # <<>> BY <1>4 DEF InCall
  <2>2. /\ Tail(s) \in Seq(S) /\ Len(Tail(s)) = Len(s) - 1
        /\ \A i \in 1 .. Len(Tail(s)) : Tail(s)[i] = s[i + 1]
    BY <1>1, <2>1, HeadTailProperties
  <2>3. Len(s) >= 1 BY <1>1, <1>2, <2>1, EmptySeq
  <2>4. DOMAIN Tail(s) = 1..Len(Tail(s)) BY <2>2, LenProperties
  <2>5. \A k \in 1 .. Len(s) - 1 : k + 1 = 1 + k BY <1>2
  <2> QED BY <1>2, <1>4, <2>2, <2>3, <2>4, <2>5 DEF MovesOn
<1>5. ASSUME u = <<>> PROVE MovesOn(Len(s))
  <2>1. Len(u) = 0 /\ DOMAIN u = 1..0 BY <1>5
  <2> QED BY <1>2, <2>1 DEF MovesOn
<1>6. ASSUME NEW j \in Nat, InCall("main"), u = SubSeq(s, j + 2, Len(s))
      PROVE  \E n : MovesOn(n) /\ (n = j + 1 \/ (n = Len(s) /\ n <= j + 1))
  <2> HIDE DEF u, s
  <2>1. \A i \in j + 2 .. Len(s) : s[i] \in S BY <1>1, <1>2, ElementOfSeq
  <2>a. j + 2 \in Int /\ Len(s) \in Int BY <1>2
  <2>2. /\ u \in Seq(S) /\ Len(u) = IF j + 2 <= Len(s) THEN Len(s) - (j + 2) + 1 ELSE 0
        /\ \A i \in 1 .. Len(s) - (j + 2) + 1 : u[i] = s[j + 2 + i - 1]
    <3>1. u = SubSeq(s, j + 2, Len(s)) BY <1>6 DEF u, s
    <3> QED BY <2>a, <2>1, <3>1, SubSeqProperties
  <2>3. DOMAIN u = 1..Len(u) BY <2>2, LenProperties
  <2>4. CASE j + 2 <= Len(s)
    <3>1. Len(u) = Len(s) - (j + 1) /\ j + 1 \in 0..Len(s) BY <1>2, <2>2, <2>4
    <3>2. \A k \in 1 .. Len(s) - (j + 1) : u[k] = s[j + 1 + k]
      <4> TAKE k \in 1 .. Len(s) - (j + 1)
      <4>1. k \in 1 .. Len(s) - (j + 2) + 1 /\ j + 2 + k - 1 = j + 1 + k BY <1>2, <2>4
      <4> QED BY <2>2, <4>1
    <3>3. MovesOn(j + 1) BY <2>3, <3>1, <3>2 DEF MovesOn, u, s
    <3> QED BY <3>3
  <2>5. CASE ~(j + 2 <= Len(s))
    <3>1. Len(u) = 0 BY <2>2, <2>5
    <3>2. u = <<>> BY <2>2, <3>1, EmptySeq
    <3>3. MovesOn(Len(s)) BY <1>5, <3>2 DEF u, s
    <3>4. Len(s) <= j + 1 BY <1>2, <2>5
    <3> QED BY <3>3, <3>4
  <2> QED BY <2>4, <2>5
<1> QED BY <1>3, <1>4, <1>5, <1>6

\* Of the calls that leap, main() makes only some.
LEMMA MainMoves ==
  ASSUME TypeOK, BlockedInWait, MainAlone(Programs[test]), MainInPlace, WorkersInPlace,
         NEW t \in Threads, Step(t) \/ TimerRunsOut(t) \/ WokenByNothing(t)
  PROVE  th'["main"].handlers = <<>> /\ \E n : MovesOn(n) /\ MayMove(n)
<1> DEFINE s == th["main"].calls
<1>1. th["main"] \in Thread /\ th["main"].handlers = <<>> /\ th \in [Threads -> Thread]
  BY MainIsThread DEF TypeOK, ThreadsOK, MainInPlace
<1>2. CASE th'["main"].calls = s /\ th'["main"].handlers = <<>>
  BY <1>2, MovesOnFacts DEF MayMove
<1>3. ASSUME InCall("main")
      PROVE Now("main").op \notin {"push", "pop", "once"}
            /\ (Now("main").op = "create" => Now("main").obj # "main")
  BY <1>3, MainFacts DEF MainAlone, Main
<1>4. CASE /\ InCall("main") /\ th'["main"].calls = Tail(s) /\ th'["main"].handlers = <<>>
           /\ Now("main").op \notin {"skip", "join"}
  BY <1>4, MovesOnFacts DEF MayMove
<1>5. CASE Returning(t) \/ Blocking(t)
  <2>1. Quiet("main") BY <1>5, QuietStep, MainIsThread
  <2>2. th'["main"].handlers = <<>> BY <1>1, <2>1 DEF Quiet
  <2>3. CASE s # <<>> /\ th'["main"].calls = Tail(s)
             /\ (th["main"].state \in Blocks \/ Now("main").op \notin Leaps)
    <3>1. InCall("main") BY <2>3 DEF InCall
    <3>2. ASSUME th["main"].state \in Blocks
          PROVE  Now("main").op \in CondWaits \cup {"barrier_wait"}
      BY <3>2, MainIsThread DEF BlockedInWait, BlocksIn
    <3>3. Now("main").op \notin {"skip", "join"} BY <2>3, <3>2 DEF CondWaits, Leaps
    <3> QED BY <1>4, <2>2, <2>3, <3>1, <3>3
  <2> QED BY <1>2, <2>1, <2>2, <2>3 DEF Quiet
<1>6. CASE Leaping(t) /\ t # "main"
  <2>1. \/ th'["main"] = th["main"]
        \/ ThreadCreated(t)
        \/ th'["main"].calls = s /\ th'["main"].handlers = th["main"].handlers
    BY <1>6, LeapElse, MainIsThread
  <2>2. ~ThreadCreated(t) BY <1>6, MainCreates
  <2> QED BY <1>1, <1>2, <2>1, <2>2
<1>7. CASE Leaping(t) /\ t = "main"
  <2>1. CASE Skip(t)
    <3>1. /\ th'["main"] = [th["main"] EXCEPT !.calls = th'["main"].calls]
          /\ InCall("main") /\ Now("main").op = "skip"
          /\ \/ th'["main"].calls = Tail(s)
             \/ th'["main"].calls = SubSeq(s, Now("main").jump + 2, Len(s))
      BY <1>7, <2>1, SkipFields
    <3>2. th'["main"].handlers = <<>> BY <1>1, <3>1 DEF Thread
    <3>3. CASE th'["main"].calls = Tail(s) BY <3>1, <3>2, <3>3, MovesOnFacts DEF MayMove
    <3>4. CASE th'["main"].calls = SubSeq(s, Now("main").jump + 2, Len(s))
      <4>1. Now("main").jump \in Nat BY <3>1, NowNames, MainIsThread
      <4>2. PICK n : MovesOn(n) /\ (n = Now("main").jump + 1 \/ (n = Len(s) /\ n <= Now("main").jump + 1))
        BY <3>1, <3>4, <4>1, MovesOnFacts
      <4>3. MayMove(n) BY <3>1, <4>2 DEF MayMove
      <4> QED BY <3>2, <4>2, <4>3
    <3> QED BY <3>1, <3>3, <3>4
  <2>2. CASE ThreadCreated(t)
    <3>1. InCall("main") /\ Now("main").op = "create" BY <1>7, <2>2, CreatedFields
    <3>2. Now("main").obj # "main" BY <1>3, <3>1
    <3>3. th'["main"] = Onward("main")
      <4>1. PICK w \in Threads : w = Now(t).obj /\ (t # w => th'[t] = Onward(t))
        BY <2>2, CreatedFields
      <4> QED BY <1>7, <3>2, <4>1
    <3> QED BY <1>1, <1>4, <3>1, <3>3, OnwardFields, MainIsThread
  <2>3. CASE ThreadJoined(t)
    <3>1. InCall("main") /\ Now("main").op = "join" /\ th'["main"] = Onward("main")
          /\ th'[Now("main").obj].state = "joined"
      BY <1>7, <2>3, JoinedFields
    <3>2. MovesOn(1) BY <3>1, OnwardFields, MainIsThread, MovesOnFacts
    <3>3. MayMove(1) BY <3>1 DEF MayMove
    <3> QED BY <1>1, <3>1, <3>2, <3>3, OnwardFields, MainIsThread
  <2>4. CASE HandlerPushed(t) \/ HandlerPopped(t) \/ OnceCalled(t)
    <3>1. InCall("main") /\ Now("main").op \in {"push", "pop", "once"}
      BY <1>7, <2>4 DEF HandlerPushed, HandlerPopped, OnceCalled, At
    <3> QED BY <1>3, <3>1
  <2>5. CASE ThreadExits(t) \/ CancelActs(t) \/ (WaitReturns(t) /\ th[t].state = "cancelled")
    <3>1. \/ th["main"].pending \/ th["main"].state = "cancelled"
          \/ InCall("main") /\ Now("main").op = "exit"
      BY <1>7, <2>5 DEF ThreadExits, CancelActs, MustCancel, At
    <3>2. PICK v : th' = [th EXCEPT !["main"] = Unwound("main", v)]
      BY <1>7, <2>5 DEF ThreadExits, CancelActs, WaitReturns
    <3>3. th'["main"] = Unwound("main", v) BY <1>1, <3>2, MainIsThread
    <3>4. th'["main"].handlers = <<>> BY <1>1, <3>3 DEF Unwound, Thread
    <3>5. th'["main"].calls = <<>>
      <4> DEFINE e == Pop(TRUE)
                 u == IF bug = "handlers_skipped" THEN <<>>
                      ELSE [i \in DOMAIN th["main"].handlers |-> e]
      <4>1. Unwound("main", v) = [th["main"] EXCEPT !.state = "running", !.enabled = FALSE,
                                    !.value = v, !.calls = u]
        BY DEF Unwound
      <4> HIDE DEF e
      <4>2. u = <<>>
        <5>1. DOMAIN th["main"].handlers = {} BY <1>1
        <5>2. [i \in DOMAIN th["main"].handlers |-> e] = <<>> BY <5>1
        <5> QED BY <5>2
      <4> HIDE DEF u
      <4>3. th'["main"].calls = u BY <1>1, <3>3, <4>1 DEF Thread
      <4> QED BY <4>2, <4>3
    <3>6. MovesOn(Len(s)) BY <3>5, MovesOnFacts
    <3>7. MayMove(Len(s)) BY <3>1 DEF MayMove
    <3> QED BY <3>4, <3>6, <3>7
  <2>6. CASE SpecificSet(t)
    <3>1. InCall("main") /\ Now("main").op = "setspecific"
      BY <1>7, <2>6 DEF SpecificSet, At
    <3>2. th'["main"] = [Onward("main") EXCEPT !.specific[Now("main").obj] = Now("main").arg]
      BY <1>1, <1>7, <2>6, MainIsThread DEF SpecificSet
    <3>3. Onward("main") \in Thread BY <3>1, OnwardThread, MainIsThread
    <3>4. th'["main"].calls = Onward("main").calls /\ th'["main"].handlers = Onward("main").handlers
      BY <3>2, <3>3 DEF Thread
    <3> QED BY <1>1, <1>4, <3>1, <3>4, OnwardFields, MainIsThread
  <2> QED BY <1>7, <2>1, <2>2, <2>3, <2>4, <2>5, <2>6 DEF Leaping
<1> QED BY <1>5, <1>6, <1>7, StepKinds

\* main() keeps the end of its text before it, and workers their routines.
LEMMA InPlaceStep ==
  ASSUME TypeOK, BlockedInWait, MainAlone(Programs[test]), MainInPlace, WorkersInPlace,
         NEW t \in Threads, Step(t) \/ TimerRunsOut(t) \/ WokenByNothing(t)
  PROVE  /\ test' = test /\ Main' = Main
         /\ MainInPlace' /\ WorkersInPlace'
         /\ \E n : MovesOn(n) /\ MayMove(n) /\ Done' = Done + n
<1> DEFINE p == Programs[test]
<1>1. test' = test BY QuietStep, LeapingFrame, StepKinds
<1>2. Main' = Main BY <1>1 DEF Main
<1>3. PICK n : MovesOn(n) /\ MayMove(n) BY MainMoves
<1>4. /\ Len(Main) \in Nat /\ Len(th["main"].calls) \in Nat /\ Done = Len(Main) - Len(th["main"].calls)
      /\ Len(th["main"].calls) <= Len(Main)
      /\ DOMAIN th["main"].calls = 1..Len(th["main"].calls)
  <2>1. th["main"].calls \in Seq(CallsOf(p)) BY MainIsThread DEF TypeOK, ThreadsOK, Thread
  <2> QED BY <2>1, LenProperties, MainFacts DEF Done, MainInPlace
<1>5. n \in 0..Len(th["main"].calls) /\ Len(th'["main"].calls) = Len(th["main"].calls) - n
  BY <1>3 DEF MovesOn
<1>6. Done' = Done + n
  <2> DEFINE m == Len(Main)
             l == Len(th["main"].calls)
  <2>1. Done' = m - (l - n) BY <1>2, <1>5 DEF Done
  <2>2. Done = m - l /\ m \in Nat /\ l \in Nat /\ n \in Int BY <1>4, <1>5
  <2> HIDE DEF m, l
  <2> QED BY <2>1, <2>2
<1>7. MainInPlace'
  <2>1. th'["main"].handlers = <<>> BY MainMoves
  <2>2. Len(th'["main"].calls) <= Len(Main) BY <1>4, <1>5
  <2>3. ASSUME NEW k \in DOMAIN th'["main"].calls
        PROVE  th'["main"].calls[k] = Main[Done + n + k]
    <3>1. k \in 1 .. Len(th["main"].calls) - n /\ th'["main"].calls[k] = th["main"].calls[n + k]
      BY <1>3 DEF MovesOn
    <3>2. n + k \in DOMAIN th["main"].calls BY <1>4, <1>5, <3>1
    <3>3. th["main"].calls[n + k] = Main[Done + (n + k)] BY <3>2 DEF MainInPlace
    <3>4. Done + (n + k) = Done + n + k
      <4> DEFINE d == Done
      <4>1. d \in Int /\ n \in Int /\ k \in Int BY <1>4, <1>5, <3>1
      <4> HIDE DEF d
      <4>2. d + (n + k) = d + n + k BY <4>1
      <4> QED BY <4>2 DEF d
    <3> QED BY <3>1, <3>3, <3>4
  <2> QED BY <1>2, <1>6, <2>1, <2>2, <2>3 DEF MainInPlace
<1>8. ASSUME NEW w \in Workers' PROVE MadeByMain(w)' /\ InRoutines(w)'
  <2>1. CASE /\ t = "main" /\ ThreadCreated(t) /\ InCall(t) /\ Now(t).op = "create"
             /\ w = Now(t).obj
    <3>1. Now("main") \in CallsIn(Main) BY <2>1, MainFacts
    <3>2. MadeByMain(w)' BY <1>2, <2>1, <3>1 DEF MadeByMain
    <3>3. PICK v \in Threads :
            /\ v = Now(t).obj /\ v \in DOMAIN p
            /\ th'[v].calls = p[v] /\ th'[v].handlers = <<>>
            /\ \A k \in Keys : th'[v].specific[k] = "nowhere"
      BY ZenonT(30), <2>1, CreatedFields
    <3>4. CallsIn(p[w]) \subseteq FamilyCalls(p, w) BY <2>1, <3>3, FamilyFacts
    <3>5. CallsIn(<<>>) = {} BY DEF CallsIn
    <3>6. CallsIn(th'[w].calls) \subseteq FamilyCalls(p, w) /\ CallsIn(th'[w].handlers) = {}
          /\ \A k \in Keys : th'[w].specific[k] = "nowhere"
      BY <2>1, <3>3, <3>4, <3>5
    <3> QED BY <1>1, <3>2, <3>6 DEF InRoutines
  <2>2. CASE w \in Workers
    <3>1. MadeByMain(w) /\ InRoutines(w) /\ w \in Threads BY <2>2 DEF WorkersInPlace, Workers
    <3>2. MadeByMain(w)' BY <1>2, <3>1 DEF MadeByMain
    <3>3. CASE Quiet(w)
      <4>1. th'[w].handlers = th[w].handlers /\ th'[w].specific = th[w].specific
            /\ (th'[w].calls = th[w].calls \/ (InCall(w) /\ th'[w].calls = Tail(th[w].calls)))
        BY <3>3 DEF Quiet, InCall
      <4>2. CallsIn(th'[w].calls) \subseteq CallsIn(th[w].calls) BY <3>1, <4>1, NowIn
      <4> QED BY <1>1, <3>1, <3>2, <4>1, <4>2, RoutinesKept
    <3>4. CASE Leaping(t) /\ t = w BY <2>2, <3>2, <3>4, WorkerLeaps
    <3>5. CASE th'[w] = th[w] BY <1>1, <3>1, <3>2, <3>5, RoutinesKept
    <3>6. CASE /\ t = "main" /\ ThreadCreated(t) /\ InCall(t) /\ Now(t).op = "create"
               /\ w = Now(t).obj
      BY <2>1, <3>6
    <3> QED BY <3>3, <3>4, <3>5, <3>6, WorkersGrow
  <2> QED BY <2>1, <2>2, WorkersGrow
<1>9. WorkersInPlace' BY <1>8 DEF WorkersInPlace
<1> QED BY <1>1, <1>2, <1>3, <1>6, <1>7, <1>9

-----------------------------------------------------------------------------
(* main() joins its workers before it comes to what they must not meet. *)

\* main() may end before it has come to the end of its text.
Stopping ==
  \/ th["main"].pending \/ th["main"].state = "cancelled"
  \/ InCall("main") /\ Now("main").op = "exit"

\* A join that main() has before it stays there until it is made, unless main()
\* jumps over it or ends.
LEMMA JoinStays ==
  ASSUME TypeOK, MainInPlace, NEW n, MovesOn(n), MayMove(n), NEW w,
         NEW j \in (Done + 1)..Len(Main), IsJoin(Main[j], w), th'[w].state # "joined"
  PROVE  \/ j > Done + n
         \/ /\ j > Done + 1 /\ Jumps(Main, Done + 1, j)
            /\ \A k \in (Done + n + 1)..Len(Main) : ~Jumps(Main, Done + 1, k)
         \/ Done + n = Len(Main) /\ Stopping
<1> DEFINE d == Done
           m == Len(Main)
           l == Len(th["main"].calls)
           c == Now("main")
<1>1. m \in Nat /\ d \in Nat /\ l \in Nat /\ m = d + l BY MainFacts
<1>2. n \in 0..l BY DEF MovesOn
<1>3. InCall("main") => c = Main[d + 1] /\ c.jump \in Nat
  BY MainFacts, MainIsThread, NowNames
<1>4. Main[j].op = "join" /\ Main[j].obj = w /\ j \in (d + 1)..m BY DEF IsJoin
<1>5. MayMove(n) <=> \/ n = 0
                     \/ /\ n = 1 /\ InCall("main") /\ c.op # "skip"
                        /\ c.op = "join" => th'[c.obj].state = "joined"
                     \/ /\ InCall("main") /\ c.op = "skip"
                        /\ n \in {1, c.jump + 1} \/ (n = l /\ n <= c.jump + 1)
                     \/ n = l /\ Stopping
  BY DEF MayMove, Stopping
<1>6. \A k : Jumps(Main, d + 1, k) <=> Main[d + 1].op = "skip" /\ d + 1 + Main[d + 1].jump >= k
  BY DEF Jumps
<1> HIDE DEF d, m, l, c
<1>7. CASE n = 0 BY <1>1, <1>4, <1>7 DEF d, m
<1>8. CASE n = 1 /\ InCall("main") /\ c.op # "skip" /\ (c.op = "join" => th'[c.obj].state = "joined")
  <2>1. j # d + 1 BY <1>3, <1>4, <1>8
  <2>2. j > d + n BY <1>1, <1>4, <1>8, <2>1
  <2> QED BY <2>2 DEF d
<1>9. CASE InCall("main") /\ c.op = "skip"
           /\ (n \in {1, c.jump + 1} \/ (n = l /\ n <= c.jump + 1))
  <2>1. j # d + 1 BY <1>3, <1>4, <1>9
  <2>2. j > d + 1 /\ j \in Int BY <1>1, <1>4, <2>1
  <2>3. CASE n = 1 BY <2>2, <2>3 DEF d
  <2>4. CASE n = c.jump + 1
    <3>1. CASE j > d + n BY <3>1 DEF d
    <3>2. CASE ~(j > d + n)
      <4>1. Jumps(Main, d + 1, j)
        <5>1. Main[d + 1].op = "skip" /\ Main[d + 1].jump + 1 = n /\ Main[d + 1].jump \in Int
          BY <1>3, <1>9, <2>4
        <5>2. d + 1 + Main[d + 1].jump >= j BY <1>1, <2>2, <3>2, <5>1
        <5> QED BY <1>6, <5>1, <5>2
      <4>2. \A k \in (d + n + 1)..m : ~Jumps(Main, d + 1, k)
        <5>1. Main[d + 1].jump + 1 = n /\ n \in Int BY <1>1, <1>2, <1>3, <1>9, <2>4
        <5> SUFFICES ASSUME NEW k \in (d + n + 1)..m
                     PROVE  ~(d + 1 + Main[d + 1].jump >= k)
          BY <1>6
        <5>2. Main[d + 1].jump \in Int BY <1>3, <1>9
        <5> QED BY <1>1, <5>1, <5>2
      <4> QED BY <2>2, <4>1, <4>2 DEF d, m
    <3> QED BY <3>1, <3>2
  <2>5. CASE n = l /\ n <= c.jump + 1
    <3>1. Jumps(Main, d + 1, j) BY <1>1, <1>2, <1>3, <1>4, <1>6, <1>9, <2>2, <2>5
    <3>2. (d + n + 1)..m = {} BY <1>1, <2>5
    <3> QED BY <2>2, <3>1, <3>2 DEF d, m
  <2> QED BY <1>9, <2>3, <2>4, <2>5
<1>10. CASE n = l /\ Stopping BY <1>1, <1>10 DEF d, m
<1> QED BY <1>5, <1>7, <1>8, <1>9, <1>10

\* main() creates a thread that is a worker then: it moves on by that call.
LEMMA CreatedByMain ==
  ASSUME TypeOK, MainInPlace, NEW n, MovesOn(n), Done' = Done + n,
         ThreadCreated("main"), InCall("main"), Now("main").op = "create",
         Now("main").obj # "main"
  PROVE  n = 1 /\ Main[Done + 1] = Now("main") /\ Done + 1 \in DOMAIN Main
<1>1. PICK w \in Threads : w = Now("main").obj /\ ("main" # w => th'["main"] = Onward("main"))
  BY CreatedFields, MainIsThread
<1>2. th'["main"].calls = Tail(th["main"].calls)
  BY <1>1, OnwardFields, MainIsThread
<1>3. MovesOn(1) BY <1>2, MovesOnFacts
<1>4. Len(th["main"].calls) - n = Len(th["main"].calls) - 1 /\ n \in 0..Len(th["main"].calls)
      /\ Len(th["main"].calls) \in Nat
  BY <1>3, MainFacts DEF MovesOn
<1>5. n = 1
  <2> DEFINE l == Len(th["main"].calls)
  <2>1. l - n = l - 1 /\ l \in Nat /\ n \in Int BY <1>4
  <2> HIDE DEF l
  <2> QED BY <2>1
<1> QED BY <1>5, MainFacts

\* There is no call between one call and the next.
LEMMA NoneBetween ==
  ASSUME NEW main, NEW w, NEW i \in Nat PROVE ~JoinedBefore(main, w, i, i + 1)
<1>1. (i + 1)..(i + 1 - 1) = {} OBVIOUS
<1> QED BY <1>1 DEF JoinedBefore

\* A disciplined test keeps to its discipline.
LEMMA DisciplineStep ==
  ASSUME TypeOK, BlockedInWait, MainAlone(Programs[test]), MainInPlace, WorkersInPlace,
         NEW CONSTANT G, DisciplinedBut(Programs[test], G), JoinsAhead(G), WorkersApart(G),
         NEW t \in Threads, Step(t) \/ TimerRunsOut(t) \/ WokenByNothing(t)
  PROVE  JoinsAhead(G)' /\ WorkersApart(G)'
<1> DEFINE p == Programs[test]
           d == Done
           m == Len(Main)
<1>1. test' = test /\ Main' = Main BY InPlaceStep
<1>2. PICK n : MovesOn(n) /\ MayMove(n) /\ Done' = d + n BY InPlaceStep
<1>3. m \in Nat /\ d \in Nat /\ DOMAIN Main = 1..m BY MainFacts
<1>4. n \in Nat BY MainFacts, <1>2 DEF MovesOn
<1>5. Main = p["main"] BY DEF Main
<1>6. ASSUME NEW w \in Workers', w \notin Workers
      PROVE  /\ n = 1 /\ d + 1 \in DOMAIN Main
             /\ Main[d + 1].op = "create" /\ Main[d + 1].obj = w
  <2>1. /\ t = "main" /\ ThreadCreated(t) /\ InCall(t) /\ Now(t).op = "create"
        /\ w = Now(t).obj /\ w # "main"
    BY <1>6, WorkersGrow DEF Workers
  <2> QED BY <1>2, <2>1, CreatedByMain
<1>7. JoinsAhead(G)'
  <2> SUFFICES ASSUME NEW w \in Workers', NEW k \in (d + n + 1)..m, Conflicts(p, G, Main[k], w)
               PROVE  JoinedBefore(Main, w, d + n, k)
    BY <1>1, <1>2 DEF JoinsAhead
  <2> HIDE DEF d, m
  <2>0. k \in Int /\ k \in (d + 1)..m BY <1>3, <1>4
  <2>1. CASE w \in Workers
    <3>1. JoinedBefore(Main, w, d, k) BY <2>0, <2>1 DEF JoinsAhead, d, m
    <3>2. PICK j \in (d + 1)..(k - 1) :
            IsJoin(Main[j], w) /\ \A q \in (d + 1)..(j - 1) : Jumps(Main, q, j) => Jumps(Main, q, k)
      BY <3>1 DEF JoinedBefore
    <3>3. j \in (d + 1)..m BY <1>3, <2>0, <3>2
    <3>4. th'[w].state # "joined" BY DEF Workers, Alive
    <3>5. \/ j > d + n
          \/ /\ j > d + 1 /\ Jumps(Main, d + 1, j)
             /\ \A i \in (d + n + 1)..m : ~Jumps(Main, d + 1, i)
          \/ d + n = m
      BY <1>2, <3>2, <3>3, <3>4, JoinStays DEF d, m
    <3>6. CASE j > d + n
      <4>1. j \in (d + n + 1)..(k - 1) BY <1>3, <1>4, <2>0, <3>2, <3>6
      <4>2. \A q \in (d + n + 1)..(j - 1) : q \in (d + 1)..(j - 1) BY <1>3, <1>4
      <4> QED BY <3>2, <4>1, <4>2 DEF JoinedBefore
    <3>7. CASE j > d + 1 /\ Jumps(Main, d + 1, j)
               /\ \A i \in (d + n + 1)..m : ~Jumps(Main, d + 1, i)
      <4>1. d + 1 \in (d + 1)..(j - 1) BY <1>3, <3>3, <3>7
      <4> QED BY <3>2, <3>7, <4>1
    <3>8. CASE d + n = m BY <1>3, <1>4, <3>8
    <3> QED BY <3>5, <3>6, <3>7, <3>8
  <2>2. CASE w \notin Workers
    <3>1. n = 1 /\ d + 1 \in DOMAIN Main /\ Main[d + 1].op = "create" /\ Main[d + 1].obj = w
      BY <1>6, <2>2 DEF d
    <3>2. \A i \in DOMAIN Main : Main[i].op = "create" =>
            \A h \in (i + 1)..m : Conflicts(p, G, Main[h], Main[i].obj)
                                    => JoinedBefore(Main, Main[i].obj, i, h)
      BY <1>5 DEF DisciplinedBut, m
    <3>3. k \in (d + 1 + 1)..m BY <3>1
    <3> QED BY <3>1, <3>2, <3>3
  <2> QED BY <2>1, <2>2
<1>8. WorkersApart(G)'
  <2>1. ASSUME NEW v \in Workers', NEW w \in Workers', v \notin Workers, w \in Workers
        PROVE  ~Clash(p, G, v, w)
    <3>1. d + 1 \in DOMAIN Main /\ Main[d + 1].op = "create" /\ Main[d + 1].obj = v
      BY <1>6, <2>1
    <3>2. ASSUME Clash(p, G, v, w) PROVE FALSE
      <4> HIDE DEF d, m
      <4>1. Conflicts(p, G, Main[d + 1], w) BY <3>1, <3>2 DEF Conflicts
      <4>2. d + 1 \in (d + 1)..m BY <1>3, <3>1
      <4>3. JoinedBefore(Main, w, d, d + 1) BY <2>1, <4>1, <4>2 DEF JoinsAhead, d, m
      <4> QED BY <1>3, <4>3, NoneBetween
    <3> QED BY <3>2
  <2>2. ASSUME NEW v \in Workers', NEW w \in Workers', v # w PROVE ~Clash(p, G, v, w)
    <3>1. CASE v \in Workers /\ w \in Workers BY <2>2, <3>1 DEF WorkersApart
    <3>2. CASE v \notin Workers /\ w \in Workers BY <2>1, <3>2
    <3>3. CASE v \in Workers /\ w \notin Workers BY <2>1, <3>3 DEF Clash
    <3>4. CASE v \notin Workers /\ w \notin Workers BY <1>6, <2>2, <3>4
    <3> QED BY <3>1, <3>2, <3>3, <3>4
  <2> QED BY <1>1, <2>2 DEF WorkersApart
<1> QED BY <1>7, <1>8

\* A disciplined test has no data race, but for what is in G.
RacesOnlyOn(G) ==
  \A t, u \in Threads : t # u => (Writes(t) \cap (Writes(u) \cup Reads(u))) \ G = {}
LEMMA NothingRaces ==
  ASSUME TypeOK, MainAlone(Programs[test]), MainInPlace, WorkersInPlace,
         NEW CONSTANT G, JoinsAhead(G), WorkersApart(G)
  PROVE  RacesOnlyOn(G)
<1> DEFINE p == Programs[test]
<1>1. ASSUME NEW w \in Workers
      PROVE  Writes(w) \subseteq AllWrites(p, w) /\ Reads(w) \subseteq AllUses(p, w)
  <2>1. InRoutines(w) BY DEF WorkersInPlace
  <2>2. CASE Runs(w) /\ InCall(w)
    <3>1. Writes(w) = CallWrites(Now(w)) /\ Reads(w) = CallReads(Now(w))
      BY <2>2 DEF Writes, Reads
    <3>2. Now(w) \in FamilyCalls(p, w) \/ Now(w) = Pop(TRUE) BY <2>2, WorkerCalls
    <3> QED BY <3>1, <3>2, FamilyFacts, LibraryCalls
  <2>3. CASE Runs(w) /\ ~InCall(w)
    <3>1. Writes(w) = Destroyed(w) /\ Reads(w) = {} BY <2>3 DEF Writes, Reads
    <3>2. Destroyed(w) \subseteq AllKept(p, w) BY <2>1 DEF InRoutines, Destroyed, Workers
    <3> QED BY <3>1, <3>2, FamilyFacts
  <2>4. CASE ~Runs(w) BY <2>4 DEF Writes, Reads
  <2> QED BY <2>2, <2>3, <2>4
<1>2. ASSUME NEW w \in Workers
      PROVE  /\ (Writes("main") \cap AllUses(p, w)) \ G = {}
             /\ (Reads("main") \cap AllWrites(p, w)) \ G = {}
  <2>1. CASE Runs("main") /\ InCall("main")
    <3>1. Done \in Nat /\ Len(Main) \in Nat /\ Done + 1 \in DOMAIN Main
          /\ DOMAIN Main = 1..Len(Main) /\ Now("main") = Main[Done + 1]
      BY <2>1, MainFacts
    <3>2. Done + 1 \in (Done + 1)..Len(Main) BY <3>1
    <3>3. ~JoinedBefore(Main, w, Done, Done + 1) BY <3>1, NoneBetween
    <3>4. ~Conflicts(p, G, Now("main"), w) BY <3>1, <3>2, <3>3 DEF JoinsAhead
    <3>5. (Changes(Now("main")) \cap AllUses(p, w)) \ G = {}
          /\ (Relies(Now("main")) \cap AllWrites(p, w)) \ G = {}
      BY <3>4 DEF Conflicts
    <3>6. CallWrites(Now("main")) \subseteq Changes(Now("main"))
          /\ CallReads(Now("main")) \subseteq Relies(Now("main"))
      BY DEF Changes, Relies
    <3> QED BY <2>1, <3>5, <3>6 DEF Writes, Reads
  <2>2. CASE ~(Runs("main") /\ InCall("main")) BY <2>2 DEF Writes, Reads, Destroyed
  <2> QED BY <2>1, <2>2
<1>3. \A w \in Threads : w # "main" /\ w \notin Workers => Writes(w) = {} /\ Reads(w) = {}
  BY DEF Workers, Alive, Writes, Reads, Runs
<1>4. \A v, w \in Workers : v # w =>
        /\ (AllWrites(p, v) \cap AllUses(p, w)) \ G = {}
        /\ (AllUses(p, v) \cap AllWrites(p, w)) \ G = {}
  BY DEF WorkersApart, Clash
<1>5. \A w : AllWrites(p, w) \subseteq AllUses(p, w) BY FamilyFacts
<1>6. ASSUME NEW t \in Threads, NEW u \in Threads, t # u
      PROVE  (Writes(t) \cap (Writes(u) \cup Reads(u))) \ G = {}
  <2>1. CASE t \in Workers /\ u \in Workers BY <1>1, <1>4, <1>5, <1>6, <2>1
  <2>2. CASE t = "main" /\ u \in Workers BY <1>1, <1>2, <1>5, <2>2
  <2>3. CASE t \in Workers /\ u = "main" BY <1>1, <1>2, <1>5, <2>3
  <2>4. CASE t # "main" /\ t \notin Workers BY <1>3, <2>4
  <2>5. CASE u # "main" /\ u \notin Workers BY <1>3, <2>5
  <2> QED BY <1>6, <2>1, <2>2, <2>3, <2>4, <2>5
<1> QED BY <1>6 DEF RacesOnlyOn

\* What threads write are variables.
LEMMA WritesVariables ==
  ASSUME TypeOK, NEW t \in Threads PROVE Writes(t) \subseteq Variables
<1>1. CASE Runs(t) /\ InCall(t)
  <2>1. Names(Programs[test], Now(t)) /\ "i" \in Variables BY <1>1, NowNames, VariablesNamed
  <2>2. CallWrites(Now(t)) \subseteq Variables BY <2>1 DEF Names, CallWrites
  <2> QED BY <1>1, <2>2 DEF Writes
<1>2. CASE Runs(t) /\ ~InCall(t)
  <2>1. \A k \in Keys : th[t].specific[k] \in Variables BY DEF TypeOK, ThreadsOK, Thread
  <2> QED BY <1>2, <2>1 DEF Writes, Destroyed
<1> QED BY <1>1, <1>2 DEF Writes
LEMMA ObjectsApart == Objects \cap Variables = {}
BY DEF Objects, Variables

-----------------------------------------------------------------------------
(* main() joins all its workers before it returns. *)

\* The calls of a tidy test stop nothing short.
LEMMA TidyCalls ==
  ASSUME TypeOK, Tidy(Programs[test]), NEW t \in Threads, InCall(t)
  PROVE  /\ Now(t).op \notin {"sem_open", "call_f"}
         /\ Now(t).op = "cancel" => Now(t).obj # "main"
<1>1. Now(t) \in CallsOf(Programs[test]) BY NowNames
<1>2. CASE \E r \in DOMAIN Programs[test] : Now(t) \in CallsIn(Programs[test][r])
  BY <1>2 DEF Tidy
<1>3. CASE Now(t) = Pop(TRUE) \/ Now(t) = Set("once", 2) BY <1>3, LibraryCalls
<1>4. \/ \E r \in DOMAIN Programs[test] : Now(t) \in CallsIn(Programs[test][r])
      \/ Now(t) = Pop(TRUE) \/ Now(t) = Set("once", 2)
  <2> DEFINE a == Pop(TRUE)
             b == Set("once", 2)
  <2>1. CallsOf(Programs[test])
          = (UNION {CallsIn(Programs[test][r]) : r \in DOMAIN Programs[test]}) \cup {a, b}
    BY DEF CallsOf
  <2> HIDE DEF a, b
  <2>2. \/ \E r \in DOMAIN Programs[test] : Now(t) \in CallsIn(Programs[test][r])
        \/ Now(t) = a \/ Now(t) = b
    BY <1>1, <2>1
  <2> QED BY <2>2 DEF a, b
<1> QED BY <1>2, <1>3, <1>4

\* Nobody cancels the main() of a tidy test, and it comes to its end.
LEMMA TidyFrame ==
  ASSUME TypeOK, BlockedInWait, MainAlone(Programs[test]), MainInPlace, WorkersInPlace,
         Tidy(Programs[test]), AllWillBeJoined,
         NEW t \in Threads, Step(t) \/ TimerRunsOut(t) \/ WokenByNothing(t)
  PROVE  /\ ~Stopping
         /\ ~th'["main"].pending /\ th'["main"].state # "cancelled" /\ ~opened'.named
         /\ exited' => ~InCall("main")
<1>1. ~th["main"].pending /\ th["main"].state # "cancelled" /\ ~opened.named
  BY DEF AllWillBeJoined
<1>2. ~Stopping
  <2>1. InCall("main") => Now("main").op # "exit" BY MainFacts DEF Tidy, Main
  <2> QED BY <1>1, <2>1 DEF Stopping
<1>3. CASE Returning(t) \/ Blocking(t)
  <2>1. Quiet("main") BY <1>3, QuietStep, MainIsThread
  <2>2. ~Cancelled("main") BY TidyCalls DEF Cancelled
  <2>3. ~opened'.named
    <3>1. opened'.named => opened.named \/ (InCall(t) /\ Now(t).op = "sem_open")
      BY <1>3, QuietStep
    <3> QED BY <1>1, <3>1, TidyCalls
  <2>4. ASSUME exited' PROVE ~InCall("main")
    <3>1. Crashes(t) \/ (t = "main" /\ ~InCall(t)) BY <1>3, <2>4, QuietStep
    <3>2. ~Crashes(t) BY <1>1, TidyCalls DEF Crashes, Segfaults
    <3> QED BY <3>1, <3>2
  <2> QED BY <1>1, <1>2, <2>1, <2>2, <2>3, <2>4 DEF Quiet
<1>4. CASE Leaping(t)
  <2>1. UNCHANGED <<opened, exited>> /\ ~exited BY <1>4, LeapingFrame
  <2>2. ~th'["main"].pending /\ th'["main"].state # "cancelled"
    <3>1. CASE t # "main"
      <4>1. ~ThreadCreated(t) BY <3>1, MainCreates
      <4>2. \/ th'["main"] = th["main"]
            \/ th'["main"].state = "joined" /\ th'["main"].pending = th["main"].pending
        BY <1>4, <3>1, <4>1, LeapElse, MainIsThread
      <4> QED BY <1>1, <4>2
    <3>2. CASE t = "main"
      <4>1. CASE Skip(t)
        <5>1. th'["main"] = [th["main"] EXCEPT !.calls = th'["main"].calls]
              /\ th["main"] \in Thread
          BY <3>2, <4>1, SkipFields DEF TypeOK, ThreadsOK
        <5>2. th'["main"].state = th["main"].state /\ th'["main"].pending = th["main"].pending
          BY <5>1 DEF Thread
        <5> QED BY <1>1, <5>2
      <4>2. CASE ThreadCreated(t)
        <5>1. InCall("main") /\ Now("main").op = "create" BY <3>2, <4>2, CreatedFields
        <5>2. Now("main").obj # "main" BY <5>1, MainFacts DEF MainAlone, Main
        <5>3. PICK w \in Threads : w = Now(t).obj /\ (t # w => th'[t] = Onward(t))
          BY <4>2, CreatedFields
        <5>4. th'["main"] = Onward("main") BY <3>2, <5>2, <5>3
        <5> QED BY <1>1, <5>1, <5>4, OnwardFields, MainIsThread
      <4>3. CASE ThreadJoined(t)
        <5>1. InCall("main") /\ th'["main"] = Onward("main") BY <3>2, <4>3, JoinedFields
        <5> QED BY <1>1, <5>1, OnwardFields, MainIsThread
      <4>4. CASE ~Skip(t) /\ ~ThreadCreated(t) /\ ~ThreadJoined(t)
        <5>1. th'["main"].state = "running" /\ th'["main"].pending = th["main"].pending
          BY <1>4, <3>2, <4>4, AloneFields DEF Leaping
        <5> QED BY <1>1, <5>1
      <4> QED BY <4>1, <4>2, <4>3, <4>4
    <3> QED BY <3>1, <3>2
  <2> QED BY <1>1, <1>2, <2>1, <2>2
<1> QED BY <1>3, <1>4, StepKinds

\* A tidy test stays tidy.
LEMMA TidyStep ==
  ASSUME TypeOK, BlockedInWait, MainAlone(Programs[test]), MainInPlace, WorkersInPlace,
         Tidy(Programs[test]), AllWillBeJoined,
         NEW t \in Threads, Step(t) \/ TimerRunsOut(t) \/ WokenByNothing(t)
  PROVE  AllWillBeJoined'
<1> DEFINE p == Programs[test]
           d == Done
           m == Len(Main)
<1>1. test' = test /\ Main' = Main BY InPlaceStep
<1>2. PICK n : MovesOn(n) /\ MayMove(n) /\ Done' = d + n BY InPlaceStep
<1>3. m \in Nat /\ d \in Nat /\ d <= m /\ DOMAIN Main = 1..m /\ m = d + Len(th["main"].calls)
      /\ Len(th["main"].calls) \in Nat
  BY MainFacts
<1>4. n \in Nat /\ n <= Len(th["main"].calls) BY <1>3, <1>2 DEF MovesOn
<1>5. /\ ~Stopping
      /\ ~th'["main"].pending /\ th'["main"].state # "cancelled" /\ ~opened'.named
      /\ exited' => ~InCall("main")
  BY TidyFrame
<1>6. ASSUME exited' PROVE Done' = m
  <2>1. d = m BY <1>5, <1>6, MainFacts
  <2> HIDE DEF d, m
  <2> QED BY <1>2, <1>3, <1>4, <2>1
<1>7. ASSUME NEW w \in Workers' PROVE AlwaysJoined(Main, w, d + n)
  <2> HIDE DEF d, m
  <2>1. CASE w \in Workers
    <3>1. AlwaysJoined(Main, w, d) BY <2>1 DEF AllWillBeJoined, d
    <3>2. PICK j \in (d + 1)..m : IsJoin(Main[j], w) /\ \A q \in (d + 1)..(j - 1) : ~Jumps(Main, q, j)
      BY <3>1 DEF AlwaysJoined, m
    <3>3. th'[w].state # "joined" BY DEF Workers, Alive
    <3>4. j > d + n \/ (j > d + 1 /\ Jumps(Main, d + 1, j))
      BY <1>2, <1>5, <3>2, <3>3, JoinStays DEF d, m
    <3>5. CASE j > d + n
      <4>1. j \in (d + n + 1)..m BY <1>3, <1>4, <3>2, <3>5
      <4>2. \A q \in (d + n + 1)..(j - 1) : q \in (d + 1)..(j - 1) BY <1>3, <1>4
      <4> QED BY <3>2, <4>1, <4>2 DEF AlwaysJoined, m
    <3>6. CASE j > d + 1 /\ Jumps(Main, d + 1, j)
      <4>1. d + 1 \in (d + 1)..(j - 1) BY <1>3, <3>2, <3>6
      <4> QED BY <3>2, <3>6, <4>1
    <3> QED BY <3>4, <3>5, <3>6
  <2>2. CASE w \notin Workers
    <3>1. /\ t = "main" /\ ThreadCreated(t) /\ InCall(t) /\ Now(t).op = "create"
          /\ w = Now(t).obj /\ w # "main"
      BY <2>2, WorkersGrow DEF Workers
    <3>2. n = 1 /\ Main[d + 1] = Now("main") /\ d + 1 \in DOMAIN Main
      BY <1>2, <3>1, CreatedByMain DEF d
    <3>3. \A i \in DOMAIN Main : Main[i].op = "create" => AlwaysJoined(Main, Main[i].obj, i)
      BY DEF Tidy, Main
    <3> QED BY <3>1, <3>2, <3>3
  <2> QED BY <2>1, <2>2
<1> QED BY <1>1, <1>2, <1>5, <1>6, <1>7 DEF AllWillBeJoined

-----------------------------------------------------------------------------
(* The invariants of disciplined and of tidy tests. *)

\* What holds when a test starts: main() has all its text before it, alone.
LEMMA InitInPlace ==
  ASSUME Init
  PROVE  /\ BlockedInWait /\ MainInPlace /\ Workers = {} /\ Done = 0
         /\ ~th["main"].pending /\ th["main"].state # "cancelled" /\ ~opened.named /\ ~exited
<1>1. th = [t \in Threads |-> IF t = "main" THEN Started(t) ELSE Newborn] BY DEF Init
<1>2. TypeOK BY InitType
<1>3. th["main"] = Started("main") /\ \A t \in Threads : t # "main" => th[t] = Newborn
  BY <1>1, MainIsThread
<1>4. Newborn.state = "unborn" BY DEF Newborn
<1>5. /\ Started("main").state = "running" /\ Started("main").calls = Programs[test]["main"]
      /\ Started("main").handlers = <<>> /\ Started("main").pending = FALSE
  BY DEF Started, Newborn
<1>6. BlockedInWait BY <1>3, <1>4, <1>5 DEF BlockedInWait, Blocks, LeavingWait
<1>7. Workers = {} BY <1>3, <1>4 DEF Workers, Alive
<1>8. th["main"].calls = Main BY <1>3, <1>5 DEF Main
<1>9. Len(Main) \in Nat /\ DOMAIN Main = 1..Len(Main)
  <2>1. "main" \in DOMAIN Programs[test] BY <1>2, ProgramsAssumption DEF TypeOK
  <2> QED BY <1>2, <2>1, RoutineCalls, LenProperties DEF Main
<1>10. Done = 0 BY <1>8, <1>9 DEF Done
<1>11. MainInPlace
  <2>1. \A k \in DOMAIN Main : Main[k] = Main[0 + k] BY <1>9
  <2> QED BY <1>3, <1>5, <1>8, <1>9, <1>10, <2>1 DEF MainInPlace
<1>12. ~opened.named /\ ~exited BY DEF Init
<1> QED BY <1>3, <1>5, <1>6, <1>7, <1>10, <1>11, <1>12

\* All that is kept, by all tests and by those that are disciplined or tidy.
IInv == TypeOK /\ BlockedInWait /\ InPlace /\ DisciplineKept /\ TidinessKept

LEMMA InitIInv == Init => IInv
<1> SUFFICES ASSUME Init PROVE IInv OBVIOUS
<1>1. TypeOK BY InitType
<1>2. /\ BlockedInWait /\ MainInPlace /\ Workers = {} /\ Done = 0
      /\ ~th["main"].pending /\ th["main"].state # "cancelled" /\ ~opened.named /\ ~exited
  BY InitInPlace
<1>3. InPlace BY <1>2 DEF InPlace, WorkersInPlace
<1>4. DisciplineKept BY <1>2 DEF DisciplineKept, JoinsAhead, WorkersApart
<1>5. TidinessKept BY <1>2 DEF TidinessKept, AllWillBeJoined
<1> QED BY <1>1, <1>2, <1>3, <1>4, <1>5 DEF IInv

LEMMA StepIInv ==
  ASSUME IInv, NEW t \in Threads, Step(t) \/ TimerRunsOut(t) \/ WokenByNothing(t)
  PROVE  IInv'
<1>1. TypeOK /\ BlockedInWait /\ InPlace /\ DisciplineKept /\ TidinessKept BY DEF IInv
<1>2. test' = test BY <1>1, QuietStep, LeapingFrame, StepKinds
<1>3. TypeOK' BY <1>1, StepType
<1>4. BlockedInWait' BY <1>1, BlockedStep
<1>5. InPlace' BY <1>1, <1>2, InPlaceStep DEF InPlace
<1>6. DisciplineKept'
  <2> SUFFICES ASSUME NEW G \in SUBSET (Variables \cup Objects), DisciplinedBut(Programs[test], G)
               PROVE  JoinsAhead(G)' /\ WorkersApart(G)'
    BY <1>2 DEF DisciplineKept
  <2>1. MainAlone(Programs[test]) BY DEF DisciplinedBut
  <2>2. JoinsAhead(G) /\ WorkersApart(G) BY <1>1 DEF DisciplineKept
  <2> QED BY <1>1, <2>1, <2>2, DisciplineStep DEF InPlace
<1>7. TidinessKept'
  <2> SUFFICES ASSUME Tidy(Programs[test]) PROVE AllWillBeJoined' BY <1>2 DEF TidinessKept
  <2>1. MainAlone(Programs[test]) BY DEF Tidy
  <2> QED BY <1>1, <2>1, TidyStep DEF InPlace, TidinessKept
<1> QED BY <1>3, <1>4, <1>5, <1>6, <1>7 DEF IInv

LEMMA StutterIInv == ASSUME IInv, UNCHANGED vars PROVE IInv'
<1>1. TypeOK' BY StutterType DEF IInv
<1>2. UNCHANGED <<test, th, opened, exited>> BY DEF vars
<1>3. Workers' = Workers /\ Main' = Main /\ Done' = Done
  BY <1>2 DEF Workers, Alive, Main, Done
<1>4. BlockedInWait' BY <1>2 DEF IInv, BlockedInWait, Now
<1>5. MainInPlace' <=> MainInPlace BY <1>2, <1>3 DEF MainInPlace
<1>6. WorkersInPlace' <=> WorkersInPlace
  BY <1>2, <1>3 DEF WorkersInPlace, MadeByMain, InRoutines
<1>7. InPlace' BY <1>2, <1>5, <1>6 DEF IInv, InPlace
<1>8. DisciplineKept'
  <2> SUFFICES ASSUME NEW G \in SUBSET (Variables \cup Objects), DisciplinedBut(Programs[test], G)
               PROVE  JoinsAhead(G)' /\ WorkersApart(G)'
    BY <1>2 DEF DisciplineKept
  <2>1. JoinsAhead(G) /\ WorkersApart(G) BY DEF IInv, DisciplineKept
  <2> QED BY <1>2, <1>3, <2>1 DEF JoinsAhead, WorkersApart
<1>9. TidinessKept' BY <1>2, <1>3 DEF IInv, TidinessKept, AllWillBeJoined
<1> QED BY <1>1, <1>4, <1>7, <1>8, <1>9 DEF IInv

LEMMA InvariantHolds == Spec => []IInv
<1>1. IInv /\ [Next]_vars => IInv' BY StepIInv, StutterIInv DEF Next, Stopped
<1> QED BY <1>1, InitIInv, PTL DEF Spec

\* Whatever the scheduler, the library and the timers do, a test in which main()
\* joins each thread before it does what conflicts with it has no data race: what
\* can be read off its text holds of all its interleavings.
THEOREM RaceFreedom == Spec => [](Disciplined(Programs[test]) => RaceFree)
<1>1. IInv => (Disciplined(Programs[test]) => RaceFree)
  <2> SUFFICES ASSUME IInv, Disciplined(Programs[test]) PROVE RaceFree
    OBVIOUS
  <2>1. MainAlone(Programs[test]) BY DEF Disciplined, DisciplinedBut
  <2>2. TypeOK /\ MainInPlace /\ WorkersInPlace /\ JoinsAhead(Objects) /\ WorkersApart(Objects)
    BY <2>1 DEF IInv, InPlace, DisciplineKept, Disciplined
  <2>3. RacesOnlyOn(Objects) BY <2>1, <2>2, NothingRaces
  <2> QED BY <2>2, <2>3, WritesVariables, ObjectsApart DEF RacesOnlyOn, RaceFree
<1> QED BY <1>1, InvariantHolds, PTL

\* A test whose main() joins every thread on every way to its end, is not cancelled
\* and cannot crash leaves no worker behind: when main() has returned all of them
\* have ended and have been joined, with any of the bugs that the library may have
\* and however early its timers have run out.  With a correct library and good
\* timers that is what NothingLeft asks of all tests.
THEOREM NothingLeftHolds ==
  Spec => [](Tidy(Programs[test]) => (exited => Workers = {}) /\ NothingLeft)
<1>1. IInv => (Tidy(Programs[test]) => (exited => Workers = {}) /\ NothingLeft)
  <2> SUFFICES ASSUME IInv, Tidy(Programs[test]), exited PROVE Workers = {}
    BY DEF NothingLeft, Workers, Alive
  <2>1. MainInPlace /\ AllWillBeJoined /\ TypeOK
    BY DEF IInv, InPlace, TidinessKept, Tidy
  <2>2. Done = Len(Main) /\ Len(Main) \in Nat BY <2>1, MainFacts DEF AllWillBeJoined
  <2>3. \A w \in Workers : FALSE
    <3>1. (Done + 1)..Len(Main) = {} BY <2>2
    <3> QED BY <2>1, <3>1 DEF AllWillBeJoined, AlwaysJoined
  <2> QED BY <2>3
<1> QED BY <1>1, InvariantHolds, PTL

\* The modes of a routine in terms of those of its parts.
LEMMA NextModes ==
  ASSUME NEW p, NEW c, NEW m \in Modes PROVE NextMode(p, c, m) \in Modes
BY DEF NextMode, Modes, Sets

\* The mode before the first call is the one a routine begins in.
LEMMA FirstMode == ASSUME NEW p, NEW s, NEW m PROVE InMode(p, s, m, 1, m)
BY DEF InMode

\* The modes of what is left after the first call are those of the whole.
LEMMA TailMode ==
  ASSUME NEW p, NEW S, NEW s \in Seq(S), s # <<>>, NEW m, NEW n, NEW i \in Nat \ {0},
         i <= Len(s), InMode(p, Tail(s), NextMode(p, Head(s), m), i, n)
  PROVE  InMode(p, s, m, i + 1, n)
<1> DEFINE u == Tail(s)
           N(c) == Sets(p, c)
<1>1. Len(s) \in Nat /\ Len(u) = Len(s) - 1 /\ Head(s) = s[1]
      /\ \A k \in 1..Len(u) : u[k] = s[k + 1]
  BY HeadTailProperties
<1>2. \A k \in 1..(i - 1) : u[k] = s[k + 1] BY <1>1
<1>m. InMode(p, u, NextMode(p, Head(s), m), i, n) OBVIOUS
<1>n. NextMode(p, Head(s), m) = IF N(s[1]) = "same" THEN m ELSE N(s[1]) BY <1>1 DEF NextMode
<1> HIDE DEF u, N
<1>3. CASE n = NextMode(p, Head(s), m) /\ \A k \in 1..(i - 1) : N(u[k]) = "same"
  <2>1. \A k \in 2..i : N(s[k]) = "same"
    <3> TAKE k \in 2..i
    <3>1. k - 1 \in 1..(i - 1) /\ k - 1 + 1 = k OBVIOUS
    <3> QED BY <1>2, <1>3, <3>1
  <2>2. CASE N(s[1]) = "same"
    <3>1. \A k \in 1..i : N(s[k]) = "same" BY <2>1, <2>2
    <3> QED BY <1>3, <1>n, <2>2, <3>1 DEF InMode, N
  <2>3. CASE N(s[1]) # "same"
    <3>1. 1 \in 1..i /\ (1 + 1)..i = 2..i OBVIOUS
    <3> QED BY <1>3, <1>n, <2>1, <2>3, <3>1 DEF InMode, N
  <2> QED BY <2>2, <2>3
<1>4. CASE \E j \in 1..(i - 1) : /\ N(u[j]) = n /\ n # "same"
                                 /\ \A k \in (j + 1)..(i - 1) : N(u[k]) = "same"
  <2>1. PICK j \in 1..(i - 1) : /\ N(u[j]) = n /\ n # "same"
                                /\ \A k \in (j + 1)..(i - 1) : N(u[k]) = "same"
    BY <1>4
  <2>2. j + 1 \in 1..i /\ N(s[j + 1]) = n BY <1>2, <2>1
  <2>3. ASSUME NEW k \in (j + 1 + 1)..i PROVE N(s[k]) = "same"
    <3>1. k - 1 \in (j + 1)..(i - 1) /\ k - 1 \in 1..(i - 1) /\ k - 1 + 1 = k BY <2>1
    <3> QED BY <1>2, <2>1, <3>1
  <2> QED BY <2>1, <2>2, <2>3 DEF InMode, N
<1> QED BY <1>3, <1>4, <1>m DEF InMode, N

\* A thread that goes on with its next call is fine in the mode that leads to.
LEMMA TailFine ==
  ASSUME NEW p, NEW t, NEW S, NEW s \in Seq(S), s # <<>>, NEW m \in Modes, Fine(p, t, s, m)
  PROVE  /\ Allowed(p, t, Head(s), m)
         /\ Fine(p, t, Tail(s), NextMode(p, Head(s), m))
         /\ Head(s).op \in {"skip", "setcanceltype"} =>
              \A i \in DOMAIN Tail(s) : Sets(p, Tail(s)[i]) = "same"
<1> DEFINE u == Tail(s)
           m2 == NextMode(p, Head(s), m)
<1>1. Len(s) \in Nat /\ Len(u) = Len(s) - 1 /\ Head(s) = s[1] /\ Len(s) >= 1
      /\ DOMAIN s = 1..Len(s) /\ DOMAIN u = 1..Len(u) /\ Len(u) \in Nat
      /\ \A k \in 1..Len(u) : u[k] = s[k + 1]
  BY HeadTailProperties, LenProperties, EmptySeq
<1>2. 1 \in DOMAIN s /\ \A i \in DOMAIN u : i + 1 \in DOMAIN s /\ u[i] = s[i + 1] BY <1>1
<1>3. Allowed(p, t, Head(s), m)
  <2>1. InMode(p, s, m, 1, m) BY FirstMode
  <2> QED BY <1>1, <1>2, <2>1 DEF Fine
<1>4. ASSUME NEW i \in DOMAIN u, NEW n \in Modes, InMode(p, u, m2, i, n)
      PROVE  Allowed(p, t, u[i], n)
  <2>1. i \in Nat \ {0} /\ i <= Len(s) BY <1>1
  <2>2. InMode(p, s, m, i + 1, n) BY <1>4, <2>1, TailMode
  <2>3. i + 1 \in DOMAIN s /\ u[i] = s[i + 1] BY <1>2
  <2> QED BY <2>2, <2>3 DEF Fine
<1>5. Settled(p, u)
  <2> SUFFICES ASSUME NEW i \in DOMAIN u, u[i].op \in {"skip", "setcanceltype"},
                      NEW j \in DOMAIN u, j > i
               PROVE  Sets(p, u[j]) = "same"
    BY DEF Settled
  <2>1. i + 1 \in DOMAIN s /\ j + 1 \in DOMAIN s /\ j + 1 > i + 1
        /\ u[i] = s[i + 1] /\ u[j] = s[j + 1]
    BY <1>1, <1>2
  <2> QED BY <2>1 DEF Fine, Settled
<1>6. ASSUME NEW n \in Modes, InMode(p, u, m2, Len(u) + 1, n)
      PROVE  InMode(p, s, m, Len(s) + 1, n)
  <2>1. Len(u) + 1 = Len(s) /\ Len(s) \in Nat \ {0} /\ Len(s) <= Len(s) BY <1>1
  <2>2. InMode(p, u, m2, Len(s), n) BY <1>6, <2>1
  <2> QED BY <2>1, <2>2, TailMode
<1>7. Fine(p, t, u, m2) BY <1>4, <1>5, <1>6 DEF Fine
<1>8. Head(s).op \in {"skip", "setcanceltype"} => \A i \in DOMAIN u : Sets(p, u[i]) = "same"
  <2>1. \A i \in DOMAIN u : i + 1 > 1 BY <1>1
  <2> QED BY <1>1, <1>2, <2>1 DEF Fine, Settled
<1> QED BY <1>3, <1>7, <1>8

\* What each call may set.
LEMMA SetsOf ==
  ASSUME NEW p, NEW c
  PROVE  /\ Sets(p, c) \in Modes \cup {"same"}
         /\ Sets(p, c) # "same" =>
              \/ c.op \in {"lock", "timedlock", "unlock"}
              \/ c.op \in {"push", "pop"} /\ Closing(p)
         /\ c.op \in {"lock", "timedlock"} => Sets(p, c) = "held"
         /\ c.op = "unlock" => Sets(p, c) = "free"
         /\ c.op = "push" /\ Closing(p) => Sets(p, c) = "guarded"
         /\ c.op = "pop" /\ Closing(p) => Sets(p, c) = "free"
BY DEF Sets, Modes

\* Calls that are jumped to from where the mode is settled.
LEMMA SuffixFine ==
  ASSUME NEW p, NEW t, NEW S, NEW s \in Seq(S), s # <<>>, NEW m \in Modes, Fine(p, t, s, m),
         Head(s).op = "skip", NEW d \in Nat
  PROVE  /\ Fine(p, t, SubSeq(s, d + 2, Len(s)), m)
         /\ \A c \in CallsIn(SubSeq(s, d + 2, Len(s))) : Sets(p, c) = "same"
<1> DEFINE u == SubSeq(s, d + 2, Len(s))
<1>1. /\ Len(s) \in Nat /\ Len(s) >= 1 /\ DOMAIN s = 1..Len(s) /\ Head(s) = s[1]
      /\ \A i \in d + 2 .. Len(s) : s[i] \in S
  BY HeadTailProperties, LenProperties, EmptySeq, ElementOfSeq
<1>2. /\ u \in Seq(S) /\ Len(u) = IF d + 2 <= Len(s) THEN Len(s) - (d + 2) + 1 ELSE 0
      /\ \A i \in 1 .. Len(s) - (d + 2) + 1 : u[i] = s[d + 2 + i - 1]
  BY <1>1, SubSeqProperties
<1>3. DOMAIN u = 1..Len(u) /\ Len(u) \in Nat BY <1>2, LenProperties
<1> HIDE DEF u
<1>4. ASSUME NEW i \in DOMAIN u PROVE d + 1 + i \in DOMAIN s /\ d + 1 + i > 1 /\ u[i] = s[d + 1 + i]
  <2>a. i \in Int /\ 1 <= i /\ i <= Len(u) BY <1>3
  <2>0. i \in Nat /\ 1 <= i /\ i <= Len(u) /\ Len(s) \in Nat BY <1>1, <2>a
  <2>1. d + 2 <= Len(s) /\ i <= Len(s) - (d + 2) + 1 BY <1>2, <2>0
  <2>2. i \in 1 .. Len(s) - (d + 2) + 1 /\ d + 2 + i - 1 = d + 1 + i BY <2>0, <2>1
  <2>3. d + 1 + i \in 1..Len(s) /\ d + 1 + i > 1 BY <2>0, <2>1
  <2>4. u[i] = s[d + 2 + i - 1] BY <1>2, <2>2
  <2> QED BY <1>1, <2>2, <2>3, <2>4
<1>5. \A j \in DOMAIN s : j > 1 => Sets(p, s[j]) = "same"
  <2>1. 1 \in DOMAIN s BY <1>1
  <2> QED BY <1>1, <2>1 DEF Fine, Settled
<1>6. \A i \in DOMAIN u : Sets(p, u[i]) = "same" BY <1>4, <1>5
<1>7. ASSUME NEW i \in Nat, NEW n \in Modes, InMode(p, u, m, i, n), i <= Len(u) + 1
      PROVE  n = m
  <2>0. Len(u) \in Nat BY <1>2, LenProperties
  <2>1. \A k \in 1..(i - 1) : k \in DOMAIN u BY <1>3, <1>7, <2>0
  <2>3. \A k \in 1..(i - 1) : Sets(p, u[k]) = "same" BY <1>6, <2>1
  <2>2. "same" \notin Modes BY DEF Modes
  <2>4. \A k \in 1..(i - 1) : Sets(p, u[k]) # n BY <2>2, <2>3
  <2> QED BY <1>7, <2>4 DEF InMode
<1>8. ASSUME NEW i \in DOMAIN s PROVE InMode(p, s, m, i, m)
  <2>1. \A k \in 2..(i - 1) : Sets(p, s[k]) = "same" BY <1>1, <1>5
  <2>2. Sets(p, s[1]) = "same" BY <1>1, SetsOf
  <2>3. \A k \in 1..(i - 1) : k = 1 \/ k \in 2..(i - 1) BY <1>1
  <2> QED BY <2>1, <2>2, <2>3 DEF InMode
<1>9. ASSUME NEW i \in DOMAIN u, NEW n \in Modes, InMode(p, u, m, i, n)
      PROVE  Allowed(p, t, u[i], n)
  <2>1. i \in Nat /\ i <= Len(u) + 1 BY <1>2, <1>3
  <2>2. n = m BY <1>7, <1>9, <2>1
  <2>3. d + 1 + i \in DOMAIN s /\ u[i] = s[d + 1 + i] BY <1>4
  <2>4. InMode(p, s, m, d + 1 + i, m) BY <1>8, <2>3
  <2> QED BY <2>2, <2>3, <2>4 DEF Fine
<1>10. Settled(p, u) BY <1>6 DEF Settled
<1>11. (\A n \in Modes : InMode(p, s, m, Len(s) + 1, n) => n = "free") =>
         \A n \in Modes : InMode(p, u, m, Len(u) + 1, n) => n = "free"
  <2>1. InMode(p, s, m, Len(s) + 1, m)
    <3>1. \A k \in 2..Len(s) : Sets(p, s[k]) = "same" BY <1>1, <1>5
    <3>2. Sets(p, s[1]) = "same" BY <1>1, SetsOf
    <3>3. \A k \in 1..(Len(s) + 1 - 1) : k = 1 \/ k \in 2..Len(s) BY <1>1
    <3> QED BY <3>1, <3>2, <3>3 DEF InMode
  <2>2. Len(u) + 1 \in Nat /\ Len(u) + 1 <= Len(u) + 1 BY <1>2, LenProperties
  <2> QED BY <1>7, <2>1, <2>2
<1>12. Fine(p, t, u, m) BY <1>9, <1>10, <1>11 DEF Fine
<1> QED BY <1>6, <1>12 DEF u, CallsIn

\* Calls that end in mode e, followed by calls that are fine in mode e.
LEMMA ConcatFine ==
  ASSUME NEW p, NEW t, NEW S, NEW a \in Seq(S), NEW b \in Seq(S), NEW m \in Modes, NEW e \in Modes,
         \A i \in DOMAIN a : \A n \in Modes : InMode(p, a, m, i, n) => Allowed(p, t, a[i], n),
         \A i \in DOMAIN a : a[i].op \notin {"skip", "setcanceltype"},
         \A n \in Modes : InMode(p, a, m, Len(a) + 1, n) => n = e,
         Fine(p, t, b, e)
  PROVE  Fine(p, t, a \o b, m)
<1> DEFINE s == a \o b
           N(c) == Sets(p, c)
<1>1. Len(a) \in Nat /\ Len(b) \in Nat /\ DOMAIN a = 1..Len(a) /\ DOMAIN b = 1..Len(b)
  BY LenProperties
<1>2. /\ s \in Seq(S) /\ Len(s) = Len(a) + Len(b)
      /\ \A i \in 1..(Len(a) + Len(b)) : s[i] = IF i <= Len(a) THEN a[i] ELSE b[i - Len(a)]
  BY ConcatProperties
<1>3. DOMAIN s = 1..(Len(a) + Len(b)) BY <1>2, LenProperties
<1> HIDE DEF s
<1>4. \A i \in 1..Len(a) : s[i] = a[i] BY <1>1, <1>2
<1>5. \A i \in 1..Len(b) : s[Len(a) + i] = b[i]
  <2> TAKE i \in 1..Len(b)
  <2>1. Len(a) + i \in 1..(Len(a) + Len(b)) /\ ~(Len(a) + i <= Len(a)) /\ Len(a) + i - Len(a) = i
    BY <1>1
  <2> QED BY <1>2, <2>1
<1>6. ASSUME NEW i \in 1..(Len(a) + 1), NEW n, InMode(p, s, m, i, n) PROVE InMode(p, a, m, i, n)
  <2>1. \A k \in 1..(i - 1) : s[k] = a[k] BY <1>1, <1>4
  <2>2. \A j \in 1..(i - 1) : \A k \in (j + 1)..(i - 1) : k \in 1..(i - 1) BY <1>1
  <2> QED BY <1>6, <2>1, <2>2 DEF InMode
<1>7. ASSUME NEW i \in 1..(Len(b) + 1), NEW n \in Modes, InMode(p, s, m, Len(a) + i, n)
      PROVE  InMode(p, b, e, i, n)
  <2>0. \A k \in 1..(i - 1) : s[Len(a) + k] = b[k] /\ Len(a) + k \in 1..(Len(a) + i - 1)
    BY <1>1, <1>5
  <2> HIDE DEF N
  <2>1. CASE \A k \in 1..(i - 1) : N(b[k]) = "same"
    <3>1. InMode(p, s, m, Len(a) + 1, n)
      <4>1. CASE n = m /\ \A k \in 1..(Len(a) + i - 1) : N(s[k]) = "same"
        <5>1. \A k \in 1..(Len(a) + 1 - 1) : k \in 1..(Len(a) + i - 1) BY <1>1
        <5>2. \A k \in 1..(Len(a) + 1 - 1) : N(s[k]) = "same" BY <4>1, <5>1
        <5>3. n = m BY <4>1
        <5> QED BY <5>2, <5>3 DEF InMode, N
      <4>2. CASE \E j \in 1..(Len(a) + i - 1) :
                   /\ N(s[j]) = n /\ n # "same"
                   /\ \A k \in (j + 1)..(Len(a) + i - 1) : N(s[k]) = "same"
        <5>1. PICK j \in 1..(Len(a) + i - 1) :
                   /\ N(s[j]) = n /\ n # "same"
                   /\ \A k \in (j + 1)..(Len(a) + i - 1) : N(s[k]) = "same"
          BY <4>2
        <5>2. j <= Len(a)
          <6>1. CASE j > Len(a)
            <7>1. j - Len(a) \in 1..(i - 1) /\ Len(a) + (j - Len(a)) = j BY <1>1, <5>1, <6>1
            <7> QED BY <2>0, <2>1, <5>1, <7>1
          <6> QED BY <1>1, <5>1, <6>1
        <5>3. j \in 1..(Len(a) + 1 - 1) BY <1>1, <5>1, <5>2
        <5>4. \A k \in (j + 1)..(Len(a) + 1 - 1) : k \in (j + 1)..(Len(a) + i - 1) BY <1>1
        <5> QED BY <5>1, <5>3, <5>4 DEF InMode, N
      <4> QED BY <1>7, <4>1, <4>2 DEF InMode, N
    <3>2. InMode(p, a, m, Len(a) + 1, n)
      <4>1. Len(a) + 1 \in 1..(Len(a) + 1) BY <1>1
      <4> QED BY <1>6, <3>1, <4>1
    <3>3. n = e BY <3>2
    <3> QED BY <2>1, <3>3 DEF InMode, N
  <2>2. CASE \E l \in 1..(i - 1) : N(b[l]) # "same"
    <3>1. PICK l \in 1..(i - 1) : N(b[l]) # "same" BY <2>2
    <3>2. Len(a) + l \in 1..(Len(a) + i - 1) /\ N(s[Len(a) + l]) # "same" BY <2>0, <3>1
    <3>3. PICK j \in 1..(Len(a) + i - 1) :
             /\ N(s[j]) = n /\ n # "same"
             /\ \A k \in (j + 1)..(Len(a) + i - 1) : N(s[k]) = "same"
      BY <1>7, <3>2 DEF InMode, N
    <3>4. j >= Len(a) + l
      <4>1. CASE j < Len(a) + l
        <5>1. Len(a) + l \in (j + 1)..(Len(a) + i - 1) BY <1>1, <3>1, <3>3, <4>1
        <5> QED BY <3>2, <3>3, <5>1
      <4> QED BY <1>1, <3>1, <3>3, <4>1
    <3>5. j - Len(a) \in 1..(i - 1) /\ Len(a) + (j - Len(a)) = j BY <1>1, <3>1, <3>3, <3>4
    <3>6. N(b[j - Len(a)]) = n BY <2>0, <3>3, <3>5
    <3>7. ASSUME NEW k \in (j - Len(a) + 1)..(i - 1) PROVE N(b[k]) = "same"
      <4>1. k \in 1..(i - 1) /\ Len(a) + k \in (j + 1)..(Len(a) + i - 1) BY <1>1, <3>3, <3>5
      <4> QED BY <2>0, <3>3, <4>1
    <3> QED BY <3>3, <3>5, <3>6, <3>7 DEF InMode, N
  <2> QED BY <2>1, <2>2
<1>8. ASSUME NEW i \in DOMAIN s
      PROVE  \/ i \in DOMAIN a /\ s[i] = a[i] /\ i \in 1..(Len(a) + 1)
             \/ /\ i - Len(a) \in DOMAIN b /\ s[i] = b[i - Len(a)]
                /\ i - Len(a) \in 1..(Len(b) + 1) /\ Len(a) + (i - Len(a)) = i
  BY <1>1, <1>2, <1>3
<1>9. ASSUME NEW i \in DOMAIN s, NEW n \in Modes, InMode(p, s, m, i, n)
      PROVE  Allowed(p, t, s[i], n)
  <2>1. CASE i \in DOMAIN a /\ s[i] = a[i] /\ i \in 1..(Len(a) + 1) BY <1>6, <1>9, <2>1
  <2>2. CASE /\ i - Len(a) \in DOMAIN b /\ s[i] = b[i - Len(a)]
             /\ i - Len(a) \in 1..(Len(b) + 1) /\ Len(a) + (i - Len(a)) = i
    <3>1. InMode(p, b, e, i - Len(a), n) BY <1>7, <1>9, <2>2
    <3> QED BY <2>2, <3>1 DEF Fine
  <2> QED BY <1>8, <2>1, <2>2
<1>10. Settled(p, s)
  <2> SUFFICES ASSUME NEW i \in DOMAIN s, s[i].op \in {"skip", "setcanceltype"},
                      NEW j \in DOMAIN s, j > i
               PROVE  Sets(p, s[j]) = "same"
    BY DEF Settled
  <2>1. i - Len(a) \in DOMAIN b /\ s[i] = b[i - Len(a)] BY <1>8
  <2>2. j - Len(a) \in DOMAIN b /\ s[j] = b[j - Len(a)] /\ j - Len(a) > i - Len(a)
    BY <1>1, <1>2, <1>3, <2>1
  <2> QED BY <2>1, <2>2 DEF Fine, Settled
<1>11. ASSUME NEW n \in Modes, InMode(p, s, m, Len(s) + 1, n) PROVE InMode(p, b, e, Len(b) + 1, n)
  <2>1. Len(s) + 1 = Len(a) + (Len(b) + 1) /\ Len(b) + 1 \in 1..(Len(b) + 1) BY <1>1, <1>2
  <2> QED BY <1>7, <1>11, <2>1
<1>12. Fine(p, t, s, m) BY <1>9, <1>10, <1>11 DEF Fine
<1> QED BY <1>12 DEF s

\* Calls that set nothing leave the mode as it is.
LEMMA SameMode ==
  ASSUME NEW p, NEW s, \A i \in DOMAIN s : Sets(p, s[i]) = "same", NEW m \in Modes,
         NEW i \in Nat, \A k \in 1..(i - 1) : k \in DOMAIN s
  PROVE  /\ InMode(p, s, m, i, m)
         /\ \A n \in Modes : InMode(p, s, m, i, n) => n = m
<1>1. \A k \in 1..(i - 1) : Sets(p, s[k]) = "same" OBVIOUS
<1>2. "same" \notin Modes BY DEF Modes
<1>3. InMode(p, s, m, i, m) BY <1>1 DEF InMode
<1>4. ASSUME NEW n \in Modes, InMode(p, s, m, i, n) PROVE n = m
  <2>1. \A k \in 1..(i - 1) : Sets(p, s[k]) # n BY <1>1, <1>2
  <2> QED BY <1>4, <2>1 DEF InMode
<1> QED BY <1>3, <1>4

\* Calls that set nothing are fine in a mode that allows them.
LEMMA SameFine ==
  ASSUME NEW p, NEW t, NEW S, NEW s \in Seq(S), NEW m \in Modes,
         \A i \in DOMAIN s : Sets(p, s[i]) = "same" /\ Allowed(p, t, s[i], m),
         t = "main" \/ Robust(p) \/ m = "free"
  PROVE  Fine(p, t, s, m)
<1>1. Len(s) \in Nat /\ DOMAIN s = 1..Len(s) BY LenProperties
<1>2. ASSUME NEW i \in 1..(Len(s) + 1), NEW n \in Modes, InMode(p, s, m, i, n) PROVE n = m
  <2>1. i \in Nat /\ \A k \in 1..(i - 1) : k \in DOMAIN s BY <1>1
  <2> QED BY <1>2, <2>1, SameMode
<1>3. \A i \in DOMAIN s : i \in 1..(Len(s) + 1) BY <1>1
<1>4. Len(s) + 1 \in 1..(Len(s) + 1) BY <1>1
<1>5. Settled(p, s) BY DEF Settled
<1> QED BY <1>2, <1>3, <1>4, <1>5 DEF Fine

\* What a thread that leaves its routines has still to do.
LEMMA PopAllowed ==
  ASSUME NEW p, NEW t, NEW n, Closing(p) => n = "guarded"
  PROVE  Allowed(p, t, Pop(TRUE), n)
<1>1. /\ Pop(TRUE).op = "pop" /\ Pop(TRUE).obj = "run"
  BY DEF Pop, Call
<1>2. Uses(Pop(TRUE)) = {} BY LibraryCalls DEF Uses
<1> DEFINE c == Pop(TRUE)
<1>3. c.op = "pop" /\ c.obj = "run" /\ Uses(c) = {} BY <1>1, <1>2
<1> HIDE DEF c
<1>4. Allowed(p, t, c, n) BY <1>3 DEF Allowed, CancelPoints, CondWaits, SemWaits
<1> QED BY <1>4 DEF c

\* The handlers that are left when a thread is cancelled or exits are fine.
LEMMA PopsFine ==
  ASSUME NEW p, NEW t, NEW S, NEW h \in Seq(S), NEW m \in Modes,
         m = "guarded" <=> Closing(p) /\ h # <<>>, Closing(p) => Len(h) <= 1,
         m # "held" \/ t = "main"
  PROVE  /\ Fine(p, t, [i \in DOMAIN h |-> Pop(TRUE)], m)
         /\ m = "free" => \A c \in CallsIn([i \in DOMAIN h |-> Pop(TRUE)]) : Sets(p, c) = "same"
<1> DEFINE c == Pop(TRUE)
           s == [i \in DOMAIN h |-> c]
<1>1. c.op = "pop" /\ c.obj = "run" BY DEF Pop, Call
<1>2. \A n : (Closing(p) => n = "guarded") => Allowed(p, t, c, n) BY PopAllowed
<1>3. IF Closing(p) THEN Sets(p, c) = "free" ELSE Sets(p, c) = "same"
  BY <1>1, SetsOf
<1>4. Len(h) \in Nat /\ DOMAIN h = 1..Len(h) BY LenProperties
<1> HIDE DEF c
<1>5. s \in Seq({c}) /\ Len(s) = Len(h) /\ DOMAIN s = 1..Len(h) /\ \A i \in DOMAIN s : s[i] = c
  BY <1>4
<1> HIDE DEF s
<1>6. CASE ~Closing(p)
  <2>1. \A i \in DOMAIN s : Sets(p, s[i]) = "same" /\ Allowed(p, t, s[i], m)
    BY <1>2, <1>3, <1>5, <1>6
  <2>2. t = "main" \/ m = "free" BY <1>6 DEF Modes
  <2>3. Fine(p, t, s, m) BY <1>5, <2>1, <2>2, SameFine
  <2> QED BY <2>1, <2>3 DEF s, c, CallsIn
<1>7. CASE Closing(p) /\ h = <<>>
  <2>1. DOMAIN s = {} BY <1>5, <1>7
  <2>2. t = "main" \/ m = "free" BY <1>7 DEF Modes
  <2>3. Fine(p, t, s, m) BY <1>5, <2>1, <2>2, SameFine
  <2>4. CallsIn(s) = {} BY <2>1 DEF CallsIn
  <2> QED BY <2>3, <2>4 DEF s, c
<1>8. CASE Closing(p) /\ h # <<>>
  <2>1. m = "guarded" BY <1>8
  <2>2. Len(h) = 1
    <3>1. Len(h) # 0 BY <1>8, EmptySeq
    <3> QED BY <1>4, <1>8, <3>1
  <2>3. DOMAIN s = {1} /\ s[1] = c /\ Len(s) = 1 BY <1>5, <2>2
  <2>4. ASSUME NEW n \in Modes, InMode(p, s, m, 1, n) PROVE n = m
    <3>1. 1 \in Nat /\ 1 .. (1 - 1) = {} OBVIOUS
    <3> QED BY <2>4, <3>1 DEF InMode
  <2>5. ASSUME NEW n \in Modes, InMode(p, s, m, 2, n) PROVE n = "free"
    <3>1. 1..(2 - 1) = {1} OBVIOUS
    <3>2. Sets(p, s[1]) = "free" BY <1>3, <1>8, <2>3
    <3> QED BY <2>5, <3>1, <3>2 DEF InMode
  <2>6. Allowed(p, t, s[1], m) BY <1>2, <2>1, <2>3
  <2>7. Settled(p, s)
    <3>1. \A i \in DOMAIN s : s[i].op \notin {"skip", "setcanceltype"} BY <1>1, <1>5 DEF c
    <3> QED BY <3>1 DEF Settled
  <2>8. Len(s) + 1 = 2 BY <2>3
  <2>9. Fine(p, t, s, m) BY <2>3, <2>4, <2>5, <2>6, <2>7, <2>8 DEF Fine
  <2>10. m # "free" BY <2>1
  <2> QED BY <2>9, <2>10 DEF s, c
<1> QED BY <1>6, <1>7, <1>8

\* What a cleanup handler does.
LEMMA HandlerCalls ==
  ASSUME NEW p, LocksWell(p), NEW h \in Handlers(p), h \in DOMAIN p, NEW t \in Created(p),
         NEW S, p[h] \in Seq(S)
  PROVE  /\ \A i \in DOMAIN p[h] : p[h][i].op \notin {"skip", "setcanceltype", "barrier_wait"}
         /\ Closing(p) => Fine(p, t, p[h], "held")
         /\ ~Closing(p) => \A m \in Modes : \A i \in DOMAIN p[h] :
                             Sets(p, p[h][i]) = "same" /\ Allowed(p, t, p[h][i], m)
<1> DEFINE s == p[h]
<1>1. \A i \in DOMAIN s : s[i] \in CallsIn(s) BY DEF CallsIn
<1>2. \A i \in DOMAIN s : s[i].op \notin Involved BY <1>1 DEF LocksWell
<1>3. {"skip", "setcanceltype", "barrier_wait"} \subseteq Involved BY DEF Involved
<1>4. Closing(p) => Fine(p, t, s, "held") BY DEF LocksWell
<1>5. ASSUME ~Closing(p), NEW m \in Modes, NEW i \in DOMAIN s
      PROVE  Sets(p, s[i]) = "same" /\ Allowed(p, t, s[i], m)
  <2>1. \A j \in DOMAIN s : s[j].op # "unlock" BY <1>1, <1>5 DEF Closing
  <2>2. \A j \in DOMAIN s : Sets(p, s[j]) = "same"
    <3> SUFFICES ASSUME NEW j \in DOMAIN s PROVE Sets(p, s[j]) = "same" OBVIOUS
    <3>1. s[j].op \notin {"lock", "timedlock", "unlock"} BY <1>2, <2>1 DEF Involved
    <3> QED BY <1>5, <3>1, SetsOf
  <2>3. Uses(s[i]) \cap Guarded(p) = {}
    <3> SUFFICES ASSUME NEW x \in Guarded(p), x \in Uses(s[i]) PROVE FALSE OBVIOUS
    <3>1. StartMode(p, h) = "free" BY <1>5 DEF StartMode
    <3>2. ~InMode(p, s, "free", i, "free") BY <3>1 DEF Guarded
    <3>3. Len(s) \in Nat /\ DOMAIN s = 1..Len(s) BY LenProperties
    <3>4. i \in Nat /\ \A k \in 1..(i - 1) : k \in DOMAIN s BY <3>3
    <3>5. "free" \in Modes BY DEF Modes
    <3> QED BY <2>2, <3>2, <3>4, <3>5, SameMode
  <2>4. s[i].op \notin Involved /\ s[i].op # "unlock" BY <1>2, <2>1
  <2>5. Allowed(p, t, s[i], m)
    <3> DEFINE c == s[i]
    <3>1. c.op \notin Involved /\ c.op # "unlock" /\ Uses(c) \cap Guarded(p) = {} BY <2>3, <2>4
    <3> HIDE DEF c
    <3>2. Allowed(p, t, c, m)
      BY <3>1 DEF Allowed, Involved, CancelPoints
    <3> QED BY <3>2 DEF c
  <2> QED BY <2>2, <2>5
<1> QED BY <1>2, <1>3, <1>4, <1>5

\* A thread that stays where it is stays in its mode.
LEMMA StaysFits ==
  ASSUME NEW p, NEW t, NEW x, NEW y, NEW h, NEW m, Fits(p, t, x, h, m),
         y.calls = x.calls, y.handlers = x.handlers, y.async => x.async,
         y.pending \/ y.state = "cancelled" => t \in Cancellable(p)
  PROVE  Fits(p, t, y, h, m)
BY DEF Fits

\* One that goes on comes to the mode that its call leads to.
LEMMA NextFits ==
  ASSUME NEW p, LocksWell(p), NEW t, NEW x, NEW y, NEW h, NEW m \in Modes, Fits(p, t, x, h, m),
         NEW S, x.calls \in Seq(S), x.calls # <<>>, y.calls = Tail(x.calls),
         y.handlers = x.handlers, y.async => x.async \/ Head(x.calls).op = "setcanceltype",
         y.pending \/ y.state = "cancelled" => t \in Cancellable(p),
         Head(x.calls).op \notin {"push", "pop"} \/ ~Closing(p),
         NEW g, g => NextMode(p, Head(x.calls), m) # "free",
         NextMode(p, Head(x.calls), m) # "free" => g \/ Tolerant(p)
  PROVE  Fits(p, t, y, g, NextMode(p, Head(x.calls), m))
<1> DEFINE c == Head(x.calls)
           s == x.calls
           n == NextMode(p, c, m)
<1>1. /\ Allowed(p, t, c, m) /\ Fine(p, t, Tail(s), n)
      /\ c.op \in {"skip", "setcanceltype"} =>
           \A i \in DOMAIN Tail(s) : Sets(p, Tail(s)[i]) = "same"
  <2>1. Fine(p, t, s, m) BY DEF Fits
  <2> QED BY <2>1, TailFine
<1>2. Tolerant(p) => ~Closing(p) BY DEF LocksWell
<1>3. \/ Sets(p, c) = "same" /\ n = m
      \/ c.op \in {"lock", "timedlock"} /\ n = "held" /\ m = "free"
      \/ c.op = "unlock" /\ n = "free" /\ (m = "held" \/ ~Closing(p))
  <2>1. CASE Sets(p, c) = "same" BY <2>1 DEF NextMode
  <2>2. CASE Sets(p, c) # "same"
    <3>1. n = Sets(p, c) BY <2>2 DEF NextMode
    <3>2. c.op \in {"lock", "timedlock", "unlock"} BY <2>2, SetsOf
    <3>3. CASE c.op \in {"lock", "timedlock"} BY <1>1, <3>1, <3>3, SetsOf DEF Allowed
    <3>4. CASE c.op = "unlock" BY <1>1, <1>2, <3>1, <3>4, SetsOf DEF Allowed
    <3> QED BY <3>2, <3>3, <3>4
  <2> QED BY <2>1, <2>2
<1>4. n = "guarded" <=> Closing(p) /\ y.handlers # <<>>
  BY <1>3 DEF Fits
<1>5. y.async => n = "free" /\ \A i \in DOMAIN y.calls : Sets(p, y.calls[i]) = "same"
  <2> SUFFICES ASSUME y.async
               PROVE  n = "free" /\ \A i \in DOMAIN Tail(s) : Sets(p, Tail(s)[i]) = "same"
    OBVIOUS
  <2>1. CASE c.op = "setcanceltype"
    <3>1. m = "free" BY <1>1, <2>1 DEF Allowed
    <3>2. n = "free" BY <1>3, <2>1, <3>1
    <3> QED BY <1>1, <2>1, <3>2
  <2>2. CASE x.async
    <3>1. m = "free" /\ \A i \in DOMAIN s : Sets(p, s[i]) = "same" BY <2>2 DEF Fits
    <3>2. /\ DOMAIN s = 1..Len(s) /\ Len(s) \in Nat /\ Len(s) >= 1 /\ Head(s) = s[1]
          /\ DOMAIN Tail(s) = 1..Len(Tail(s)) /\ Len(Tail(s)) = Len(s) - 1
          /\ \A k \in 1..Len(Tail(s)) : Tail(s)[k] = s[k + 1]
      BY HeadTailProperties, LenProperties, EmptySeq
    <3>3. 1 \in DOMAIN s /\ \A i \in DOMAIN Tail(s) : i + 1 \in DOMAIN s BY <3>2
    <3>4. Sets(p, c) = "same" BY <3>1, <3>2, <3>3
    <3>5. n = "free" BY <3>1, <3>4 DEF NextMode
    <3> QED BY <3>1, <3>2, <3>3, <3>5
  <2> QED BY <2>1, <2>2
<1>6. Fits(p, t, y, g, n)
  <2> HIDE DEF c, s, n
  <2>1. Fine(p, t, y.calls, n) BY <1>1 DEF s
  <2>2. (g => n # "free") /\ (n # "free" => g \/ Tolerant(p)) BY DEF n, c
  <2>3. (Closing(p) => Len(y.handlers) <= 1) /\ CallsIn(y.handlers) \subseteq Handlers(p)
    BY DEF Fits
  <2> QED BY <1>4, <1>5, <2>1, <2>2, <2>3 DEF Fits
<1> QED BY <1>6

\* One that jumps over calls stays in its mode.
LEMMA JumpFits ==
  ASSUME NEW p, NEW t, NEW x, NEW y, NEW h, NEW m \in Modes, Fits(p, t, x, h, m),
         NEW S, x.calls \in Seq(S), x.calls # <<>>, Head(x.calls).op = "skip", NEW d \in Nat,
         y.calls = SubSeq(x.calls, d + 2, Len(x.calls)),
         y.handlers = x.handlers, y.async => x.async,
         y.pending \/ y.state = "cancelled" => t \in Cancellable(p)
  PROVE  Fits(p, t, y, h, m)
<1>1. Fine(p, t, x.calls, m) BY DEF Fits
<1>2. Fine(p, t, y.calls, m) /\ \A c \in CallsIn(y.calls) : Sets(p, c) = "same"
  BY <1>1, SuffixFine
<1>3. \A i \in DOMAIN y.calls : Sets(p, y.calls[i]) = "same" BY <1>2 DEF CallsIn
<1> QED BY <1>2, <1>3 DEF Fits

\* One that leaves its routines has its handlers to run.
LEMMA UnwoundFits ==
  ASSUME NEW p, NEW t, NEW x, NEW y, NEW h, NEW m \in Modes, Fits(p, t, x, h, m),
         NEW S, x.handlers \in Seq(S), m # "held" \/ t = "main",
         y.calls = [i \in DOMAIN x.handlers |-> Pop(TRUE)],
         y.handlers = x.handlers, y.async => x.async,
         y.pending \/ y.state = "cancelled" => t \in Cancellable(p)
  PROVE  Fits(p, t, y, h, m)
<1>0. (m = "guarded" <=> Closing(p) /\ x.handlers # <<>>) /\ (Closing(p) => Len(x.handlers) <= 1)
  BY DEF Fits
<1>1. /\ Fine(p, t, y.calls, m)
      /\ m = "free" => \A c \in CallsIn(y.calls) : Sets(p, c) = "same"
  <2> DEFINE u == x.handlers
             s == [i \in DOMAIN u |-> Pop(TRUE)]
  <2>1. u \in Seq(S) /\ y.calls = s OBVIOUS
  <2>2. /\ Fine(p, t, s, m)
        /\ m = "free" => \A c \in CallsIn(s) : Sets(p, c) = "same"
    <3> HIDE DEF u
    <3> QED BY <1>0, <2>1, PopsFine DEF u
  <2> QED BY <2>1, <2>2
<1>2. m = "free" => \A i \in DOMAIN y.calls : Sets(p, y.calls[i]) = "same"
  BY <1>1 DEF CallsIn
<1> QED BY <1>1, <1>2 DEF Fits

\* One that pushes a handler, which it does with the mutex held if that unlocks it.
LEMMA PushFits ==
  ASSUME NEW p, NEW t, NEW x, NEW y, NEW h, NEW m \in Modes, Fits(p, t, x, h, m),
         NEW S, x.calls \in Seq(S), x.calls # <<>>, y.calls = Tail(x.calls),
         Head(x.calls).op = "push", NEW R, x.handlers \in Seq(R), NEW r \in R, r \in Handlers(p),
         y.handlers = <<r>> \o x.handlers, y.async => x.async,
         y.pending \/ y.state = "cancelled" => t \in Cancellable(p)
  PROVE  \E n \in Modes : Fits(p, t, y, h, n)
<1> DEFINE c == Head(x.calls)
           s == x.calls
           n == NextMode(p, c, m)
<1>1. Allowed(p, t, c, m) /\ Fine(p, t, Tail(s), n)
  <2>1. Fine(p, t, s, m) BY DEF Fits
  <2> QED BY <2>1, TailFine
<1>2. IF Closing(p) THEN m = "held" /\ n = "guarded" /\ Sets(p, c) = "guarded"
      ELSE n = m /\ Sets(p, c) = "same"
  BY <1>1, SetsOf DEF NextMode, Allowed
<1>3. CallsIn(y.handlers) \subseteq Handlers(p) /\ y.handlers # <<>>
      /\ Len(y.handlers) = Len(x.handlers) + 1
  <2>1. <<r>> \in Seq(R) /\ Len(<<r>>) = 1 /\ CallsIn(<<r>>) = {r} BY DEF CallsIn
  <2>2. CallsIn(y.handlers) \subseteq CallsIn(<<r>>) \cup CallsIn(x.handlers)
    BY <2>1, CallsOfParts
  <2>3. Len(y.handlers) = 1 + Len(x.handlers) /\ Len(x.handlers) \in Nat
    BY <2>1, ConcatProperties, LenProperties
  <2>4. y.handlers # <<>> BY <2>3
  <2> QED BY <2>1, <2>2, <2>3, <2>4 DEF Fits
<1>4. Closing(p) => x.handlers = <<>> BY <1>2 DEF Fits
<1>5. Closing(p) => Len(y.handlers) <= 1 BY <1>3, <1>4
<1>6. y.async => n = "free" /\ \A i \in DOMAIN y.calls : Sets(p, y.calls[i]) = "same"
  <2> SUFFICES ASSUME x.async
               PROVE  n = "free" /\ \A i \in DOMAIN Tail(s) : Sets(p, Tail(s)[i]) = "same"
    OBVIOUS
  <2>1. m = "free" /\ \A i \in DOMAIN s : Sets(p, s[i]) = "same" BY DEF Fits
  <2>2. ~Closing(p) BY <1>2, <2>1
  <2>3. /\ DOMAIN s = 1..Len(s) /\ Len(s) \in Nat
        /\ DOMAIN Tail(s) = 1..Len(Tail(s)) /\ Len(Tail(s)) = Len(s) - 1
        /\ \A k \in 1..Len(Tail(s)) : Tail(s)[k] = s[k + 1]
    BY HeadTailProperties, LenProperties
  <2>4. \A i \in DOMAIN Tail(s) : i + 1 \in DOMAIN s BY <2>3
  <2> QED BY <1>2, <2>1, <2>2, <2>3, <2>4
<1>7. n \in Modes BY NextModes
<1>8. Fits(p, t, y, h, n)
  <2> HIDE DEF c, s, n
  <2>1. Fine(p, t, y.calls, n) BY <1>1 DEF s
  <2>2. n = "guarded" <=> Closing(p) /\ y.handlers # <<>> BY <1>2, <1>3 DEF Fits
  <2>3. (h => n # "free") /\ (n # "free" => h \/ Tolerant(p))
    <3>1. (h => m # "free") /\ (m # "free" => h \/ Tolerant(p)) BY DEF Fits
    <3> QED BY <1>2, <3>1
  <2> QED BY <1>3, <1>5, <1>6, <2>1, <2>2, <2>3 DEF Fits
<1> QED BY <1>7, <1>8

\* One that pops its last handler, and runs it if that unlocks the mutex.
LEMMA PopFits ==
  ASSUME NEW p, LocksWell(p), NEW t \in Created(p),
         NEW x, NEW y, NEW h, NEW m \in Modes, Fits(p, t, x, h, m),
         NEW S, x.calls \in Seq(S), x.calls # <<>>, Head(x.calls).op = "pop",
         NEW R, x.handlers \in Seq(R), x.handlers # <<>>, NEW r, r = Head(x.handlers),
         r \in DOMAIN p, p[r] \in Seq(S),
         y.calls = IF Head(x.calls).obj = "run" THEN p[r] \o Tail(x.calls) ELSE Tail(x.calls),
         y.handlers = Tail(x.handlers), y.async => x.async,
         y.pending \/ y.state = "cancelled" => t \in Cancellable(p)
  PROVE  \E n \in Modes : Fits(p, t, y, h, n)
<1> DEFINE c == Head(x.calls)
           s == x.calls
           a == p[r]
           b == Tail(s)
           k == x.handlers
<1>1. Allowed(p, t, c, m) /\ Fine(p, t, b, NextMode(p, c, m))
  <2>1. Fine(p, t, s, m) BY DEF Fits
  <2> QED BY <2>1, TailFine
<1>2. /\ s \in Seq(S) /\ Len(s) \in Nat /\ DOMAIN s = 1..Len(s)
      /\ b \in Seq(S) /\ Len(b) = Len(s) - 1 /\ DOMAIN b = 1..Len(b)
      /\ \A i \in 1..Len(b) : b[i] = s[i + 1]
  BY HeadTailProperties, LenProperties
<1>3. /\ k \in Seq(R) /\ Len(k) \in Nat /\ Len(k) >= 1 /\ Tail(k) \in Seq(R)
      /\ Len(Tail(k)) = Len(k) - 1 /\ r \in CallsIn(k) /\ CallsIn(Tail(k)) \subseteq CallsIn(k)
  BY HeadTailProperties, LenProperties, EmptySeq, CallsOfParts
<1>4. r \in Handlers(p) /\ CallsIn(Tail(k)) \subseteq Handlers(p) BY <1>3 DEF Fits
<1>5. /\ \A i \in DOMAIN a : a[i].op \notin {"skip", "setcanceltype", "barrier_wait"}
      /\ Closing(p) => Fine(p, t, a, "held")
      /\ ~Closing(p) => \A n \in Modes : \A i \in DOMAIN a :
                          Sets(p, a[i]) = "same" /\ Allowed(p, t, a[i], n)
  BY <1>4, HandlerCalls
<1>6. a \in Seq(S) /\ Len(a) \in Nat /\ DOMAIN a = 1..Len(a) BY LenProperties
<1>7. y.calls = IF c.obj = "run" THEN a \o b ELSE b OBVIOUS
<1>8. t # "main" BY DEF LocksWell, MainAlone, Created
<1>9. Robust(p) => ~Closing(p) BY DEF LocksWell, Robust, Tolerant
<1>10. {"free", "held"} \subseteq Modes BY DEF Modes
<1>11. c.op = "pop" /\ y.handlers = Tail(k) OBVIOUS
<1>12. CASE Closing(p)
  <2>1. m = "guarded" /\ c.obj = "run" BY <1>1, <1>11, <1>12 DEF Allowed
  <2>2. NextMode(p, c, m) = "free" BY <1>11, <1>12, SetsOf DEF NextMode
  <2> HIDE DEF a, b, c
  <2>3. /\ \A i \in DOMAIN a : \A n \in Modes : InMode(p, a, "held", i, n) => Allowed(p, t, a[i], n)
        /\ \A n \in Modes : InMode(p, a, "held", Len(a) + 1, n) => n = "free"
    BY <1>5, <1>8, <1>9, <1>12 DEF Fine
  <2>4. Fine(p, t, a \o b, "held")
    BY <1>1, <1>2, <1>5, <1>6, <1>10, <2>2, <2>3, ConcatFine
  <2>5. Len(k) = 1
    <3>1. Len(k) <= 1
      <4>1. Len(x.handlers) <= 1 BY <1>12 DEF Fits
      <4> QED BY <4>1
    <3>2. Len(k) \in Nat /\ Len(k) >= 1 BY <1>3
    <3> HIDE DEF k
    <3> DEFINE l == Len(k)
    <3>3. l \in Nat /\ l >= 1 /\ l <= 1 BY <3>1, <3>2
    <3> HIDE DEF l
    <3>4. l = 1 BY <3>3
    <3> QED BY <3>4 DEF l
  <2>6. Tail(k) = <<>>
    <3>1. Len(Tail(k)) = 0 BY <1>3, <2>5
    <3> QED BY <1>3, <3>1, EmptySeq
  <2>7. ~y.async BY <2>1 DEF Fits
  <2>8. h \/ Tolerant(p) BY <2>1 DEF Fits
  <2>9. Len(y.handlers) <= 1
    <3>1. y.handlers = <<>> BY <1>11, <2>6
    <3>2. Len(<<>>) <= 1 OBVIOUS
    <3> QED BY <3>1, <3>2, Zenon
  <2>10. Fits(p, t, y, h, "held")
    BY <1>4, <1>7, <1>11, <2>1, <2>4, <2>6, <2>7, <2>8, <2>9 DEF Fits
  <2> QED BY <1>10, <2>10
<1>13. CASE ~Closing(p)
  <2>1. Sets(p, c) = "same" BY <1>11, <1>13, SetsOf
  <2>2. NextMode(p, c, m) = m BY <2>1 DEF NextMode
  <2>3. Fine(p, t, b, m) BY <1>1, <2>2
  <2>4. Fine(p, t, a \o b, m)
    <3> HIDE DEF a, b
    <3>1. ASSUME NEW i \in 1..(Len(a) + 1), NEW n \in Modes, InMode(p, a, m, i, n) PROVE n = m
      <4>1. i \in Nat /\ \A j \in 1..(i - 1) : j \in DOMAIN a BY <1>6
      <4>2. \A j \in DOMAIN a : Sets(p, a[j]) = "same" BY <1>5, <1>13
      <4> QED BY <3>1, <4>1, <4>2, SameMode
    <3>2. \A i \in DOMAIN a : \A n \in Modes : InMode(p, a, m, i, n) => Allowed(p, t, a[i], n)
      <4>1. \A i \in DOMAIN a : i \in 1..(Len(a) + 1) BY <1>6
      <4> QED BY <1>5, <1>13, <3>1, <4>1
    <3>3. \A n \in Modes : InMode(p, a, m, Len(a) + 1, n) => n = m
      <4>1. Len(a) + 1 \in 1..(Len(a) + 1) BY <1>6
      <4> QED BY <3>1, <4>1
    <3> QED BY <1>2, <1>5, <1>6, <2>3, <3>2, <3>3, ConcatFine
  <2>5. Fine(p, t, y.calls, m) BY <1>7, <2>3, <2>4
  <2>6. y.async => m = "free" /\ \A i \in DOMAIN y.calls : Sets(p, y.calls[i]) = "same"
    <3> SUFFICES ASSUME x.async
                 PROVE  m = "free" /\ \A i \in DOMAIN y.calls : Sets(p, y.calls[i]) = "same"
      OBVIOUS
    <3>1. m = "free" /\ \A i \in DOMAIN s : Sets(p, s[i]) = "same" BY DEF Fits
    <3>2. \A d \in CallsIn(s) : Sets(p, d) = "same" BY <3>1 DEF CallsIn
    <3>3. CallsIn(b) \subseteq CallsIn(s) BY <1>2, CallsOfParts
    <3>4. \A d \in CallsIn(a) : Sets(p, d) = "same"
      <4>1. \A i \in DOMAIN a : Sets(p, a[i]) = "same" BY <1>5, <1>10, <1>13
      <4> QED BY <4>1 DEF CallsIn
    <3>5. CallsIn(a \o b) \subseteq CallsIn(a) \cup CallsIn(b)
      <4>1. a \in Seq(S) /\ b \in Seq(S) BY <1>2, <1>6
      <4> HIDE DEF a, b
      <4> QED BY <4>1, CallsOfParts
    <3>6. CallsIn(y.calls) \subseteq CallsIn(a) \cup CallsIn(b) BY <1>7, <3>5
    <3>7. \A d \in CallsIn(y.calls) : Sets(p, d) = "same" BY <3>2, <3>3, <3>4, <3>6
    <3> QED BY <3>1, <3>7 DEF CallsIn
  <2>7. m # "guarded" BY <1>13 DEF Fits
  <2>8. (h => m # "free") /\ (m # "free" => h \/ Tolerant(p)) BY DEF Fits
  <2>9. Fits(p, t, y, h, m)
    BY <1>4, <1>11, <1>13, <2>5, <2>6, <2>7, <2>8 DEF Fits
  <2> QED BY <2>9
<1> QED BY <1>12, <1>13

-----------------------------------------------------------------------------
(* What the steps do to the mutex. *)

\* The library stays what it is, and few steps change the mutex.
LEMMA MutexFrame ==
  ASSUME NEW t, Step(t) \/ TimerRunsOut(t) \/ WokenByNothing(t)
  PROVE  /\ bug' = bug
         /\ \/ mutex' = mutex
            \/ MutexInitialised(t) \/ MutexLocked(t) \/ MutexUnlocked(t) \/ MutexConsistent(t)
            \/ CondWaiting(t) \/ WaitReturns(t) \/ ThreadEnds(t)
<1>1. CASE Returning(t)
  BY <1>1
  DEF Returning, SetVariable, CheckVariable, MutexInitialised, MutexDestroyed,
      MutexLocked, MutexUnlocked, MutexConsistent, CondDestroyed, ThreadDetached,
      SemInitialised, SemPosted, SemWaited, SemValue, BarrierDestroyed,
      SpecificChecked, RwLocked, RwUnlocked, ShmOpened, TlsChecked, ModuleOpened,
      SymbolFound, ObjectCalled, ModuleClosed, SemOpened, SemClosed, SemUnlinked,
      rest, objects, flags
<1>2. CASE Blocking(t)
  BY <1>2
  DEF Blocking, CondWaiting, CondSignalled, CondBroadcast, WokenByNothing,
      ThreadCancelled, CancelStateSet, CancelWait, TlsAdded, WaitReturns, ThreadEnds,
      BarrierReached, FrameLeft, Crashes, TimerRunsOut, rest, objects
<1>3. CASE Leaping(t)
  BY <1>3
  DEF Leaping, Skip, ThreadCreated, ThreadJoined, HandlerPushed, HandlerPopped,
      ThreadExits, CancelActs, WaitReturns, OnceCalled, SpecificSet, objects, rest
<1> QED BY <1>1, <1>2, <1>3, StepKinds

\* Few steps can misuse an object.
LEMMA MisusedFrame ==
  ASSUME NEW t, Step(t) \/ TimerRunsOut(t) \/ WokenByNothing(t)
  PROVE  \/ misused' = misused
         \/ MutexDestroyed(t) \/ MutexUnlocked(t) \/ CondWaiting(t) \/ CondDestroyed(t)
         \/ BarrierDestroyed(t) \/ FrameLeft(t)
<1>1. CASE Returning(t)
  BY <1>1
  DEF Returning, SetVariable, CheckVariable, MutexInitialised, MutexDestroyed,
      MutexLocked, MutexUnlocked, MutexConsistent, CondDestroyed, ThreadDetached,
      SemInitialised, SemPosted, SemWaited, SemValue, BarrierDestroyed,
      SpecificChecked, RwLocked, RwUnlocked, ShmOpened, TlsChecked, ModuleOpened,
      SymbolFound, ObjectCalled, ModuleClosed, SemOpened, SemClosed, SemUnlinked,
      flags, history
<1>2. CASE Blocking(t)
  BY <1>2
  DEF Blocking, CondWaiting, CondSignalled, CondBroadcast, WokenByNothing,
      ThreadCancelled, CancelStateSet, CancelWait, TlsAdded, WaitReturns, ThreadEnds,
      BarrierReached, FrameLeft, Crashes, TimerRunsOut, flags, history
<1>3. CASE Leaping(t)
  BY <1>3
  DEF Leaping, Skip, ThreadCreated, ThreadJoined, HandlerPushed, HandlerPopped,
      ThreadExits, CancelActs, WaitReturns, OnceCalled, SpecificSet, flags, history
<1> QED BY <1>1, <1>2, <1>3, StepKinds

\* The thread that takes a step has been created and not ended.
LEMMA StepperWorks ==
  ASSUME TypeOK, NEW t \in Threads, Step(t) \/ TimerRunsOut(t) \/ WokenByNothing(t)
  PROVE  Working(t) /\ ~exited
<1>1. CASE Returning(t) BY <1>1, ReturningGoes
<1>2. CASE Blocking(t)
  BY <1>2, AtAlive
  DEF Blocking, CondWaiting, CondSignalled, CondBroadcast, WokenByNothing,
      ThreadCancelled, CancelStateSet, CancelWait, MayCancelWait, TlsAdded, WaitReturns,
      ThreadEnds, BarrierReached, FrameLeft, Crashes, TimerRunsOut, Timed, Runs, Working, LeavingWait
<1>3. CASE Leaping(t)
  BY <1>3, AtAlive
  DEF Leaping, Skip, ThreadCreated, ThreadJoined, HandlerPushed, HandlerPopped,
      ThreadExits, CancelActs, MustCancel, WaitReturns, OnceCalled, SpecificSet, Runs,
      Working, LeavingWait
<1> QED BY <1>1, <1>2, <1>3, StepKinds

-----------------------------------------------------------------------------
(* What a program that uses its mutex well keeps to. *)

\* What holds of a test that uses its locks well, with a correct library.
LockInv ==
  /\ TypeOK /\ BlockedInWait /\ MainInPlace /\ WorkersInPlace /\ JoinsAhead(Variables)
  /\ bug = "none" /\ ~exited /\ LocksWell(Programs[test]) /\ ModesKept /\ MutexKept

\* The calls of threads are those of the test, but for two of the library.
LEMMA CallsOfTest ==
  ASSUME TypeOK, NEW t \in Threads, InCall(t)
  PROVE  /\ th[t].calls \in Seq(CallsOf(Programs[test])) /\ th[t].calls # <<>>
         /\ Head(th[t].calls) = Now(t)
         /\ Now(t) \in AllCalls(Programs[test]) \/ Now(t).op \in {"pop", "set"}
<1> DEFINE p == Programs[test]
<1>1. th[t].calls \in Seq(CallsOf(p)) /\ th[t].calls # <<>> /\ Head(th[t].calls) = Now(t)
  BY DEF TypeOK, ThreadsOK, Thread, InCall, Now
<1>2. Now(t) \in CallsOf(p) BY <1>1, HeadTailProperties
<1>3. Now(t) \in AllCalls(p) \/ Now(t).op \in {"pop", "set"}
  BY <1>2, LibraryCalls DEF CallsOf, AllCalls
<1> QED BY <1>1, <1>3

\* A thread that is cancelled is one that the text cancels.
LEMMA CancelledByTest ==
  ASSUME TypeOK, NEW u, Cancelled(u) PROVE u \in Cancellable(Programs[test])
<1>1. PICK t \in Threads : InCall(t) /\ Now(t).op = "cancel" /\ Now(t).obj = u
  BY DEF Cancelled
<1>2. Now(t) \in AllCalls(Programs[test]) BY <1>1, CallsOfTest
<1> QED BY <1>1, <1>2 DEF Cancellable

\* A thread is in a mode in which it may make its call.
LEMMA NowAllowed ==
  ASSUME TypeOK, NEW t \in Threads, InCall(t), NEW p, NEW h, NEW m \in Modes,
         Fits(p, t, th[t], h, m)
  PROVE  Allowed(p, t, Now(t), m)
<1> DEFINE s == th[t].calls
<1>1. s \in Seq(CallsOf(Programs[test])) /\ s # <<>> /\ Head(s) = Now(t) BY CallsOfTest
<1>2. Fine(p, t, s, m) BY DEF Fits
<1> QED BY <1>1, <1>2, TailFine

\* A thread works in a mode, and holds the mutex in it unless the mutex is tolerant.
LEMMA ModeOf ==
  ASSUME LockInv, NEW t \in Threads, Working(t)
  PROVE  \E m \in Modes :
           /\ Fits(Programs[test], t, th[t], Holds(t), m)
           /\ InCall(t) => Allowed(Programs[test], t, Now(t), m)
           /\ Holds(t) => m # "free"
           /\ m # "free" => Holds(t) \/ Tolerant(Programs[test])
<1> DEFINE p == Programs[test]
<1>1. PICK m \in Modes : Fits(p, t, th[t], Holds(t), m) BY DEF LockInv, ModesKept
<1>2. InCall(t) => Allowed(p, t, Now(t), m) BY <1>1, NowAllowed DEF LockInv
<1>3. (Holds(t) => m # "free") /\ (m # "free" => Holds(t) \/ Tolerant(p)) BY <1>1 DEF Fits
<1> QED BY <1>1, <1>2, <1>3

\* While main() makes or destroys an object, no other thread uses it, and no other
\* thread is there when it leaves the frame of them.
LEMMA MainApart ==
  ASSUME LockInv, InCall("main"), NEW w \in Workers
  PROVE  /\ Now("main").op # "leave"
         /\ Now("main").op \in {"mutex_init", "mutex_destroy"} =>
              \A c \in FamilyCalls(Programs[test], w) : c.op \notin MutexUses
         /\ Now("main").op = "cond_destroy" =>
              \A c \in FamilyCalls(Programs[test], w) : c.op \notin CondWaits
         /\ Now("main").op = "create" => Now("main").obj # w
<1> DEFINE p == Programs[test]
           c == Now("main")
<1>1. TypeOK /\ MainInPlace /\ JoinsAhead(Variables) BY DEF LockInv
<1>2. Done \in Nat /\ Len(Main) \in Nat /\ Done + 1 \in DOMAIN Main
      /\ DOMAIN Main = 1..Len(Main) /\ c = Main[Done + 1]
  BY <1>1, MainFacts
<1>3. Done + 1 \in (Done + 1)..Len(Main) BY <1>2
<1>4. ~JoinedBefore(Main, w, Done, Done + 1) BY <1>2, NoneBetween
<1>5. ~Conflicts(p, Variables, c, w) BY <1>1, <1>2, <1>3, <1>4 DEF JoinsAhead
<1>6. (Changes(c) \cap AllUses(p, w)) \ Variables = {} BY <1>5 DEF Conflicts
<1>7. /\ "the mutex" \notin Variables /\ "the condition variable" \notin Variables
      /\ "the frame" \notin Variables
  BY DEF Variables
<1>8. \A d \in FamilyCalls(p, w) : Relies(d) \subseteq AllUses(p, w) BY FamilyFacts
<1>9. \A d \in FamilyCalls(p, w) :
        /\ d.op \in MutexUses => "the mutex" \in AllUses(p, w)
        /\ d.op \in CondWaits => "the condition variable" \in AllUses(p, w)
  BY <1>8 DEF Relies
<1>10. c.op \in {"mutex_init", "mutex_destroy"} => "the mutex" \in Changes(c) BY DEF Changes
<1>11. c.op = "cond_destroy" => "the condition variable" \in Changes(c) BY DEF Changes
<1>12. c.op = "create" => c.obj # w BY <1>5 DEF Conflicts
<1>13. "the frame" \in AllUses(p, w) /\ (c.op = "leave" => "the frame" \in Changes(c))
  BY DEF AllUses, Changes
<1> QED BY <1>6, <1>7, <1>9, <1>10, <1>11, <1>12, <1>13

\* The owner of the mutex is main() or a worker that uses it.
LEMMA OwnerIs ==
  ASSUME LockInv, mutex.owner # NoOne
  PROVE  /\ mutex.owner \in Threads /\ mutex.count = 1 /\ Working(mutex.owner)
         /\ ~Waits(mutex.owner)
         /\ \/ mutex.owner = "main"
            \/ /\ mutex.owner \in Workers
               /\ \E c \in FamilyCalls(Programs[test], mutex.owner) : c.op \in MutexUses
<1>1. mutex.owner \in Threads BY DEF LockInv, TypeOK, MutexOK
<1>2. /\ mutex.count = 1 /\ th[mutex.owner].state \in {"running", "barrier"}
      /\ mutex.owner # "main" =>
           \E c \in FamilyCalls(Programs[test], mutex.owner) : c.op \in MutexUses
  BY DEF LockInv, MutexKept
<1>3. Working(mutex.owner) /\ ~Waits(mutex.owner) /\ Alive(mutex.owner)
  BY <1>2 DEF Working, Waits, LeavingWait, Alive
<1> QED BY <1>1, <1>2, <1>3 DEF Workers

\* A thread that makes the mutex is main(), and nobody owns the mutex then; no
\* more when it destroys it or leaves its frame.
LEMMA NobodyOwns ==
  ASSUME LockInv, NEW t \in Threads,
         At(t, "mutex_init") \/ At(t, "mutex_destroy") \/ At(t, "leave")
  PROVE  t = "main" /\ mutex.owner = NoOne
<1>1. InCall(t) /\ Working(t) /\ Now(t).op \in {"mutex_init", "mutex_destroy", "leave"}
  BY AtAlive DEF At
<1>2. t = "main" /\ ~Holds(t) BY <1>1, ModeOf DEF Allowed
<1>3. mutex.owner # "main" BY <1>2 DEF Holds
<1> QED BY <1>1, <1>2, <1>3, OwnerIs, MainApart

\* A call that nobody may make before the mutex has been made.
LEMMA TypeGiven ==
  ASSUME LockInv, InitFirst(Programs[test]), NEW t \in Threads, Working(t), InCall(t),
         Now(t).op # "mutex_init"
  PROVE  mutex.type \in InitTypes(Programs[test])
<1> SUFFICES ASSUME Workers = {}, Done = 0 \/ Done = Len(Main) PROVE FALSE
  BY DEF LockInv, MutexKept
<1>1. TypeOK /\ MainInPlace BY DEF LockInv
<1>2. t = "main" BY DEF Workers, Alive, Working
<1>3. /\ Done \in Nat /\ Len(Main) \in Nat /\ DOMAIN Main = 1..Len(Main)
      /\ Done + 1 \in DOMAIN Main /\ Now("main") = Main[Done + 1]
  BY <1>1, <1>2, MainFacts
<1>4. Done = 0
  <2> DEFINE d == Done
             l == Len(Main)
             D == DOMAIN Main
  <2>1. d \in Nat /\ l \in Nat /\ d + 1 \in D /\ D = 1..l /\ (d = 0 \/ d = l) BY <1>3
  <2> HIDE DEF d, l, D
  <2>2. d = 0 BY <2>1
  <2> QED BY <2>2 DEF d
<1>5. Now("main") = Main[1] BY <1>3, <1>4
<1> QED BY <1>2, <1>5 DEF InitFirst, Main

\* A thread that locks the mutex does not hold it, and owns it then, unless the
\* mutex cannot be recovered.
LEMMA LockStep ==
  ASSUME LockInv, NEW t \in Threads, MutexLocked(t)
  PROVE  /\ InCall(t) /\ Working(t) /\ ~Waits(t) /\ Now(t).op \in {"lock", "timedlock"}
         /\ mutex.owner # t
         /\ \/ mutex' = mutex /\ Tolerant(Programs[test])
            \/ /\ mutex.owner = NoOne /\ mutex'.owner = t /\ mutex'.count = 1
               /\ mutex'.type = mutex.type /\ mutex'.mark = mutex.mark
<1> DEFINE p == Programs[test]
<1>1. /\ InCall(t) /\ Working(t) /\ ~Waits(t) /\ Now(t).op \in {"lock", "timedlock"}
      /\ MayLock(t) /\ mutex' = Locked(t)
  BY AtAlive DEF MutexLocked, At
<1>2. mutex.owner # t BY <1>1, ModeOf DEF Allowed, Holds
<1>3. mutex \in [type : MutexTypes, owner : Threads \cup {NoOne}, count : Nat,
                 mark : {"sound", "dead", "lost"}]
      /\ (mutex.owner = NoOne <=> mutex.count = 0)
  BY DEF LockInv, TypeOK, MutexOK
<1>4. CASE mutex.mark = "lost"
  <2>1. mutex' = mutex BY <1>1, <1>4 DEF Locked, LockResult
  <2>2. Tolerant(p) BY <1>4 DEF LockInv, MutexKept
  <2> QED BY <1>1, <1>2, <2>1, <2>2
<1>5. CASE mutex.mark # "lost"
  <2>1. mutex.owner = NoOne /\ mutex.count = 0 BY <1>1, <1>2, <1>3, <1>5 DEF MayLock
  <2>2. LockResult(t) \notin {EDEADLK, ENOTRECOVERABLE}
    BY <1>2, <1>5 DEF LockResult, EDEADLK, ENOTRECOVERABLE, EOWNERDEAD
  <2>3. mutex' = [mutex EXCEPT !.owner = t, !.count = @ + 1] BY <1>1, <2>2 DEF Locked
  <2>4. /\ mutex'.owner = t /\ mutex'.count = 1
        /\ mutex'.type = mutex.type /\ mutex'.mark = mutex.mark
    BY <1>3, <2>1, <2>3
  <2> QED BY <1>1, <1>2, <2>1, <2>4
<1> QED BY <1>4, <1>5

\* A thread that unlocks the mutex owns it, or the mutex notices.
LEMMA UnlockStep ==
  ASSUME LockInv, NEW t \in Threads, MutexUnlocked(t)
  PROVE  /\ InCall(t) /\ Working(t) /\ ~Waits(t) /\ Now(t).op = "unlock"
         /\ misused' = misused
         /\ \/ mutex.owner = t /\ mutex' = Released
            \/ mutex.owner # t /\ mutex' = mutex /\ Tolerant(Programs[test])
<1> DEFINE p == Programs[test]
<1>1. InCall(t) /\ Working(t) /\ ~Waits(t) /\ Now(t).op = "unlock"
  BY AtAlive DEF MutexUnlocked, At
<1>2. CASE mutex.owner = t
  <2>1. mutex.count = 1
    <3>1. mutex.owner # NoOne BY <1>2, NoOneElse
    <3> QED BY <3>1, OwnerIs
  <2>2. mutex' = Released /\ misused' = misused BY <1>2, <2>1 DEF MutexUnlocked
  <2> QED BY <1>1, <1>2, <2>2
<1>3. CASE mutex.owner # t
  <2>1. Tolerant(p) BY <1>1, <1>3, ModeOf DEF Allowed, Holds
  <2>2. mutex.type \in InitTypes(p) BY <1>1, <2>1, TypeGiven DEF Tolerant
  <2>3. mutex.type # "normal" /\ bug # "type_ignored"
    BY <2>1, <2>2 DEF Tolerant, LockInv
  <2>4. mutex' = mutex /\ misused' = misused BY <1>3, <2>3 DEF MutexUnlocked
  <2> QED BY <1>1, <1>3, <2>1, <2>4
<1> QED BY <1>2, <1>3

\* Condition waits are made with a normal mutex, which is never lost.
LEMMA WaitsNormally ==
  ASSUME LockInv, NEW t \in Threads, InCall(t), Now(t).op \in CondWaits
  PROVE  ~Tolerant(Programs[test]) /\ mutex.mark = "sound"
<1>1. Now(t) \in AllCalls(Programs[test])
  BY CallsOfTest DEF LockInv, CondWaits
<1>2. ~Tolerant(Programs[test]) BY <1>1 DEF LockInv, LocksWell
<1> QED BY <1>2 DEF LockInv, MutexKept

\* A thread that waits owns the mutex before, and lets it go.
LEMMA WaitStep ==
  ASSUME LockInv, NEW t \in Threads, CondWaiting(t)
  PROVE  /\ InCall(t) /\ Working(t) /\ ~Waits(t) /\ Now(t).op \in CondWaits
         /\ misused' = misused /\ mutex.owner = t
         /\ \/ Goes(t) /\ mutex' = mutex
            \/ th' = [th EXCEPT ![t].state = "waiting"] /\ mutex' = Released
<1> DEFINE p == Programs[test]
<1>1. InCall(t) /\ Working(t) /\ ~Waits(t) /\ Now(t).op \in CondWaits
  BY AtAlive DEF CondWaiting, At
<1>2. ~Tolerant(p) BY <1>1, WaitsNormally
<1>3. mutex.owner = t BY <1>1, <1>2, ModeOf DEF Allowed, Holds
<1>4. misused \in BOOLEAN BY DEF LockInv, TypeOK, FlagsOK
<1> QED BY <1>1, <1>3, <1>4 DEF CondWaiting

\* A thread that has waited owns the mutex again.
LEMMA ReturnStep ==
  ASSUME LockInv, NEW t \in Threads, WaitReturns(t)
  PROVE  /\ InCall(t) /\ Working(t) /\ Waits(t) /\ Now(t).op \in CondWaits
         /\ ~Tolerant(Programs[test])
         /\ mutex.owner = NoOne /\ mutex'.owner = t /\ mutex'.count = 1
         /\ mutex'.type = mutex.type /\ mutex'.mark = mutex.mark
<1>1. th[t].state \in LeavingWait /\ MayLock(t) /\ mutex' = Locked(t) BY DEF WaitReturns
<1>2. InCall(t) /\ Working(t) /\ Waits(t)
  BY <1>1 DEF LockInv, TypeOK, ThreadsOK, InCall, Working, Waits, LeavingWait
<1>3. Now(t).op \in CondWaits
  BY <1>1 DEF LockInv, BlockedInWait, Blocks, BlocksIn, LeavingWait
<1>4. ~Tolerant(Programs[test]) /\ mutex.mark = "sound" BY <1>2, <1>3, WaitsNormally
<1>5. mutex.owner # t
  <2>1. t # NoOne BY NoOneElse
  <2> QED BY <1>2, <2>1, OwnerIs
<1>6. mutex \in [type : MutexTypes, owner : Threads \cup {NoOne}, count : Nat,
                 mark : {"sound", "dead", "lost"}]
      /\ (mutex.owner = NoOne <=> mutex.count = 0)
  BY DEF LockInv, TypeOK, MutexOK
<1>7. mutex.owner = NoOne /\ mutex.count = 0 BY <1>1, <1>4, <1>5, <1>6 DEF MayLock
<1>8. mutex' = [mutex EXCEPT !.owner = t, !.count = @ + 1]
  BY <1>1, <1>4, <1>5 DEF Locked, LockResult, EDEADLK, ENOTRECOVERABLE, EOWNERDEAD
<1>9. /\ mutex'.owner = t /\ mutex'.count = 1
      /\ mutex'.type = mutex.type /\ mutex'.mark = mutex.mark
  BY <1>6, <1>7, <1>8
<1> QED BY <1>2, <1>3, <1>4, <1>7, <1>9

\* A worker that ends does not own the mutex, or that is robust and let go.
LEMMA EndStep ==
  ASSUME LockInv, NEW t \in Threads, ThreadEnds(t), t # "main"
  PROVE  \/ mutex.owner # t /\ mutex' = mutex
         \/ /\ mutex.owner = t /\ mutex'.owner = NoOne /\ Tolerant(Programs[test])
            /\ mutex'.type = mutex.type
<1> DEFINE p == Programs[test]
<1>1. Working(t) /\ th[t].calls = <<>> /\ Alive(t)
  BY DEF ThreadEnds, Runs, InCall, Working, Alive
<1>2. PICK m \in Modes : Fits(p, t, th[t], Holds(t), m) BY <1>1, ModeOf
<1>3. Fine(p, t, <<>>, m) BY <1>1, <1>2 DEF Fits
<1>4. Robust(p) \/ m = "free"
  <2>1. InMode(p, <<>>, m, 1, m) /\ Len(<<>>) + 1 = 1 BY FirstMode
  <2> QED BY <1>3, <2>1 DEF Fine
<1>5. CASE mutex.owner # t BY <1>5 DEF ThreadEnds
<1>6. CASE mutex.owner = t
  <2>1. Robust(p) BY <1>2, <1>4, <1>6 DEF Fits, Holds
  <2>2. mutex.type \in InitTypes(p)
    BY <1>1, <2>1 DEF LockInv, MutexKept, Robust, Workers
  <2>3. mutex.type = "robust" BY <2>1, <2>2 DEF Robust
  <2>4. Tolerant(p) BY <2>2, <2>3 DEF LockInv, LocksWell
  <2>5. mutex' = [mutex EXCEPT !.owner = NoOne, !.count = 0, !.mark = "dead"]
    BY <1>6, <2>3 DEF ThreadEnds, LockInv
  <2>6. mutex'.owner = NoOne /\ mutex'.type = mutex.type
    BY <2>5 DEF LockInv, TypeOK, MutexOK
  <2> QED BY <1>6, <2>4, <2>6
<1> QED BY <1>5, <1>6

\* What a step does to the mutex: it does no more to it than its owner may do, or
\* one who comes to own it.
LEMMA OwnerSteps ==
  ASSUME LockInv, NEW t \in Threads, Step(t) \/ TimerRunsOut(t) \/ WokenByNothing(t), ~exited'
  PROVE  /\ \/ mutex'.owner = mutex.owner /\ mutex'.count = mutex.count
            \/ /\ mutex.owner = NoOne /\ mutex'.owner = t /\ mutex'.count = 1
               /\ MutexLocked(t) \/ WaitReturns(t)
            \/ /\ mutex.owner = t /\ mutex'.owner = NoOne
               /\ MutexUnlocked(t) \/ CondWaiting(t) \/ ThreadEnds(t)
         /\ \/ mutex'.type = mutex.type
            \/ MutexInitialised(t) /\ mutex'.type \in InitTypes(Programs[test])
         /\ Tolerant(Programs[test]) \/ mutex'.mark = "sound"
<1> DEFINE p == Programs[test]
<1>0. mutex \in [type : MutexTypes, owner : Threads \cup {NoOne}, count : Nat,
                 mark : {"sound", "dead", "lost"}]
      /\ (mutex.owner = NoOne <=> mutex.count = 0)
  BY DEF LockInv, TypeOK, MutexOK
<1>m. Tolerant(p) \/ mutex.mark = "sound" BY DEF LockInv, MutexKept
<1>r. /\ Released.owner = NoOne /\ Released.type = mutex.type
      /\ mutex.mark = "sound" => Released.mark = "sound"
  BY <1>0 DEF Released
<1>1. CASE mutex' = mutex BY <1>m, <1>1
<1>2. CASE MutexInitialised(t)
  <2>1. At(t, "mutex_init") /\ mutex' = NewMutex(Now(t).arg) BY <1>2 DEF MutexInitialised
  <2>2. t = "main" /\ mutex.owner = NoOne BY <2>1, NobodyOwns
  <2>3. InCall("main") /\ Now("main").op = "mutex_init" BY <2>1, <2>2 DEF At
  <2>4. Now("main") \in CallsIn(p["main"]) BY <2>3, MainFacts DEF LockInv, Main
  <2>5. Now(t).arg \in InitTypes(p) BY <2>2, <2>3, <2>4 DEF InitTypes
  <2>6. /\ mutex'.owner = NoOne /\ mutex'.count = 0 /\ mutex'.mark = "sound"
        /\ mutex'.type = Now(t).arg
    BY <2>1 DEF NewMutex
  <2> QED BY <1>0, <1>2, <2>2, <2>5, <2>6
<1>3. CASE MutexLocked(t) BY <1>3, <1>m, LockStep
<1>4. CASE MutexUnlocked(t) BY <1>4, <1>m, <1>r, UnlockStep
<1>5. CASE MutexConsistent(t)
  <2>1. mutex' = [mutex EXCEPT !.mark = "sound"] BY <1>5 DEF MutexConsistent
  <2> QED BY <1>0, <2>1
<1>6. CASE CondWaiting(t) BY <1>6, <1>m, <1>r, WaitStep
<1>7. CASE WaitReturns(t) BY <1>7, <1>m, ReturnStep
<1>8. CASE ThreadEnds(t)
  <2>1. t # "main" BY <1>8 DEF ThreadEnds
  <2> QED BY <1>8, <1>m, <2>1, EndStep
<1> QED BY <1>1, <1>2, <1>3, <1>4, <1>5, <1>6, <1>7, <1>8, MutexFrame

\* Only the thread that takes a step gets or lets go of the mutex.
LEMMA HoldsElse ==
  ASSUME LockInv, NEW t \in Threads, Step(t) \/ TimerRunsOut(t) \/ WokenByNothing(t), ~exited',
         NEW u \in Threads, u # t
  PROVE  mutex'.owner = u <=> mutex.owner = u
BY OwnerSteps, NoOneElse

\* The step takes one of its own calls from a thread that makes no use of the mutex in it.
LEMMA OnFits ==
  ASSUME LockInv, test' = test, NEW u \in Threads, InCall(u), Working(u),
         Sets(Programs[test], Now(u)) = "same", Now(u).op \notin {"push", "pop"},
         th'[u].calls = Tail(th[u].calls), th'[u].handlers = th[u].handlers,
         th'[u].async => th[u].async \/ Now(u).op = "setcanceltype",
         th'[u].pending \/ th'[u].state = "cancelled" => u \in Cancellable(Programs[test]),
         Holds(u)' <=> Holds(u)
  PROVE  \E m \in Modes : Fits(Programs[test], u, th'[u], Holds(u)', m)
<1> DEFINE p == Programs[test]
<1>1. PICK m \in Modes : /\ Fits(p, u, th[u], Holds(u), m)
                         /\ Holds(u) => m # "free"
                         /\ m # "free" => Holds(u) \/ Tolerant(p)
  BY ModeOf
<1>2. th[u].calls \in Seq(CallsOf(p)) /\ th[u].calls # <<>> /\ Head(th[u].calls) = Now(u)
  BY CallsOfTest DEF LockInv
<1>3. NextMode(p, Now(u), m) = m BY DEF NextMode
<1>4. LocksWell(p) BY DEF LockInv
<1>5. Fits(p, u, th'[u], Holds(u)', NextMode(p, Head(th[u].calls), m))
  <2>1. Holds(u)' => NextMode(p, Head(th[u].calls), m) # "free" BY <1>1, <1>2, <1>3
  <2>2. NextMode(p, Head(th[u].calls), m) # "free" => Holds(u)' \/ Tolerant(p)
    BY <1>1, <1>2, <1>3
  <2> QED BY <1>1, <1>2, <1>4, <2>1, <2>2, NextFits
<1> QED BY <1>2, <1>3, <1>5

\* Who may be cancelled is cancelled by the test.
LEMMA PendingKept ==
  ASSUME LockInv, NEW u \in Threads, Quiet(u), Working(u)
  PROVE  th'[u].pending \/ th'[u].state = "cancelled" => u \in Cancellable(Programs[test])
<1>1. th[u].pending \/ th[u].state = "cancelled" => u \in Cancellable(Programs[test])
  BY ModeOf DEF Fits
<1>2. Cancelled(u) => u \in Cancellable(Programs[test]) BY CancelledByTest DEF LockInv
<1> QED BY <1>1, <1>2 DEF Quiet

\* A thread that at most goes on from a call that does not lock or unlock.
LEMMA QuietFits ==
  ASSUME LockInv, test' = test, NEW u \in Threads, Quiet(u), Working(u),
         th'[u].calls = th[u].calls \/ Sets(Programs[test], Now(u)) = "same",
         Holds(u)' <=> Holds(u)
  PROVE  \E m \in Modes : Fits(Programs[test], u, th'[u], Holds(u)', m)
<1> DEFINE p == Programs[test]
<1>1. th'[u].pending \/ th'[u].state = "cancelled" => u \in Cancellable(p) BY PendingKept
<1>2. th'[u].handlers = th[u].handlers /\ (th'[u].async => th[u].async \/ SetsType(u))
  BY DEF Quiet
<1>3. CASE th'[u].calls = th[u].calls
  <2>1. ~SetsType(u)
    <3>1. SUFFICES ASSUME InCall(u) PROVE Tail(th[u].calls) # th[u].calls
      BY <1>3 DEF SetsType
    <3>2. th[u].calls \in Seq(CallsOf(p)) /\ th[u].calls # <<>>
      BY <3>1, CallsOfTest DEF LockInv
    <3> DEFINE s == th[u].calls
    <3> HIDE DEF s
    <3>3. s \in Seq(CallsOf(p)) /\ s # <<>> BY <3>2 DEF s
    <3>4. Len(Tail(s)) = Len(s) - 1 /\ Len(s) \in Nat
      BY <3>3, HeadTailProperties, LenProperties
    <3>5. Tail(s) # s BY <3>4
    <3> QED BY <3>5 DEF s
  <2>2. PICK m \in Modes : Fits(p, u, th[u], Holds(u), m) BY ModeOf
  <2>3. Fits(p, u, th[u], Holds(u)', m) BY <2>2 DEF Fits
  <2> QED BY <1>1, <1>2, <1>3, <2>1, <2>3, StaysFits
<1>4. CASE th'[u].calls # th[u].calls
  <2>1. /\ InCall(u) /\ th'[u].calls = Tail(th[u].calls) /\ Sets(p, Now(u)) = "same"
        /\ th[u].state \in Blocks \/ Now(u).op \notin Leaps
    BY <1>4 DEF Quiet, InCall
  <2>2. Now(u).op \notin {"push", "pop"}
    BY <2>1 DEF Leaps, LockInv, BlockedInWait, BlocksIn, CondWaits
  <2>3. th'[u].async => th[u].async \/ Now(u).op = "setcanceltype" BY <1>2 DEF SetsType
  <2> QED BY <1>1, <1>2, <2>1, <2>2, <2>3, OnFits
<1> QED BY <1>3, <1>4

\* A thread that locks or unlocks the mutex comes to the mode it should.
LEMMA LockFits ==
  ASSUME LockInv, test' = test, NEW u \in Threads, InCall(u), Working(u), Quiet(u),
         th'[u].calls = Tail(th[u].calls),
         \/ Now(u).op \in {"lock", "timedlock"} /\ (Holds(u)' \/ Tolerant(Programs[test]))
         \/ Now(u).op = "unlock" /\ ~Holds(u)'
  PROVE  \E m \in Modes : Fits(Programs[test], u, th'[u], Holds(u)', m)
<1> DEFINE p == Programs[test]
<1>1. PICK m \in Modes : Fits(p, u, th[u], Holds(u), m) BY ModeOf
<1>2. th[u].calls \in Seq(CallsOf(p)) /\ th[u].calls # <<>> /\ Head(th[u].calls) = Now(u)
  BY CallsOfTest DEF LockInv
<1>3. LocksWell(p) BY DEF LockInv
<1>4. th'[u].pending \/ th'[u].state = "cancelled" => u \in Cancellable(p) BY PendingKept
<1>5. /\ th'[u].handlers = th[u].handlers
      /\ th'[u].async => th[u].async \/ Now(u).op = "setcanceltype"
  BY DEF Quiet, SetsType
<1>6. NextMode(p, Now(u), m) = IF Now(u).op = "unlock" THEN "free" ELSE "held"
  BY SetsOf DEF NextMode
<1>7. Now(u).op \notin {"push", "pop"} OBVIOUS
<1>8. Fits(p, u, th'[u], Holds(u)', NextMode(p, Head(th[u].calls), m))
  <2>1. Holds(u)' => NextMode(p, Head(th[u].calls), m) # "free" BY <1>2, <1>6
  <2>2. NextMode(p, Head(th[u].calls), m) # "free" => Holds(u)' \/ Tolerant(p)
    BY <1>2, <1>6
  <2> QED BY <1>1, <1>2, <1>3, <1>4, <1>5, <1>7, <2>1, <2>2, NextFits
<1> QED BY <1>2, <1>8, NextModes

\* All steps in which threads at most go on.
LEMMA QuietModes ==
  ASSUME LockInv, NEW t \in Threads, Step(t) \/ TimerRunsOut(t) \/ WokenByNothing(t), ~exited',
         Returning(t) \/ Blocking(t), NEW u \in Threads, Working(u)'
  PROVE  \E m \in Modes : Fits(Programs[test], u, th'[u], Holds(u)', m)
<1> DEFINE p == Programs[test]
<1>1. Quiet(u) /\ test' = test BY QuietStep DEF LockInv
<1>2. Working(u) BY <1>1 DEF Quiet, Working
<1>3. CASE MutexLocked(u)
  <2>1. Goes(u) /\ mutex' = Locked(u) BY <1>3 DEF MutexLocked, Returns
  <2>2. /\ InCall(u) /\ Now(u).op \in {"lock", "timedlock"}
        /\ mutex'.owner = u \/ Tolerant(p)
    BY <1>3, LockStep
  <2>3. th'[u] = Onward(u) BY <2>1 DEF Goes, LockInv, TypeOK, ThreadsOK
  <2>4. th'[u].calls = Tail(th[u].calls) BY <2>2, <2>3, OnwardFields DEF LockInv
  <2> QED BY <1>1, <1>2, <2>2, <2>4, LockFits DEF Holds
<1>4. CASE MutexUnlocked(u)
  <2>1. Goes(u) BY <1>4 DEF MutexUnlocked, Returns
  <2>2. InCall(u) /\ Now(u).op = "unlock" BY <1>4, UnlockStep
  <2>3. th'[u] = Onward(u) BY <2>1 DEF Goes, LockInv, TypeOK, ThreadsOK
  <2>4. th'[u].calls = Tail(th[u].calls) /\ th'[u].state = "running"
    BY <2>2, <2>3, OnwardFields DEF LockInv
  <2>5. mutex'.owner # u
    <3>1. mutex' = Released => mutex'.owner = NoOne
      BY DEF Released, LockInv, TypeOK, MutexOK
    <3>2. mutex' = Released \/ (mutex.owner # u /\ mutex' = mutex) BY <1>4, UnlockStep
    <3> QED BY <3>1, <3>2, NoOneElse
  <2>6. ~Holds(u)' BY <2>4, <2>5 DEF Holds, Waits, LeavingWait
  <2> QED BY <1>1, <1>2, <2>2, <2>4, <2>6, LockFits
<1>5. CASE CondWaiting(u)
  <2>1. mutex.owner = u /\ Now(u).op \in CondWaits BY <1>5, WaitStep
  <2>2. Holds(u)'
    <3>1. CASE mutex' = mutex BY <2>1, <3>1 DEF Holds
    <3>2. CASE th' = [th EXCEPT ![u].state = "waiting"]
      <4>1. th'[u].state = "waiting" BY <3>2 DEF LockInv, TypeOK, ThreadsOK, Thread
      <4> QED BY <4>1 DEF Holds, Waits
    <3> QED BY <1>5, <3>1, <3>2, WaitStep
  <2>3. Sets(p, Now(u)) = "same" BY <2>1, SetsOf DEF CondWaits
  <2> QED BY <1>1, <1>2, <2>1, <2>2, <2>3, QuietFits DEF Holds
<1>6. CASE WaitReturns(u)
  <2>1. Waits(u) /\ Now(u).op \in CondWaits /\ mutex'.owner = u BY <1>6, ReturnStep
  <2>2. Sets(p, Now(u)) = "same" BY <2>1, SetsOf DEF CondWaits
  <2> QED BY <1>1, <1>2, <2>1, <2>2, QuietFits DEF Holds
<1>7. CASE ~MutexLocked(u) /\ ~MutexUnlocked(u) /\ ~CondWaiting(u) /\ ~WaitReturns(u)
  <2>1. Waits(u)' <=> Waits(u) BY <1>1, <1>7 DEF Quiet
  <2>2. mutex'.owner = u <=> mutex.owner = u
    <3>1. ~ThreadEnds(u)
      <4>1. th' = [th EXCEPT ![u].state = "done"] => th'[u].state = "done"
        BY DEF LockInv, TypeOK, ThreadsOK, Thread
      <4> QED BY <4>1 DEF ThreadEnds, Working
    <3>2. CASE u = t BY <1>7, <3>1, <3>2, OwnerSteps
    <3>3. CASE u # t BY <3>3, HoldsElse
    <3> QED BY <3>2, <3>3
  <2>3. Holds(u)' <=> Holds(u) BY <2>1, <2>2 DEF Holds
  <2>4. CASE th'[u].calls = th[u].calls \/ Sets(p, Now(u)) = "same"
    BY <1>1, <1>2, <2>3, <2>4, QuietFits
  <2>5. CASE th'[u].calls # th[u].calls /\ Sets(p, Now(u)) # "same"
    <3>1. /\ InCall(u) /\ th'[u].calls = Tail(th[u].calls) /\ LocksItself(u)
          /\ th[u].state \in Blocks \/ Now(u).op \notin Leaps
      BY <1>1, <2>5 DEF Quiet, InCall
    <3>2. th[u].state \in Blocks => Now(u).op \in CondWaits \cup {"barrier_wait"}
      BY DEF LockInv, BlockedInWait, BlocksIn
    <3>3. Now(u).op \in {"lock", "timedlock", "unlock"} /\ th[u].state \notin Blocks
      BY <2>5, <3>1, <3>2, SetsOf DEF Leaps, CondWaits
    <3>4. TimerRunsOut(u)
      BY <1>7, <3>1, <3>3 DEF LocksItself, Locking, MutexInitialised, At
    <3>5. Now(u).op = "timedlock"
      BY <3>3, <3>4 DEF TimerRunsOut, Timed
    <3>6. Now(u) \in AllCalls(p) BY <3>1, <3>5, CallsOfTest DEF LockInv
    <3>7. Tolerant(p) BY <3>5, <3>6 DEF LockInv, LocksWell
    <3> QED BY <1>1, <1>2, <3>1, <3>5, <3>7, LockFits
  <2> QED BY <2>4, <2>5
<1> QED BY <1>3, <1>4, <1>5, <1>6, <1>7

\* The mode of the thread that main() has created.
LEMMA CreatedFits ==
  ASSUME LockInv, NEW t \in Threads, ThreadCreated(t), ~exited', NEW u \in Threads,
         u = Now(t).obj
  PROVE  Fits(Programs[test], u, th'[u], Holds(u)', "free") /\ u # t
<1> DEFINE p == Programs[test]
<1>1. TypeOK /\ MainAlone(p) /\ WorkersInPlace /\ MainInPlace BY DEF LockInv, LocksWell
<1>2. t = "main" BY <1>1, MainCreates
<1>3. InCall("main") /\ Now("main").op = "create" /\ th[t].state = "running"
  BY <1>1, <1>2, CreatedFields
<1>4. Now("main") \in CallsIn(p["main"]) BY <1>1, <1>3, MainFacts DEF Main
<1>5. u # "main" /\ u \in Created(p) BY <1>2, <1>3, <1>4 DEF MainAlone, LockInv, LocksWell, Created
<1>7. /\ th'[u].state = "running" /\ th'[u].calls = p[u] /\ th'[u].handlers = <<>>
      /\ ~th'[u].pending /\ ~th'[u].async
  BY <1>1, CreatedThread
<1>8. Fine(p, u, p[u], "free") BY <1>5 DEF LockInv, LocksWell
<1>9. mutex.owner # u
  <2>1. u \notin Workers BY <1>2, <1>3, MainApart
  <2>2. u # NoOne BY NoOneElse
  <2> QED BY <1>5, <2>1, <2>2, OwnerIs
<1>10. mutex' = mutex BY DEF ThreadCreated, objects
<1>11. ~Holds(u)' BY <1>7, <1>9, <1>10 DEF Holds, Waits, LeavingWait
<1>12. CallsIn(th'[u].handlers) \subseteq Handlers(p) /\ Len(th'[u].handlers) <= 1
  <2>1. CallsIn(<<>>) = {} /\ Len(<<>>) <= 1 BY DEF CallsIn
  <2> QED BY <1>7, <2>1, Zenon
<1>13. Fits(p, u, th'[u], Holds(u)', "free")
  BY <1>7, <1>8, <1>11, <1>12 DEF Fits
<1> QED BY <1>2, <1>5, <1>13

\* A thread that runs and goes on with the mutex as it was.
LEMMA RunsOn ==
  ASSUME LockInv, test' = test, NEW u \in Threads, InCall(u), th[u].state = "running",
         Now(u).op \in Leaps \ {"push", "pop"},
         th'[u].calls = Tail(th[u].calls), th'[u].handlers = th[u].handlers,
         th'[u].async = th[u].async, th'[u].pending = th[u].pending,
         th'[u].state = "running", mutex' = mutex
  PROVE  \E m \in Modes : Fits(Programs[test], u, th'[u], Holds(u)', m)
<1>1. Working(u) BY DEF Working
<1>2. Sets(Programs[test], Now(u)) = "same" BY SetsOf DEF Leaps
<1>3. Holds(u)' <=> Holds(u) BY DEF Holds, Waits, LeavingWait
<1>4. th[u].pending => u \in Cancellable(Programs[test]) BY <1>1, ModeOf DEF Fits
<1> QED BY <1>1, <1>2, <1>3, <1>4, OnFits

\* A thread that leaves its routines does not do so in mode held, unless it is main().
LEMMA UnwoundModes ==
  ASSUME LockInv, test' = test, NEW t \in Threads, Working(t), NEW v,
         th' = [th EXCEPT ![t] = Unwound(t, v)],
         Holds(t)' <=> Holds(t),
         \/ InCall(t) /\ Now(t).op = "exit"
         \/ InCall(t) /\ Now(t).op \in CancelPoints /\ t \in Cancellable(Programs[test])
         \/ th[t].async
  PROVE  \E m \in Modes : Fits(Programs[test], t, th'[t], Holds(t)', m)
<1> DEFINE p == Programs[test]
<1>1. PICK m \in Modes : /\ Fits(p, t, th[t], Holds(t), m)
                         /\ InCall(t) => Allowed(p, t, Now(t), m)
  BY ModeOf
<1>2. m # "held" \/ t = "main" BY <1>1 DEF Fits, Allowed
<1>3. th[t] \in Thread /\ th[t].handlers \in Seq(DOMAIN p) /\ th'[t] = Unwound(t, v)
  BY DEF LockInv, TypeOK, ThreadsOK, Thread
<1> DEFINE s == [i \in DOMAIN th[t].handlers |-> Pop(TRUE)]
<1>4. th'[t] = [th[t] EXCEPT !.state = "running", !.enabled = FALSE, !.value = v, !.calls = s]
  BY <1>3 DEF Unwound, LockInv
<1> HIDE DEF s
<1>5. /\ th'[t].calls = s /\ th'[t].state = "running" /\ th'[t].handlers = th[t].handlers
      /\ th'[t].async = th[t].async /\ th'[t].pending = th[t].pending
  <2> DEFINE x == th[t]
             y == th'[t]
  <2>1. x \in Thread /\ y = [x EXCEPT !.state = "running", !.enabled = FALSE, !.value = v, !.calls = s]
    BY <1>3, <1>4
  <2> HIDE DEF x, y
  <2>2. y.calls = s /\ y.state = "running" BY <2>1 DEF Thread
  <2>3. y.handlers = x.handlers BY <2>1 DEF Thread
  <2>4. y.async = x.async /\ y.pending = x.pending BY <2>1 DEF Thread
  <2> QED BY <2>2, <2>3, <2>4 DEF x, y
<1>6. th[t].pending => t \in Cancellable(p) BY <1>1 DEF Fits
<1>7. Fits(p, t, th[t], Holds(t)', m) BY <1>1 DEF Fits
<1>8. th'[t].calls = [i \in DOMAIN th[t].handlers |-> Pop(TRUE)] BY <1>5 DEF s
<1>9. th'[t].pending \/ th'[t].state = "cancelled" => t \in Cancellable(p) BY <1>5, <1>6
<1>10. th'[t].async => th[t].async BY <1>5
<1> QED BY <1>2, <1>3, <1>5, <1>7, <1>8, <1>9, <1>10, UnwoundFits

\* What the thread that leaps does to its own mode.
LEMMA LeaperModes ==
  ASSUME LockInv, NEW t \in Threads, Leaping(t), ~exited'
  PROVE  \E m \in Modes : Fits(Programs[test], t, th'[t], Holds(t)', m)
<1> DEFINE p == Programs[test]
<1>0. /\ TypeOK /\ MainAlone(p) /\ WorkersInPlace /\ MainInPlace /\ LocksWell(p)
      /\ test' = test
  BY LeapingFrame DEF LockInv, LocksWell
<1>t. th[t] \in Thread /\ th[t].handlers \in Seq(DOMAIN p) /\ th \in [Threads -> Thread]
  BY <1>0 DEF TypeOK, ThreadsOK, Thread
<1>1. CASE Skip(t)
  <2>1. /\ th'[t] = [th[t] EXCEPT !.calls = th'[t].calls]
        /\ th[t].state = "running" /\ InCall(t) /\ Now(t).op = "skip"
        /\ \/ th'[t].calls = Tail(th[t].calls)
           \/ th'[t].calls = SubSeq(th[t].calls, Now(t).jump + 2, Len(th[t].calls))
    BY <1>0, <1>1, SkipFields
  <2>2. /\ th'[t].state = "running" /\ th'[t].handlers = th[t].handlers
        /\ th'[t].async = th[t].async /\ th'[t].pending = th[t].pending
    BY <1>t, <2>1 DEF Thread
  <2>3. mutex' = mutex BY <1>1 DEF Skip, objects
  <2>4. CASE th'[t].calls = Tail(th[t].calls)
    BY <1>0, <2>1, <2>2, <2>3, <2>4, RunsOn DEF Leaps
  <2>5. CASE th'[t].calls = SubSeq(th[t].calls, Now(t).jump + 2, Len(th[t].calls))
    <3>1. PICK m \in Modes : Fits(p, t, th[t], Holds(t), m)
      BY <2>1, ModeOf DEF Working
    <3>2. Holds(t)' <=> Holds(t) BY <2>1, <2>2, <2>3 DEF Holds, Waits, LeavingWait
    <3>3. Fits(p, t, th[t], Holds(t)', m) BY <3>1, <3>2 DEF Fits
    <3>4. /\ th[t].calls \in Seq(CallsOf(p)) /\ th[t].calls # <<>> /\ Head(th[t].calls) = Now(t)
          /\ Now(t).jump \in Nat
      BY <1>0, <2>1, CallsOfTest, NowNames
    <3>5. th[t].pending => t \in Cancellable(p) BY <3>1 DEF Fits
    <3>6. th'[t].pending \/ th'[t].state = "cancelled" => t \in Cancellable(p)
      BY <2>2, <3>5
    <3> QED BY <2>1, <2>2, <2>5, <3>3, <3>4, <3>6, JumpFits
  <2> QED BY <2>1, <2>4, <2>5
<1>2. CASE ThreadCreated(t)
  <2>1. InCall(t) /\ Now(t).op = "create" /\ th[t].state = "running" BY <1>0, <1>2, CreatedFields
  <2>2. PICK w \in Threads : w = Now(t).obj /\ (t # w => th'[t] = Onward(t))
    BY ZenonT(30), <1>0, <1>2, CreatedFields
  <2>3. th'[t] = Onward(t) BY <1>2, <2>2, CreatedFits
  <2>4. mutex' = mutex BY <1>2 DEF ThreadCreated, objects
  <2> QED BY <1>0, <2>1, <2>3, <2>4, OnwardFields, RunsOn DEF Leaps
<1>3. CASE ThreadJoined(t)
  <2>1. InCall(t) /\ Now(t).op = "join" /\ th[t].state = "running" /\ th'[t] = Onward(t)
    BY <1>0, <1>3, JoinedFields
  <2>2. mutex' = mutex BY <1>3 DEF ThreadJoined, objects
  <2> QED BY <1>0, <2>1, <2>2, OnwardFields, RunsOn DEF Leaps
<1>4. CASE HandlerPushed(t)
  <2>1. InCall(t) /\ Now(t).op = "push" /\ th[t].state = "running"
    BY <1>4, AtAlive DEF HandlerPushed, At
  <2>2. th'[t] = [Onward(t) EXCEPT !.handlers = <<Now(t).obj>> \o th[t].handlers]
    BY <1>4, <1>t DEF HandlerPushed
  <2>3. Onward(t) \in Thread BY <1>0, <2>1, OnwardThread
  <2>4. /\ th'[t].calls = Onward(t).calls /\ th'[t].state = Onward(t).state
        /\ th'[t].handlers = <<Now(t).obj>> \o th[t].handlers
        /\ th'[t].async = Onward(t).async /\ th'[t].pending = Onward(t).pending
    BY <2>2, <2>3 DEF Thread
  <2>5. /\ th'[t].calls = Tail(th[t].calls) /\ th'[t].state = "running"
        /\ th'[t].async = th[t].async /\ th'[t].pending = th[t].pending
    BY <1>0, <2>1, <2>4, OnwardFields
  <2>6. mutex' = mutex BY <1>4 DEF HandlerPushed, objects
  <2>7. Holds(t)' <=> Holds(t) BY <2>1, <2>5, <2>6 DEF Holds, Waits, LeavingWait
  <2>8. PICK m \in Modes : Fits(p, t, th[t], Holds(t), m) BY <2>1, ModeOf DEF Working
  <2>9. Fits(p, t, th[t], Holds(t)', m) BY <2>7, <2>8 DEF Fits
  <2>10. /\ th[t].calls \in Seq(CallsOf(p)) /\ th[t].calls # <<>> /\ Head(th[t].calls) = Now(t)
         /\ Now(t) \in AllCalls(p)
    BY <1>0, <2>1, CallsOfTest
  <2>11. Now(t).obj \in DOMAIN p BY <1>0, <2>1, NowNames DEF Names
  <2>12. Now(t).obj \in Handlers(p) BY <2>1, <2>10 DEF Handlers
  <2>13. th[t].pending => t \in Cancellable(p) BY <2>8 DEF Fits
  <2>14. th'[t].pending \/ th'[t].state = "cancelled" => t \in Cancellable(p)
    BY <2>5, <2>13
  <2> QED BY <1>t, <2>1, <2>4, <2>5, <2>9, <2>10, <2>11, <2>12, <2>14, PushFits
<1>5. CASE HandlerPopped(t)
  <2>1. InCall(t) /\ Now(t).op = "pop" /\ th[t].state = "running" /\ th[t].handlers # <<>>
    BY <1>5, AtAlive DEF HandlerPopped, At
  <2> DEFINE r == Head(th[t].handlers)
             s == IF Now(t).obj = "run" THEN p[r] ELSE <<>>
  <2>2. th'[t] = [After(t, s) EXCEPT !.handlers = Tail(th[t].handlers)]
    BY <1>5, <1>t DEF HandlerPopped
  <2>3. r \in DOMAIN p BY <1>t, <2>1, HeadTailProperties
  <2>4. p[r] \in Seq(CallsOf(p)) BY <1>0, <2>3, RoutineCalls
  <2>5. /\ th[t].calls \in Seq(CallsOf(p)) /\ th[t].calls # <<>> /\ Head(th[t].calls) = Now(t)
    BY <1>0, <2>1, CallsOfTest
  <2>6. Tail(th[t].calls) \in Seq(CallsOf(p)) BY <1>0, <2>1, NowNames
  <2>7. s \o Tail(th[t].calls) = IF Now(t).obj = "run" THEN p[r] \o Tail(th[t].calls)
                                 ELSE Tail(th[t].calls)
    <3>1. <<>> \o Tail(th[t].calls) = Tail(th[t].calls) BY <2>6
    <3> QED BY <3>1
  <2> HIDE DEF s, r
  <2>8. /\ th'[t].calls = s \o Tail(th[t].calls) /\ th'[t].state = "running"
        /\ th'[t].handlers = Tail(th[t].handlers)
        /\ th'[t].async = th[t].async /\ th'[t].pending = th[t].pending
    BY <1>t, <2>2 DEF After, Thread
  <2>9. mutex' = mutex BY <1>5 DEF HandlerPopped, objects
  <2>10. Holds(t)' <=> Holds(t) BY <2>1, <2>8, <2>9 DEF Holds, Waits, LeavingWait
  <2>11. PICK m \in Modes : Fits(p, t, th[t], Holds(t), m) BY <2>1, ModeOf DEF Working
  <2>12. Fits(p, t, th[t], Holds(t)', m) BY <2>10, <2>11 DEF Fits
  <2>13. t \in Created(p)
    <3>1. t # "main" BY <1>0, <2>1, MainFacts DEF MainAlone, Main
    <3>2. t \in Workers BY <2>1, <3>1 DEF Workers, Alive
    <3> QED BY <1>0, <3>2 DEF WorkersInPlace, MadeByMain, Created, Main
  <2>14. th[t].pending => t \in Cancellable(p) BY <2>11 DEF Fits
  <2>15. th'[t].pending \/ th'[t].state = "cancelled" => t \in Cancellable(p)
    BY <2>8, <2>14
  <2>16. th'[t].calls = IF Head(th[t].calls).obj = "run" THEN p[r] \o Tail(th[t].calls)
                        ELSE Tail(th[t].calls)
    BY <2>5, <2>7, <2>8
  <2>17. r = Head(th[t].handlers) BY DEF r
  <2>18. Head(th[t].calls).op = "pop" /\ th'[t].async => th[t].async BY <2>1, <2>5, <2>8
  <2> QED
    BY <1>0, <1>t, <2>1, <2>3, <2>4, <2>5, <2>8, <2>12, <2>13, <2>15, <2>16, <2>17, <2>18, PopFits
<1>6. CASE ThreadExits(t)
  <2>1. InCall(t) /\ Now(t).op = "exit" /\ th[t].state = "running"
    BY <1>6, AtAlive DEF ThreadExits, At
  <2>2. th' = [th EXCEPT ![t] = Unwound(t, 0)] /\ mutex' = mutex
    BY <1>6 DEF ThreadExits, objects
  <2>3. th'[t].state = "running" BY <1>0, <1>6, AloneFields
  <2>4. Holds(t)' <=> Holds(t) BY <2>1, <2>2, <2>3 DEF Holds, Waits, LeavingWait
  <2> QED BY <1>0, <2>1, <2>2, <2>4, UnwoundModes DEF Working
<1>7. CASE CancelActs(t)
  <2>1. InCall(t) /\ th[t].state = "running" /\ MustCancel(t) /\ th[t].pending
    BY <1>7 DEF CancelActs, MustCancel, Runs
  <2>2. th' = [th EXCEPT ![t] = Unwound(t, CANCELED)] /\ mutex' = mutex
    BY <1>7 DEF CancelActs, objects
  <2>3. th'[t].state = "running" BY <1>0, <1>7, AloneFields
  <2>4. Holds(t)' <=> Holds(t) BY <2>1, <2>2, <2>3 DEF Holds, Waits, LeavingWait
  <2>5. t \in Cancellable(p) BY <2>1, ModeOf DEF Fits, Working
  <2>6. th[t].async \/ Now(t).op \in CancelPoints BY <2>1 DEF MustCancel, LockInv
  <2> QED BY <1>0, <2>1, <2>2, <2>4, <2>5, <2>6, UnwoundModes DEF Working
<1>8. CASE WaitReturns(t) /\ th[t].state = "cancelled"
  <2>1. InCall(t) /\ Working(t) /\ Now(t).op \in CondWaits /\ Waits(t) /\ mutex'.owner = t
    BY <1>8, ReturnStep
  <2>2. th' = [th EXCEPT ![t] = Unwound(t, CANCELED)] BY <1>8 DEF WaitReturns
  <2>3. Holds(t)' <=> Holds(t) BY <2>1 DEF Holds
  <2>4. t \in Cancellable(p) BY <1>8, <2>1, ModeOf DEF Fits
  <2>5. Now(t).op \in CancelPoints BY <2>1 DEF CancelPoints
  <2> QED BY <1>0, <2>1, <2>2, <2>3, <2>4, <2>5, UnwoundModes
<1>9. CASE OnceCalled(t)
  <2>1. InCall(t) /\ Now(t).op = "once" /\ Alive(t) BY <1>9, AtAlive DEF OnceCalled, At
  <2>2. t # "main" BY <1>0, <2>1, MainFacts DEF MainAlone, Main
  <2>3. t \in Workers BY <2>1, <2>2 DEF Workers
  <2> QED BY <1>0, <2>1, <2>3, WorkerCalls
<1>10. CASE SpecificSet(t)
  <2>1. InCall(t) /\ Now(t).op = "setspecific" /\ th[t].state = "running"
    BY <1>10, AtAlive DEF SpecificSet, At
  <2>2. th'[t] = [Onward(t) EXCEPT !.specific[Now(t).obj] = Now(t).arg]
    BY <1>10, <1>t DEF SpecificSet
  <2>3. Onward(t) \in Thread BY <1>0, <2>1, OnwardThread
  <2>4. /\ th'[t].calls = Onward(t).calls /\ th'[t].state = Onward(t).state
        /\ th'[t].handlers = Onward(t).handlers
        /\ th'[t].async = Onward(t).async /\ th'[t].pending = Onward(t).pending
    BY <2>2, <2>3 DEF Thread
  <2>5. mutex' = mutex BY <1>10 DEF SpecificSet, objects
  <2> QED BY <1>0, <2>1, <2>4, <2>5, OnwardFields, RunsOn DEF Leaps
<1> QED BY <1>1, <1>2, <1>3, <1>4, <1>5, <1>6, <1>7, <1>8, <1>9, <1>10 DEF Leaping

\* The modes are kept by all steps.
LEMMA ModesStep ==
  ASSUME LockInv, NEW t \in Threads, Step(t) \/ TimerRunsOut(t) \/ WokenByNothing(t), ~exited'
  PROVE  ModesKept'
<1> DEFINE p == Programs[test]
<1>1. test' = test BY QuietStep, LeapingFrame, StepKinds DEF LockInv
<1> SUFFICES ASSUME NEW u \in Threads, Working(u)'
             PROVE  \E m \in Modes : Fits(p, u, th'[u], Holds(u)', m)
  BY <1>1 DEF ModesKept
<1>2. CASE Returning(t) \/ Blocking(t) BY <1>2, QuietModes
<1>3. CASE Leaping(t) /\ u = t BY <1>3, LeaperModes
<1>4. CASE Leaping(t) /\ u # t
  <2>1. th'[u].state \notin {"unborn", "done", "joined"} BY DEF Working
  <2>2. CASE th'[u] = th[u]
    <3>1. Working(u) BY <2>1, <2>2 DEF Working
    <3>2. PICK m \in Modes : Fits(p, u, th[u], Holds(u), m) BY <3>1, ModeOf
    <3>3. Holds(u)' <=> Holds(u) BY <1>4, <2>2, HoldsElse DEF Holds, Waits
    <3>4. Fits(p, u, th'[u], Holds(u)', m) BY <2>2, <3>2, <3>3 DEF Fits
    <3> QED BY <3>4
  <2>3. CASE ThreadCreated(t) /\ u = Now(t).obj
    BY <2>3, CreatedFits DEF Modes
  <2> QED BY <1>4, <2>1, <2>2, <2>3, LeapElse DEF LockInv
<1> QED BY <1>2, <1>3, <1>4, StepKinds

\* The mutex is made as the test says.
LEMMA InitStep ==
  ASSUME LockInv, NEW t \in Threads, MutexInitialised(t)
  PROVE  mutex'.type \in InitTypes(Programs[test])
<1>1. At(t, "mutex_init") /\ mutex' = NewMutex(Now(t).arg) BY DEF MutexInitialised
<1>2. t = "main" BY <1>1, NobodyOwns
<1>3. InCall("main") /\ Now("main").op = "mutex_init" BY <1>1, <1>2 DEF At
<1>4. Now("main") \in CallsIn(Programs[test]["main"]) BY <1>3, MainFacts DEF LockInv, Main
<1> QED BY <1>1, <1>2, <1>3, <1>4 DEF InitTypes, NewMutex

\* What main() does first, if that is to make the mutex: it makes it or is stopped.
LEMMA FirstCall ==
  ASSUME LockInv, InCall("main"), Now("main").op = "mutex_init",
         Step("main") \/ TimerRunsOut("main") \/ WokenByNothing("main")
  PROVE  \/ MutexInitialised("main")
         \/ th'["main"].calls = th["main"].calls \/ th'["main"].calls = <<>>
<1>1. CASE Returning("main") \/ Blocking("main")
  <2>1. Quiet("main") BY <1>1, QuietStep, MainIsThread DEF LockInv
  <2> SUFFICES ASSUME LocksItself("main") PROVE MutexInitialised("main")
    BY <2>1 DEF Quiet
  <2>2. th["main"].state \notin Blocks
    BY MainIsThread DEF LockInv, BlockedInWait, BlocksIn, CondWaits
  <2>3. ~MutexLocked("main") /\ ~MutexUnlocked("main") /\ ~TimerRunsOut("main")
    BY <2>2 DEF MutexLocked, MutexUnlocked, TimerRunsOut, Timed, At, Blocks
  <2> QED BY <2>2, <2>3 DEF LocksItself, Locking
<1>2. CASE Leaping("main")
  <2>1. ~WaitReturns("main")
    BY MainIsThread DEF WaitReturns, LockInv, BlockedInWait, Blocks, BlocksIn, LeavingWait, CondWaits
  <2>2. CancelActs("main")
    <3>1. ~ThreadCreated("main")
      BY DEF ThreadCreated, At
    <3> QED
      BY <1>2, <2>1, <3>1
      DEF Leaping, Skip, ThreadJoined, HandlerPushed, HandlerPopped, ThreadExits,
          OnceCalled, SpecificSet, At
  <2>3. th'["main"] = Unwound("main", CANCELED)
    BY <2>2, MainIsThread DEF CancelActs, LockInv, TypeOK, ThreadsOK
  <2>4. th["main"] \in Thread /\ th["main"].handlers = <<>>
    BY MainIsThread DEF LockInv, TypeOK, ThreadsOK, MainInPlace
  <2> DEFINE s == [i \in DOMAIN th["main"].handlers |-> Pop(TRUE)]
  <2>5. s = <<>>
    <3>1. DOMAIN th["main"].handlers = {} BY <2>4
    <3> QED BY <3>1
  <2>6. th'["main"] = [th["main"] EXCEPT !.state = "running", !.enabled = FALSE,
                                         !.value = CANCELED, !.calls = s]
    BY <2>3 DEF Unwound, LockInv
  <2> HIDE DEF s
  <2>7. th'["main"].calls = s BY <2>4, <2>6 DEF Thread
  <2> QED BY <2>5, <2>7
<1> QED BY <1>1, <1>2, StepKinds

\* Before the mutex is made main() is alone, where it makes it, or stopped.
LEMMA FirstSteps ==
  ASSUME LockInv, NEW t \in Threads, Step(t) \/ TimerRunsOut(t) \/ WokenByNothing(t), ~exited',
         InitFirst(Programs[test]), Workers = {}, Done = 0 \/ Done = Len(Main)
  PROVE  \/ mutex'.type \in InitTypes(Programs[test])
         \/ Workers' = {} /\ (Done' = 0 \/ Done' = Len(Main))
<1>1. TypeOK /\ BlockedInWait /\ MainAlone(Programs[test]) /\ MainInPlace /\ WorkersInPlace
  BY DEF LockInv, LocksWell
<1>2. t = "main" BY <1>1, StepperWorks DEF Workers, Alive, Working
<1> DEFINE d == Done
           e == Done'
           m == Len(Main)
           l == Len(th["main"].calls)
           k == Len(th'["main"].calls)
<1>3. PICK n : MovesOn(n) /\ e = d + n BY <1>1, InPlaceStep
<1>4. n \in 0..l /\ k = l - n BY <1>3 DEF MovesOn
<1>5. /\ m \in Nat /\ l \in Nat /\ d \in Nat /\ m = d + l
      /\ InCall("main") => d + 1 \in DOMAIN Main /\ Now("main") = Main[d + 1] /\ l >= 1
      /\ ~InCall("main") => d = m
  BY <1>1, MainFacts
<1>6. InCall("main") => Now("main").op = "mutex_init"
  <2> SUFFICES ASSUME InCall("main") PROVE Now("main").op = "mutex_init"
    OBVIOUS
  <2>1. d = 0
    <3>1. m \in Nat /\ l \in Nat /\ m = d + l /\ l >= 1 /\ d \in Nat /\ (d = 0 \/ d = m) BY <1>5
    <3> HIDE DEF d, m, l
    <3> QED BY <3>1
  <2>2. Now("main") = Main[1] BY <1>5, <2>1
  <2> QED BY <2>2 DEF InitFirst, Main
<1>7. Workers' = {}
  <2>1. ASSUME NEW w \in Workers' PROVE FALSE
    <3>1. InCall("main") /\ Now("main").op = "create" BY <1>1, <1>2, WorkersGrow
    <3> QED BY <1>6, <3>1
  <2> QED BY <2>1
<1>8. CASE InCall("main") /\ MutexInitialised("main") BY <1>2, <1>8, InitStep
<1>9. CASE ~(InCall("main") /\ MutexInitialised("main"))
  <2>1. k = l \/ k = 0
    <3>1. CASE InCall("main")
      <4>1. th'["main"].calls = th["main"].calls \/ th'["main"].calls = <<>>
        BY <1>2, <1>6, <1>9, <3>1, FirstCall
      <4>2. Len(<<>>) = 0 OBVIOUS
      <4> QED BY <4>1, <4>2
    <3>2. CASE ~InCall("main")
      <4>1. l = 0 BY <3>2 DEF InCall
      <4>2. n \in 0..l /\ k = l - n /\ l = 0 /\ l \in Nat BY <1>4, <1>5, <4>1
      <4> HIDE DEF l, k
      <4>3. n = 0 BY <4>2
      <4>4. k = 0 BY <4>2, <4>3
      <4> QED BY <4>4
    <3> QED BY <3>1, <3>2
  <2>2. e = d \/ e = m
    <3>1. n \in 0..l /\ k = l - n /\ e = d + n /\ m = d + l /\ m \in Nat /\ l \in Nat /\ d \in Nat
      BY <1>3, <1>4, <1>5
    <3> HIDE DEF d, e, m, l, k
    <3> QED BY <2>1, <3>1
  <2> QED BY <1>7, <2>2
<1> QED BY <1>8, <1>9

\* The owner of the mutex goes on running, or comes to the barrier.
LEMMA OwnerRuns ==
  ASSUME LockInv, NEW t \in Threads, Step(t) \/ TimerRunsOut(t) \/ WokenByNothing(t), ~exited',
         mutex.owner # NoOne, mutex'.owner = mutex.owner
  PROVE  th'[mutex.owner].state \in {"running", "barrier"}
<1>0. PICK o : o = mutex.owner OBVIOUS
<1>1. o \in Threads /\ Working(o) /\ ~Waits(o) /\ o # NoOne /\ mutex'.owner = o
      /\ (o = "main" \/ o \in Workers)
  BY <1>0, OwnerIs
<1>2. th[o].state \in {"running", "barrier"} BY <1>0 DEF LockInv, MutexKept
<1>3. TypeOK /\ MainAlone(Programs[test]) /\ WorkersInPlace /\ MainInPlace
  BY DEF LockInv, LocksWell
<1>4. Released.owner = NoOne BY DEF Released, LockInv, TypeOK, MutexOK
<1>5. CASE Returning(t) \/ Blocking(t)
  <2>1. Quiet(o) BY <1>1, <1>3, <1>5, QuietStep
  <2>2. ~WaitReturns(o) BY <1>1, ReturnStep
  <2>3. th'[o].state = "running" \/ ~Waits(o)'
    <3>1. CASE CondWaiting(o)
      <4>1. Goes(o) /\ InCall(o) BY <1>1, <1>4, <3>1, WaitStep
      <4>2. th'[o] = Onward(o) BY <1>1, <1>3, <4>1 DEF Goes, TypeOK, ThreadsOK
      <4> QED BY <1>1, <1>3, <4>1, <4>2, OnwardFields
    <3>2. CASE ~CondWaiting(o) BY <1>1, <2>1, <2>2, <3>2 DEF Quiet
    <3> QED BY <3>1, <3>2
  <2>4. th'[o].state # "done"
    <3>1. ~ThreadEnds(o)
      <4>1. ThreadEnds(o) => o # "main" BY DEF ThreadEnds
      <4> QED BY <1>0, <1>1, <4>1, EndStep
    <3> QED BY <1>2, <2>1, <3>1 DEF Quiet
  <2>5. th'[o].state \notin {"unborn", "joined"} BY <1>2, <2>1 DEF Quiet
  <2>6. th'[o] \in Thread' /\ TypeOK' BY <1>1, <1>3, StepType DEF TypeOK, ThreadsOK
  <2>7. th'[o].state \in {"unborn", "running", "waiting", "barrier", "stranded", "done", "joined"}
                          \cup LeavingWait
    BY <2>6 DEF Thread
  <2>8. th'[o].state # "stranded"
    <3>1. ~SleepsOnMutex(o)
      <4> SUFFICES ASSUME InCall(o), Now(o).op = "lock" PROVE FALSE BY DEF SleepsOnMutex
      <4>1. ~Holds(o) BY <1>1, ModeOf DEF Allowed
      <4> QED BY <1>0, <4>1 DEF Holds
    <3> QED BY <1>2, <2>1, <3>1 DEF Quiet
  <2> QED BY <1>0, <2>3, <2>4, <2>5, <2>7, <2>8 DEF Waits, LeavingWait
<1>6. CASE Leaping(t) /\ t # o
  <2>1. ~(ThreadCreated(t) /\ o = Now(t).obj)
    <3> SUFFICES ASSUME ThreadCreated(t), o = Now(t).obj PROVE FALSE
      OBVIOUS
    <3>1. t = "main" /\ InCall("main") /\ Now("main").op = "create"
      BY <1>3, MainCreates, CreatedFields
    <3> QED BY <1>1, <1>6, <3>1, MainApart
  <2>2. ~(ThreadJoined(t) /\ th'[o].state = "joined")
    <3> SUFFICES ASSUME ThreadJoined(t), th'[o].state = "joined" PROVE FALSE
      OBVIOUS
    <3>1. th[Now(t).obj].state = "done" BY DEF ThreadJoined
    <3>2. o # Now(t).obj BY <1>2, <3>1
    <3>3. th'[o] = th[o] BY <1>1, <1>3, <1>6, <3>2, JoinedFields
    <3> QED BY <1>2, <3>3
  <2> QED BY <1>0, <1>1, <1>2, <1>3, <1>6, <2>1, <2>2, LeapElse
<1>7. CASE Leaping(t) /\ t = o
  <2>1. th'[t].state = "running"
    <3>1. CASE Skip(t)
      <4>1. th[t].state = "running" /\ th'[t] = [th[t] EXCEPT !.calls = th'[t].calls]
        BY <1>3, <3>1, SkipFields
      <4>2. th[t] \in Thread BY <1>3 DEF TypeOK, ThreadsOK
      <4> QED BY <4>1, <4>2 DEF Thread
    <3>2. CASE ThreadCreated(t)
      <4>1. PICK w \in Threads : w = Now(t).obj /\ (t # w => th'[t] = Onward(t))
        BY ZenonT(30), <1>3, <3>2, CreatedFields
      <4>2. InCall(t) /\ t # w BY <1>3, <3>2, <4>1, CreatedFields, CreatedFits
      <4> QED BY <1>3, <4>1, <4>2, OnwardFields
    <3>3. CASE ThreadJoined(t) BY <1>3, <3>3, JoinedFields, OnwardFields
    <3>4. CASE ~Skip(t) /\ ~ThreadCreated(t) /\ ~ThreadJoined(t)
      BY <1>3, <1>7, <3>4, AloneFields DEF Leaping
    <3> QED BY <3>1, <3>2, <3>3, <3>4
  <2> QED BY <1>0, <1>7, <2>1
<1> QED BY <1>5, <1>6, <1>7, StepKinds

\* A thread that comes to own the mutex uses it, and runs.
LEMMA NewOwner ==
  ASSUME LockInv, NEW t \in Threads, MutexLocked(t) \/ WaitReturns(t)
  PROVE  /\ th'[t].state = "running"
         /\ t # "main" => \E c \in FamilyCalls(Programs[test], t) : c.op \in MutexUses
<1>0. TypeOK /\ MainAlone(Programs[test]) /\ WorkersInPlace BY DEF LockInv, LocksWell
<1>1. InCall(t) /\ Working(t) /\ Now(t).op \in {"lock", "timedlock"} \cup CondWaits
  BY LockStep, ReturnStep
<1>2. th'[t].state = "running"
  <2>1. Onward(t).state = "running" BY <1>0, <1>1, OnwardFields
  <2>2. th[t] \in Thread /\ th \in [Threads -> Thread] BY <1>0 DEF TypeOK, ThreadsOK
  <2>3. CASE Goes(t) BY <2>1, <2>2, <2>3 DEF Goes
  <2>4. CASE WaitReturns(t) /\ th[t].state = "cancelled"
    BY <1>0, <2>4, AloneFields
  <2>5. CASE th' = [th EXCEPT ![t].state = "running"]
    <3>1. th'[t] = [th[t] EXCEPT !.state = "running"] BY <2>2, <2>5
    <3> QED BY <2>2, <3>1 DEF Thread
  <2> QED BY <2>3, <2>4, <2>5 DEF MutexLocked, WaitReturns, Returns
<1>3. ASSUME t # "main" PROVE \E c \in FamilyCalls(Programs[test], t) : c.op \in MutexUses
  <2>1. t \in Workers BY <1>1, <1>3 DEF Workers, Alive, Working
  <2>2. Now(t) \in FamilyCalls(Programs[test], t)
    BY <1>0, <1>1, <2>1, WorkerCalls, LibraryCalls DEF CondWaits
  <2>3. Now(t).op \in MutexUses BY <1>1 DEF MutexUses
  <2> QED BY <2>2, <2>3
<1> QED BY <1>2, <1>3

\* What is known of the mutex is kept by all steps.
LEMMA MutexStep ==
  ASSUME LockInv, NEW t \in Threads, Step(t) \/ TimerRunsOut(t) \/ WokenByNothing(t), ~exited'
  PROVE  MutexKept'
<1> DEFINE p == Programs[test]
<1>1. test' = test /\ Main' = Main
  BY QuietStep, LeapingFrame, StepKinds DEF LockInv, Main
<1>2. /\ mutex.owner # NoOne => mutex.count = 1
      /\ \/ mutex.type \in InitTypes(p)
         \/ /\ mutex.type = "normal"
            /\ InitFirst(p) => Workers = {} /\ (Done = 0 \/ Done = Len(Main))
  BY DEF LockInv, MutexKept
<1>3. ASSUME mutex'.owner # NoOne
      PROVE  /\ mutex'.count = 1 /\ th'[mutex'.owner].state \in {"running", "barrier"}
             /\ mutex'.owner # "main" =>
                  \E c \in FamilyCalls(p, mutex'.owner) : c.op \in MutexUses
  <2>1. CASE mutex'.owner = mutex.owner /\ mutex'.count = mutex.count
    <3>1. mutex.owner # NoOne BY <1>3, <2>1
    <3>2. /\ mutex'.count = 1
          /\ mutex.owner # "main" => \E c \in FamilyCalls(p, mutex.owner) : c.op \in MutexUses
      BY <2>1, <3>1, OwnerIs
    <3> QED BY <2>1, <3>1, <3>2, OwnerRuns
  <2>2. CASE mutex'.owner = t /\ mutex'.count = 1 /\ (MutexLocked(t) \/ WaitReturns(t))
    BY <2>2, NewOwner
  <2> QED BY <1>3, <2>1, <2>2, OwnerSteps
<1>4. \/ mutex'.type \in InitTypes(p)
      \/ /\ mutex'.type = "normal"
         /\ InitFirst(p) => Workers' = {} /\ (Done' = 0 \/ Done' = Len(Main))
  <2>1. CASE mutex'.type \in InitTypes(p) BY <2>1
  <2>2. CASE mutex'.type \notin InitTypes(p)
    <3>1. mutex'.type = mutex.type BY <2>2, OwnerSteps
    <3> QED BY <1>2, <2>2, <3>1, FirstSteps
  <2> QED BY <2>1, <2>2
<1>5. Tolerant(p) \/ mutex'.mark = "sound" BY OwnerSteps
<1> QED BY <1>1, <1>3, <1>4, <1>5 DEF MutexKept

-----------------------------------------------------------------------------
(* Who comes to the barrier. *)

\* The calls to the barrier in u are some of those in s, in the same order.
Leaves(s, u) ==
  \E d \in Int : \A i \in DOMAIN u : u[i].op = "barrier_wait" =>
    i \in Int /\ i + d \in DOMAIN s /\ s[i + d].op = "barrier_wait"

\* Of calls that come to the barrier at most once, or never, those that are left do too.
LEMMA LeavesKeeps ==
  ASSUME NEW s, NEW u, Leaves(s, u)
  PROVE  (AtMostOne(s) => AtMostOne(u)) /\ (Meets(u) => Meets(s))
<1>1. PICK d \in Int : \A i \in DOMAIN u : u[i].op = "barrier_wait" =>
        i \in Int /\ i + d \in DOMAIN s /\ s[i + d].op = "barrier_wait"
  BY DEF Leaves
<1>2. ASSUME AtMostOne(s), NEW i \in DOMAIN u, NEW j \in DOMAIN u,
             u[i].op = "barrier_wait", u[j].op = "barrier_wait"
      PROVE  i = j
  <2>1. i + d = j + d /\ i \in Int /\ j \in Int BY <1>1, <1>2 DEF AtMostOne
  <2> QED BY <2>1
<1>3. Meets(u) => Meets(s) BY <1>1 DEF Meets, CallsIn
<1> QED BY <1>2, <1>3 DEF AtMostOne

\* What is left after a call or a jump, or with other calls before it that do not come
\* to the barrier.
LEMMA LeavesParts ==
  ASSUME NEW S, NEW s \in Seq(S)
  PROVE  /\ Leaves(s, s) /\ (s # <<>> => Leaves(s, Tail(s)))
         /\ \A n \in Nat : Leaves(s, SubSeq(s, n + 2, Len(s)))
         /\ \A a \in Seq(S) : s # <<>> /\ (\A i \in DOMAIN a : a[i].op # "barrier_wait") =>
              Leaves(s, a \o Tail(s))
<1>0. Len(s) \in Nat /\ DOMAIN s = 1..Len(s) BY LenProperties
<1>1. Leaves(s, s)
  <2>1. \A i \in DOMAIN s : i \in Int /\ i + 0 = i BY <1>0
  <2> QED BY <2>1 DEF Leaves
<1>2. ASSUME NEW n \in Nat PROVE Leaves(s, SubSeq(s, n + 2, Len(s)))
  <2> DEFINE u == SubSeq(s, n + 2, Len(s))
  <2>1. \A i \in n + 2 .. Len(s) : s[i] \in S BY <1>0, ElementOfSeq
  <2>2. /\ u \in Seq(S) /\ Len(u) = IF n + 2 <= Len(s) THEN Len(s) - (n + 2) + 1 ELSE 0
        /\ \A i \in 1 .. Len(s) - (n + 2) + 1 : u[i] = s[n + 2 + i - 1]
    BY <1>0, <2>1, SubSeqProperties
  <2> HIDE DEF u
  <2>3. DOMAIN u = 1..Len(u) BY <2>2, LenProperties
  <2>4. ASSUME NEW i \in DOMAIN u
        PROVE  i \in Int /\ i + (n + 1) \in DOMAIN s /\ s[i + (n + 1)] = u[i]
    <3>1. i \in Int /\ 1 <= i /\ i <= Len(u) BY <2>3
    <3>2. n + 2 <= Len(s) /\ Len(u) = Len(s) - (n + 2) + 1
      <4>1. CASE n + 2 <= Len(s) BY <2>2, <4>1
      <4>2. CASE ~(n + 2 <= Len(s)) BY <2>2, <3>1, <4>2
      <4> QED BY <4>1, <4>2
    <3>3. i \in 1 .. Len(s) - (n + 2) + 1 /\ n + 2 + i - 1 = i + (n + 1) BY <1>0, <3>1, <3>2
    <3>4. i + (n + 1) \in DOMAIN s BY <1>0, <3>1, <3>2
    <3> QED BY <2>2, <3>1, <3>3, <3>4
  <2>5. n + 1 \in Int OBVIOUS
  <2>6. Leaves(s, u) BY <2>4, <2>5 DEF Leaves
  <2> QED BY <2>6 DEF u
<1>3. ASSUME s # <<>>
      PROVE  /\ Tail(s) \in Seq(S) /\ Len(Tail(s)) = Len(s) - 1 /\ DOMAIN Tail(s) = 1..Len(Tail(s))
             /\ \A i \in DOMAIN Tail(s) : Tail(s)[i] = s[i + 1] /\ i + 1 \in DOMAIN s
  <2>1. Tail(s) \in Seq(S) /\ Len(Tail(s)) = Len(s) - 1
        /\ \A i \in 1 .. Len(Tail(s)) : Tail(s)[i] = s[i + 1]
    BY <1>3, HeadTailProperties
  <2>2. DOMAIN Tail(s) = 1..Len(Tail(s)) BY <2>1, LenProperties
  <2>3. \A i \in 1..Len(Tail(s)) : i + 1 \in DOMAIN s BY <1>0, <2>1
  <2> QED BY <2>1, <2>2, <2>3
<1>4. ASSUME s # <<>> PROVE Leaves(s, Tail(s))
  <2>1. \A i \in DOMAIN Tail(s) : i \in Int BY <1>0, <1>3, <1>4
  <2> QED BY <1>3, <1>4, <2>1 DEF Leaves
<1>5. ASSUME NEW a \in Seq(S), s # <<>>, \A i \in DOMAIN a : a[i].op # "barrier_wait"
      PROVE  Leaves(s, a \o Tail(s))
  <2> DEFINE b == Tail(s)
             u == a \o b
  <2>1. Len(a) \in Nat /\ DOMAIN a = 1..Len(a) BY LenProperties
  <2>2. b \in Seq(S) /\ Len(b) \in Nat /\ DOMAIN b = 1..Len(b) BY <1>3, <1>5, LenProperties
  <2>3. \A i \in DOMAIN b : b[i] = s[i + 1] /\ i + 1 \in DOMAIN s BY <1>3, <1>5
  <2> HIDE DEF b
  <2>4. /\ u \in Seq(S) /\ Len(u) = Len(a) + Len(b)
        /\ \A i \in 1 .. Len(a) + Len(b) : u[i] = IF i <= Len(a) THEN a[i] ELSE b[i - Len(a)]
    BY <2>2, ConcatProperties
  <2>5. DOMAIN u = 1..Len(u) BY <2>4, LenProperties
  <2> HIDE DEF u
  <2>6. ASSUME NEW i \in DOMAIN u, u[i].op = "barrier_wait"
        PROVE  i \in Int /\ i + (1 - Len(a)) \in DOMAIN s /\ s[i + (1 - Len(a))].op = "barrier_wait"
    <3>1. i \in Int /\ 1 <= i /\ i <= Len(a) + Len(b) BY <2>1, <2>2, <2>4, <2>5
    <3>2. ~(i <= Len(a)) BY <1>5, <2>1, <2>2, <2>4, <2>6, <3>1
    <3>3. i - Len(a) \in DOMAIN b /\ i - Len(a) + 1 = i + (1 - Len(a)) BY <2>1, <2>2, <3>1, <3>2
    <3>4. u[i] = b[i - Len(a)] BY <2>1, <2>2, <2>4, <3>1, <3>2
    <3> QED BY <2>3, <2>6, <3>1, <3>3, <3>4
  <2>7. 1 - Len(a) \in Int BY <2>1
  <2>8. Leaves(s, u) BY <2>6, <2>7 DEF Leaves
  <2> QED BY <2>8 DEF u, b
<1> QED BY <1>1, <1>2, <1>4, <1>5

\* Who makes the one call to the barrier that is left has none left.
LEMMA NoneLeft ==
  ASSUME NEW S, NEW s \in Seq(S), s # <<>>, Head(s).op = "barrier_wait", AtMostOne(s)
  PROVE  ~Meets(Tail(s))
<1> SUFFICES ASSUME NEW c \in CallsIn(Tail(s)), c.op = "barrier_wait" PROVE FALSE BY DEF Meets
<1>1. /\ Len(s) \in Nat /\ DOMAIN s = 1..Len(s) /\ Len(s) >= 1 /\ Head(s) = s[1]
      /\ Tail(s) \in Seq(S) /\ Len(Tail(s)) = Len(s) - 1
      /\ \A i \in 1 .. Len(Tail(s)) : Tail(s)[i] = s[i + 1]
  BY HeadTailProperties, LenProperties, EmptySeq
<1>2. DOMAIN Tail(s) = 1..Len(Tail(s)) BY <1>1, LenProperties
<1>3. PICK i \in DOMAIN Tail(s) : c = Tail(s)[i] BY DEF CallsIn
<1>4. i + 1 \in DOMAIN s /\ 1 \in DOMAIN s /\ i + 1 # 1 /\ s[i + 1] = c BY <1>1, <1>2, <1>3
<1> QED BY <1>1, <1>4 DEF AtMostOne

\* What the calls of a test name.
LEMMA TestNames ==
  ASSUME TypeOK, NEW c \in AllCalls(Programs[test]) PROVE Names(Programs[test], c)
<1>1. test \in Tests /\ c \in CallsOf(Programs[test]) BY DEF TypeOK, AllCalls, CallsOf
<1> QED BY <1>1, ProgramsAssumption

\* The routines of a thread are its own and handlers.
LEMMA FamilyIs ==
  ASSUME TypeOK, NEW u \in DOMAIN Programs[test]
  PROVE  Family(Programs[test], u) \subseteq {u} \cup Handlers(Programs[test])
<1> DEFINE p == Programs[test]
           R == ({u} \cup Handlers(p)) \cap DOMAIN p
<1>1. R \in SUBSET DOMAIN p /\ u \in R OBVIOUS
<1>2. ASSUME NEW q \in R, NEW c \in CallsIn(p[q]), c.op = "push" PROVE c.obj \in R
  <2>1. c \in AllCalls(p) BY <1>2 DEF AllCalls
  <2>2. c.obj \in DOMAIN p BY <1>2, <2>1, TestNames DEF Names
  <2>3. c.obj \in Handlers(p) BY <1>2, <2>1 DEF Handlers
  <2> QED BY <2>2, <2>3
<1> HIDE DEF R
<1>3. \A r \in Family(p, u) : r \in R BY <1>1, <1>2 DEF Family
<1> QED BY <1>3 DEF R

\* Handlers do not come to the barrier.
LEMMA HandlersMeetNone ==
  ASSUME LockInv, NEW h \in Handlers(Programs[test]), NEW c \in CallsIn(Programs[test][h])
  PROVE  c.op # "barrier_wait"
BY DEF LockInv, LocksWell, Involved

\* Who comes to the barrier is one of those that meet.
LEMMA ComesMeets ==
  ASSUME LockInv, NEW u \in Threads, Alive(u), Meets(th[u].calls)
  PROVE  u \in Meeting(Programs[test])
<1> DEFINE p == Programs[test]
<1>0. TypeOK /\ MainInPlace /\ WorkersInPlace BY DEF LockInv
<1>1. PICK c \in CallsIn(th[u].calls) : c.op = "barrier_wait" BY DEF Meets
<1>2. CASE u = "main"
  <2>1. PICK k \in DOMAIN th[u].calls : c = th[u].calls[k] BY <1>1 DEF CallsIn
  <2>2. c = Main[Done + k] BY <1>0, <1>2, <2>1 DEF MainInPlace
  <2>3. Done + k \in DOMAIN Main
    <3> DEFINE l == Len(th["main"].calls)
               d == Done
               m == Len(Main)
    <3>1. th["main"].calls \in Seq(CallsOf(p)) BY <1>0, MainIsThread DEF TypeOK, ThreadsOK, Thread
    <3>2. k \in 1..l BY <1>2, <2>1, <3>1, LenProperties
    <3>3. m \in Nat /\ l \in Nat /\ d \in Nat /\ m = d + l /\ DOMAIN Main = 1..m
      BY <1>0, MainFacts
    <3> HIDE DEF l, d, m
    <3>4. d + k \in 1..m BY <3>2, <3>3
    <3> QED BY <3>3, <3>4 DEF d
  <2>4. c \in CallsIn(p["main"]) BY <2>2, <2>3 DEF CallsIn, Main
  <2> QED BY <1>1, <1>2, <2>4 DEF Meeting, Meets
<1>3. CASE u # "main"
  <2>1. MadeByMain(u) /\ InRoutines(u) BY <1>0, <1>3 DEF WorkersInPlace, Workers
  <2>2. PICK e \in CallsIn(p["main"]) : e.op = "create" /\ e.obj = u
    BY <2>1 DEF MadeByMain, Main
  <2>3. u \in Created(p) BY <2>2 DEF Created
  <2>4. u \in DOMAIN p
    <3>1. "main" \in DOMAIN p BY <1>0, ProgramsAssumption DEF TypeOK
    <3>2. e \in AllCalls(p) BY <2>2, <3>1 DEF AllCalls
    <3> QED BY <1>0, <2>2, <3>2, TestNames DEF Names
  <2>5. c \in FamilyCalls(p, u) BY <1>1, <2>1, LibraryCalls DEF InRoutines
  <2>6. PICK r \in Family(p, u) : c \in CallsIn(p[r]) BY <2>5 DEF FamilyCalls
  <2>7. r = u BY <1>0, <1>1, <2>4, <2>6, FamilyIs, HandlersMeetNone
  <2> QED BY <1>1, <2>3, <2>6, <2>7 DEF Meeting, Meets
<1> QED BY <1>2, <1>3

\* The handlers that are still to run do not come to the barrier.
LEMMA PopsLeave ==
  ASSUME NEW s, NEW h PROVE Leaves(s, [i \in DOMAIN h |-> Pop(TRUE)])
<1>1. Pop(TRUE).op # "barrier_wait" BY LibraryCalls
<1> DEFINE c == Pop(TRUE)
           u == [i \in DOMAIN h |-> c]
<1>2. c.op # "barrier_wait" BY <1>1
<1> HIDE DEF c
<1>3. \A i \in DOMAIN u : u[i].op # "barrier_wait" BY <1>2
<1> HIDE DEF u
<1>4. Leaves(s, u)
  <2>1. 0 \in Int OBVIOUS
  <2> QED BY <1>3, <2>1 DEF Leaves
<1> QED BY <1>4 DEF u, c

\* The handlers of a thread that exits or is cancelled do not come to the barrier.
LEMMA UnwoundLeaves ==
  ASSUME LockInv, NEW t \in Threads, NEW v, th' = [th EXCEPT ![t] = Unwound(t, v)], NEW s
  PROVE  Leaves(s, th'[t].calls)
<1>1. th[t] \in Thread /\ th'[t] = Unwound(t, v) BY DEF LockInv, TypeOK, ThreadsOK
<1> DEFINE u == [i \in DOMAIN th[t].handlers |-> Pop(TRUE)]
<1>2. th'[t] = [th[t] EXCEPT !.state = "running", !.enabled = FALSE, !.value = v, !.calls = u]
  BY <1>1 DEF Unwound, LockInv
<1> HIDE DEF u
<1>3. th'[t].calls = u
  <2> DEFINE x == th[t]
             y == th'[t]
  <2>1. x \in Thread /\ y = [x EXCEPT !.state = "running", !.enabled = FALSE, !.value = v, !.calls = u]
    BY <1>1, <1>2
  <2> HIDE DEF x, y
  <2>2. y.calls = u BY <2>1 DEF Thread
  <2> QED BY <2>2 DEF y
<1>4. Leaves(s, u) BY PopsLeave DEF u
<1> QED BY <1>3, <1>4

\* A thread that leaps comes to the barrier no more than before.
LEMMA LeaperCalls ==
  ASSUME LockInv, NEW t \in Threads, Leaping(t)
  PROVE  Leaves(th[t].calls, th'[t].calls)
<1> DEFINE p == Programs[test]
<1>0. TypeOK /\ MainAlone(p) /\ WorkersInPlace /\ MainInPlace BY DEF LockInv, LocksWell
<1>t. /\ th[t] \in Thread /\ th[t].handlers \in Seq(DOMAIN p) /\ th \in [Threads -> Thread]
      /\ th[t].calls \in Seq(CallsOf(p))
  BY <1>0 DEF TypeOK, ThreadsOK, Thread
<1>1. CASE InCall(t) /\ th'[t].calls = Tail(th[t].calls)
  BY <1>t, <1>1, LeavesParts DEF InCall
<1>2. CASE Skip(t)
  <2>1. /\ InCall(t)
        /\ \/ th'[t].calls = Tail(th[t].calls)
           \/ th'[t].calls = SubSeq(th[t].calls, Now(t).jump + 2, Len(th[t].calls))
    BY <1>0, <1>2, SkipFields
  <2>2. Now(t).jump \in Nat BY <1>0, <2>1, NowNames
  <2> QED BY <1>t, <1>1, <2>1, <2>2, LeavesParts
<1>3. CASE ThreadCreated(t)
  <2>1. InCall(t) BY <1>0, <1>3, CreatedFields
  <2>2. PICK w \in Threads : w = Now(t).obj /\ (t # w => th'[t] = Onward(t))
    BY ZenonT(30), <1>0, <1>3, CreatedFields
  <2>3. t = "main" /\ Now("main") \in CallsIn(Main) /\ Now("main").op = "create"
    BY <1>0, <1>3, <2>1, MainCreates, MainFacts, CreatedFields
  <2>4. t # w BY <1>0, <2>2, <2>3 DEF MainAlone, Main
  <2> QED BY <1>0, <1>1, <2>1, <2>2, <2>4, OnwardFields
<1>4. CASE ThreadJoined(t) BY <1>0, <1>1, <1>4, JoinedFields, OnwardFields
<1>5. CASE HandlerPushed(t)
  <2>1. InCall(t) BY <1>5, AtAlive DEF HandlerPushed
  <2>2. th'[t] = [Onward(t) EXCEPT !.handlers = <<Now(t).obj>> \o th[t].handlers]
    BY <1>5, <1>t DEF HandlerPushed
  <2>3. Onward(t) \in Thread BY <1>0, <2>1, OnwardThread
  <2>4. th'[t].calls = Onward(t).calls BY <2>2, <2>3 DEF Thread
  <2> QED BY <1>0, <1>1, <2>1, <2>4, OnwardFields
<1>6. CASE HandlerPopped(t)
  <2>1. InCall(t) /\ th[t].state = "running" /\ th[t].handlers # <<>>
    BY <1>6, AtAlive DEF HandlerPopped, At
  <2> DEFINE r == Head(th[t].handlers)
             s == IF Now(t).obj = "run" THEN p[r] ELSE <<>>
  <2>2. th'[t] = [After(t, s) EXCEPT !.handlers = Tail(th[t].handlers)]
    BY <1>6, <1>t DEF HandlerPopped
  <2>3. r \in DOMAIN p /\ r \in CallsIn(th[t].handlers)
    BY <1>t, <2>1, HeadTailProperties, CallsOfParts
  <2>4. r \in Handlers(p)
    <3>1. CallsIn(th[t].handlers) \subseteq Handlers(p)
      BY <2>1, ModeOf DEF Fits, Working
    <3> QED BY <2>3, <3>1
  <2>5. s \in Seq(CallsOf(p))
    <3>1. p[r] \in Seq(CallsOf(p)) BY <1>0, <2>3, RoutineCalls
    <3>2. <<>> \in Seq(CallsOf(p)) OBVIOUS
    <3>3. s = p[r] \/ s = <<>> OBVIOUS
    <3> HIDE DEF s
    <3> QED BY <3>1, <3>2, <3>3
  <2>6. \A i \in DOMAIN s : s[i].op # "barrier_wait"
    <3>1. CASE s = p[r] BY <2>4, <3>1, HandlersMeetNone DEF CallsIn
    <3>2. CASE s = <<>> BY <3>2
    <3> QED BY <3>1, <3>2
  <2> HIDE DEF s, r
  <2>7. th'[t].calls = s \o Tail(th[t].calls) BY <1>t, <2>2 DEF After, Thread
  <2>8. th[t].calls # <<>> BY <2>1 DEF InCall
  <2> QED BY <1>t, <2>5, <2>6, <2>7, <2>8, LeavesParts
<1>7. CASE ThreadExits(t) \/ CancelActs(t) \/ (WaitReturns(t) /\ th[t].state = "cancelled")
  <2>1. PICK v : th' = [th EXCEPT ![t] = Unwound(t, v)]
    BY <1>7 DEF ThreadExits, CancelActs, WaitReturns
  <2> QED BY <2>1, UnwoundLeaves
<1>8. CASE OnceCalled(t)
  <2>1. InCall(t) /\ Now(t).op = "once" /\ Alive(t) BY <1>8, AtAlive DEF OnceCalled, At
  <2>2. t # "main" BY <1>0, <2>1, MainFacts DEF MainAlone, Main
  <2>3. t \in Workers BY <2>1, <2>2 DEF Workers
  <2> QED BY <1>0, <2>1, <2>3, WorkerCalls
<1>9. CASE SpecificSet(t)
  <2>1. InCall(t) BY <1>9, AtAlive DEF SpecificSet
  <2>2. th'[t] = [Onward(t) EXCEPT !.specific[Now(t).obj] = Now(t).arg]
    BY <1>9, <1>t DEF SpecificSet
  <2>3. Onward(t) \in Thread BY <1>0, <2>1, OnwardThread
  <2>4. th'[t].calls = Onward(t).calls BY <2>2, <2>3 DEF Thread
  <2> QED BY <1>0, <1>1, <2>1, <2>4, OnwardFields
<1> QED BY <1>2, <1>3, <1>4, <1>5, <1>6, <1>7, <1>8, <1>9 DEF Leaping

\* main() does not create a thread that is still there.
LEMMA CreatedAnew ==
  ASSUME LockInv, NEW t \in Threads, ThreadCreated(t)
  PROVE  /\ t = "main" /\ InCall("main") /\ Now("main").op = "create"
         /\ Now("main").obj # "main" /\ ~Alive(Now("main").obj)
         /\ Now("main") \in CallsIn(Main)
<1> DEFINE p == Programs[test]
<1>0. TypeOK /\ MainAlone(p) /\ WorkersInPlace /\ MainInPlace BY DEF LockInv, LocksWell
<1>1. t = "main" BY <1>0, MainCreates
<1>2. InCall("main") /\ Now("main").op = "create" BY <1>0, <1>1, CreatedFields
<1>3. Now("main") \in CallsIn(Main) BY <1>0, <1>2, MainFacts
<1>4. Now("main").obj # "main" BY <1>0, <1>2, <1>3 DEF MainAlone, Main
<1>5. Now("main").obj \in Threads BY <1>0, <1>2, MainIsThread, NowNames DEF Names
<1>6. Now("main").obj \notin Workers BY <1>2, MainApart
<1> QED BY <1>1, <1>2, <1>3, <1>4, <1>5, <1>6 DEF Workers

\* No thread comes to the barrier more than before.
LEMMA LeftCalls ==
  ASSUME LockInv, NEW t \in Threads, Step(t) \/ TimerRunsOut(t) \/ WokenByNothing(t),
         NEW u \in Threads, Alive(u)
  PROVE  Leaves(th[u].calls, th'[u].calls)
<1>0. TypeOK BY DEF LockInv
<1>s. th[u].calls \in Seq(CallsOf(Programs[test])) BY <1>0 DEF TypeOK, ThreadsOK, Thread
<1>1. CASE th'[u].calls = th[u].calls BY <1>s, <1>1, LeavesParts
<1>2. CASE Returning(t) \/ Blocking(t)
  <2>1. Quiet(u) BY <1>0, <1>2, QuietStep
  <2>2. CASE th[u].calls # <<>> /\ th'[u].calls = Tail(th[u].calls)
    BY <1>s, <2>2, LeavesParts
  <2> QED BY <1>1, <2>1, <2>2 DEF Quiet
<1>3. CASE Leaping(t) /\ u = t BY <1>3, LeaperCalls
<1>4. CASE Leaping(t) /\ u # t
  <2>1. ~(ThreadCreated(t) /\ u = Now(t).obj) BY CreatedAnew
  <2> QED BY <1>0, <1>1, <1>4, <2>1, LeapElse
<1> QED BY <1>2, <1>3, <1>4, StepKinds

\* A thread that has not been created is created by main() or stays as it is.
LEMMA UnbornStays ==
  ASSUME LockInv, NEW t \in Threads, Step(t) \/ TimerRunsOut(t) \/ WokenByNothing(t),
         NEW u \in Threads, th[u].state = "unborn"
  PROVE  th'[u].state = "unborn" \/ (ThreadCreated(t) /\ u = Now(t).obj)
<1>0. TypeOK BY DEF LockInv
<1>1. CASE Returning(t) \/ Blocking(t)
  <2>1. Quiet(u) BY <1>0, <1>1, QuietStep
  <2> QED BY <2>1 DEF Quiet
<1>2. CASE Leaping(t)
  <2>1. u # t BY <1>0, <1>2, LeaperAlive DEF Alive
  <2>2. ~(ThreadJoined(t) /\ th'[u].state = "joined")
    <3> SUFFICES ASSUME ThreadJoined(t), th'[u].state = "joined" PROVE FALSE
      OBVIOUS
    <3>1. th[Now(t).obj].state = "done" BY DEF ThreadJoined
    <3>2. u # Now(t).obj BY <3>1
    <3>3. th'[u] = th[u] BY <1>0, <2>1, <3>2, JoinedFields
    <3> QED BY <3>3
  <2> QED BY <1>0, <1>2, <2>1, <2>2, LeapElse
<1> QED BY <1>1, <1>2, StepKinds

\* main() has still to destroy the barrier.
Ahead == \E k \in (Done + 1)..Len(Main) : Main[k].op = "barrier_destroy"

\* Then it goes on by at most one call, and has more to make after it.
LEMMA MainGoes ==
  ASSUME LockInv, MeetsOnce(Programs[test]),
         NEW t \in Threads, Step(t) \/ TimerRunsOut(t) \/ WokenByNothing(t), Ahead'
  PROVE  /\ test' = test /\ Main' = Main /\ Ahead
         /\ th'["main"].calls # <<>>
         /\ \A k \in (Done' + 1)..Len(Main) : k \in (Done + 1)..Len(Main) /\ k \in DOMAIN Main
         /\ \E c \in CallsIn(Main) : c.op = "barrier_destroy"
         /\ \/ MovesOn(0) /\ Done' = Done
            \/ /\ MovesOn(1) /\ Done' = Done + 1 /\ InCall("main")
               /\ Done + 1 \in DOMAIN Main /\ Now("main") = Main[Done + 1]
<1> DEFINE d == Done
           m == Len(Main)
           e == Done'
           l == Len(th["main"].calls)
<1>0. TypeOK /\ BlockedInWait /\ MainAlone(Programs[test]) /\ MainInPlace /\ WorkersInPlace
  BY DEF LockInv, LocksWell
<1>1. test' = test /\ Main' = Main BY <1>0, InPlaceStep
<1>2. PICK n : MovesOn(n) /\ MayMove(n) /\ e = d + n BY <1>0, InPlaceStep
<1>3. /\ m \in Nat /\ l \in Nat /\ d \in Nat /\ m = d + l /\ DOMAIN Main = 1..m
      /\ InCall("main") => d + 1 \in DOMAIN Main /\ Now("main") = Main[d + 1]
                           /\ Now("main") \in CallsIn(Main)
  BY <1>0, MainFacts
<1>4. PICK k \in (e + 1)..m : Main[k].op = "barrier_destroy" BY <1>1 DEF Ahead
<1>5. n \in 0..l /\ Len(th'["main"].calls) = l - n BY <1>2 DEF MovesOn
<1>6. /\ n # l /\ l - n # 0 /\ k \in (d + 1)..m /\ k \in 1..m
      /\ \A j \in (e + 1)..m : j \in (d + 1)..m /\ j \in 1..m
  <2>1. m \in Nat /\ l \in Nat /\ d \in Nat /\ m = d + l /\ e = d + n /\ k \in (e + 1)..m
        /\ n \in 0..l
    BY <1>2, <1>3, <1>4, <1>5
  <2> HIDE DEF d, m, e, l
  <2> QED BY <2>1
<1>7. Ahead BY <1>4, <1>6 DEF Ahead
<1>8. th'["main"].calls # <<>>
  <2>1. Len(<<>>) = 0 OBVIOUS
  <2> QED BY <1>5, <1>6, <2>1
<1>9. Main[k] \in CallsIn(Main) BY <1>3, <1>6 DEF CallsIn
<1>10. \A c \in CallsIn(Main) : c.op # "skip" BY <1>4, <1>9 DEF MeetsOnce, Main
<1>11. n = 0 \/ (n = 1 /\ InCall("main")) BY <1>2, <1>3, <1>6, <1>10 DEF MayMove
<1>12. n = 0 => e = d BY <1>2, <1>3
<1> QED BY <1>1, <1>2, <1>3, <1>4, <1>6, <1>7, <1>8, <1>9, <1>11, <1>12

\* There are finitely many threads.
LEMMA FiniteThreads == IsFiniteSet(Threads)
<1> DEFINE S == {} \cup {"main"} \cup {"t1"} \cup {"t2"} \cup {"t3"} \cup {"t4"}
<1>1. IsFiniteSet(S) BY FS_EmptySet, FS_AddElement
<1>2. S = Threads BY DEF Threads
<1> QED BY <1>1, <1>2

\* When all have met who come to the barrier, those are all who ever do.
LEMMA AllMetMeets ==
  ASSUME LockInv, MeetsOnce(Programs[test]), MeetingKept, Ahead, AllMet,
         \E c \in CallsIn(Main) : c.op = "barrier_destroy"
  PROVE  \A u \in Threads :
           IF u \in Meeting(Programs[test])
             THEN Alive(u) /\ InCall(u) /\ Now(u).op = "barrier_wait" /\ th'[u] = Onward(u)
             ELSE th'[u] = th[u]
<1> DEFINE p == Programs[test]
           M == Meeting(p)
<1>0. TypeOK BY DEF LockInv
<1>1. PICK v \in Threads :
        /\ BarrierReached(v) /\ ~(Cardinality(AtBarrier) + 1 < Now(v).than)
        /\ th' = [w \in Threads |-> IF w \in AtBarrier \cup {v} THEN Onward(w) ELSE th[w]]
  BY DEF AllMet
<1> DEFINE A == AtBarrier \cup {v}
<1>2. /\ InCall(v) /\ Alive(v) /\ Now(v).op = "barrier_wait" /\ v \notin AtBarrier
      /\ Now(v).than \in Int
  BY <1>0, <1>1, AtAlive, NowNames DEF BarrierReached, At, AtBarrier
<1>3. ASSUME NEW u \in AtBarrier PROVE u \in Threads /\ InCall(u) /\ Alive(u) /\ Now(u).op = "barrier_wait"
  BY <1>0 DEF AtBarrier, LockInv, BlockedInWait, BlocksIn, Blocks, TypeOK, ThreadsOK, InCall, Alive
<1>4. \A u \in A : u \in Threads /\ InCall(u) /\ Alive(u) /\ Now(u).op = "barrier_wait"
  BY <1>2, <1>3
<1>5. A \subseteq M
  <2> SUFFICES ASSUME NEW u \in A PROVE u \in M OBVIOUS
  <2>1. Now(u) \in CallsIn(th[u].calls) BY <1>0, <1>4, NowIn
  <2> QED BY <1>4, <2>1, ComesMeets DEF Meets
<1>6. M \subseteq Threads
  <2> SUFFICES ASSUME NEW c \in CallsIn(p["main"]), c.op = "create" PROVE c.obj \in Threads
    BY MainIsThread DEF Meeting, Created
  <2>1. "main" \in DOMAIN p BY <1>0, ProgramsAssumption DEF TypeOK
  <2>2. c \in AllCalls(p) BY <2>1 DEF AllCalls
  <2> QED BY <1>0, <2>2, TestNames DEF Names
<1>7. Cardinality(M) <= Now(v).than
  <2>1. Now(v) \in AllCalls(p) BY <1>0, <1>2, CallsOfTest
  <2> QED BY <1>2, <2>1 DEF MeetsOnce, Main
<1>8. IsFiniteSet(M) /\ IsFiniteSet(AtBarrier)
  <2>1. AtBarrier \subseteq Threads BY DEF AtBarrier
  <2> QED BY <1>6, <2>1, FiniteThreads, FS_Subset
<1>9. Cardinality(A) = Cardinality(AtBarrier) + 1 BY <1>2, <1>8, FS_AddElement
<1>10. Cardinality(M) \in Nat /\ Cardinality(A) \in Nat /\ Cardinality(A) <= Cardinality(M)
  BY <1>5, <1>8, FS_Subset, FS_CardinalityType
<1>11. Cardinality(M) = Cardinality(A)
  <2> DEFINE a == Cardinality(A)
             b == Cardinality(AtBarrier)
             c == Cardinality(M)
  <2>0. b \in Nat BY <1>8, FS_CardinalityType
  <2>1. a \in Nat /\ b \in Nat /\ c \in Nat /\ a = b + 1 /\ a <= c /\ c <= Now(v).than
        /\ ~(b + 1 < Now(v).than) /\ Now(v).than \in Int
    BY <1>1, <1>2, <1>7, <1>9, <1>10, <2>0
  <2> HIDE DEF a, b, c
  <2>2. a = c BY <2>1
  <2> QED BY <2>2 DEF a, c
<1>12. M = A BY <1>5, <1>8, <1>11, FS_Subset
<1> HIDE DEF A, M
<1>13. \A u \in Threads : th'[u] = IF u \in A THEN Onward(u) ELSE th[u] BY <1>1 DEF A
<1> QED BY <1>4, <1>12, <1>13 DEF M

\* A thread that was not there has been created by main() in this step.
LEMMA NewlyAlive ==
  ASSUME LockInv, NEW t \in Threads, Step(t) \/ TimerRunsOut(t) \/ WokenByNothing(t),
         NEW u \in Threads, ~Alive(u), Alive(u)'
  PROVE  /\ ThreadCreated(t) /\ t = "main" /\ u = Now("main").obj /\ u # "main"
         /\ InCall("main") /\ Now("main").op = "create"
         /\ th'[u].calls = Programs[test][u] /\ u \in Created(Programs[test])
<1>0. TypeOK BY DEF LockInv
<1>1. ThreadCreated(t) /\ u = Now(t).obj /\ th'[u].calls = Programs[test][u]
  <2>1. CASE Returning(t) \/ Blocking(t)
    <3>1. Quiet(u) BY <1>0, <2>1, QuietStep
    <3> QED BY <3>1 DEF Quiet, Alive
  <2>2. CASE Leaping(t)
    <3>1. u # t BY <1>0, <2>2, LeaperAlive
    <3> QED BY <1>0, <2>2, <3>1, LeapElse DEF Alive
  <2> QED BY <2>1, <2>2, StepKinds
<1>2. /\ t = "main" /\ InCall("main") /\ Now("main").op = "create"
      /\ Now("main").obj # "main" /\ Now("main") \in CallsIn(Main)
  BY <1>1, CreatedAnew
<1> QED BY <1>1, <1>2 DEF Created, Main

\* Nobody is created twice, nor after having come to the barrier.
LEMMA CreatedOnce ==
  ASSUME LockInv, MeetsOnce(Programs[test]), MeetingKept,
         NEW t \in Threads, Step(t) \/ TimerRunsOut(t) \/ WokenByNothing(t), Ahead',
         NEW u \in Threads \ {"main"}, th'[u].state # "unborn",
         NEW k \in (Done' + 1)..Len(Main), Main[k].op = "create"
  PROVE  Main[k].obj # u
<1> DEFINE d == Done
<1>0. TypeOK /\ MainInPlace BY DEF LockInv
<1>1. /\ Ahead /\ k \in (d + 1)..Len(Main) /\ k \in DOMAIN Main
      /\ \E c \in CallsIn(Main) : c.op = "barrier_destroy"
      /\ \/ MovesOn(0) /\ Done' = d
         \/ /\ MovesOn(1) /\ Done' = d + 1 /\ InCall("main")
            /\ d + 1 \in DOMAIN Main /\ Now("main") = Main[d + 1]
  BY MainGoes
<1>2. CASE th[u].state # "unborn" BY <1>1, <1>2 DEF MeetingKept, Ahead
<1>3. CASE th[u].state = "unborn"
  <2>1. ThreadCreated(t) /\ u = Now(t).obj BY <1>3, UnbornStays
  <2>2. /\ ThreadCreated("main") /\ InCall("main") /\ Now("main").op = "create"
        /\ Now("main").obj = u
    BY <2>1, CreatedAnew
  <2>3. d \in Nat /\ Len(Main) \in Nat BY <1>0, MainFacts
  <2>4. Done' = d + 1 /\ d + 1 \in DOMAIN Main /\ Now("main") = Main[d + 1]
    <3>1. CASE MovesOn(0) /\ Done' = d
      <4>1. Done' = d + 0 BY <2>3, <3>1
      <4>2. 0 = 1 BY <1>0, <2>2, <3>1, <4>1, CreatedByMain
      <4> QED BY <4>2
    <3> QED BY <1>1, <3>1
  <2>5. k # d + 1
    <3> HIDE DEF d
    <3> QED BY <2>3, <2>4
  <2>6. \A i, j \in DOMAIN Main :
          Main[i].op = "create" /\ Main[j].op = "create" /\ Main[i].obj = Main[j].obj => i = j
    BY <1>1 DEF MeetsOnce, Main
  <2> QED BY <1>1, <2>2, <2>4, <2>5, <2>6
<1> QED BY <1>2, <1>3

\* main() has no handlers to run when it is cancelled.
LEMMA MainUnwound ==
  ASSUME TypeOK, MainInPlace, bug = "none", NEW v, th' = [th EXCEPT !["main"] = Unwound("main", v)]
  PROVE  th'["main"].calls = <<>>
<1> DEFINE s == [i \in DOMAIN th["main"].handlers |-> Pop(TRUE)]
<1>1. th["main"] \in Thread /\ th["main"].handlers = <<>> /\ th'["main"] = Unwound("main", v)
  BY MainIsThread DEF TypeOK, ThreadsOK, MainInPlace
<1>2. s = <<>>
  <2>1. DOMAIN th["main"].handlers = {} BY <1>1
  <2> QED BY <2>1
<1>3. th'["main"] = [th["main"] EXCEPT !.state = "running", !.enabled = FALSE, !.value = v,
                                       !.calls = s]
  BY <1>1 DEF Unwound
<1> HIDE DEF s
<1>4. th'["main"].calls = s BY <1>1, <1>3 DEF Thread
<1> QED BY <1>2, <1>4

\* main() leaves the barrier with all others.
LEMMA MainMeets ==
  ASSUME LockInv, MeetsOnce(Programs[test]), MeetingKept,
         NEW t \in Threads, Step(t) \/ TimerRunsOut(t) \/ WokenByNothing(t), Ahead',
         Comes("main"), ~Comes("main")'
  PROVE  AllMet
<1> DEFINE s == th["main"].calls
           u == th'["main"].calls
<1>0. TypeOK /\ MainInPlace /\ BlockedInWait BY DEF LockInv
<1>1. u # <<>> /\ (MovesOn(0) \/ (MovesOn(1) /\ InCall("main"))) BY MainGoes
<1>2. s \in Seq(CallsOf(Programs[test])) /\ Len(s) \in Nat /\ DOMAIN s = 1..Len(s)
  BY <1>0, MainIsThread, LenProperties DEF TypeOK, ThreadsOK, Thread
<1>3. PICK i \in DOMAIN s : s[i].op = "barrier_wait" BY DEF Comes, Meets, CallsIn
<1>4. \A j \in DOMAIN u : u[j].op # "barrier_wait" BY DEF Comes, Meets, CallsIn
<1>5. ~MovesOn(0)
  <2> SUFFICES ASSUME MovesOn(0) PROVE FALSE OBVIOUS
  <2> HIDE DEF s, u
  <2>1. DOMAIN u = 1 .. Len(s) - 0 /\ \A k \in 1 .. Len(s) - 0 : u[k] = s[0 + k]
    BY DEF MovesOn, s, u
  <2>2. i \in 1 .. Len(s) - 0 /\ 0 + i = i BY <1>2
  <2> QED BY <1>3, <1>4, <2>1, <2>2
<1>6. MovesOn(1) /\ InCall("main") BY <1>1, <1>5
<1>7. i = 1
  <2> SUFFICES ASSUME i # 1 PROVE FALSE OBVIOUS
  <2> HIDE DEF s, u
  <2>1. DOMAIN u = 1 .. Len(s) - 1 /\ \A k \in 1 .. Len(s) - 1 : u[k] = s[1 + k]
    BY <1>6 DEF MovesOn, s, u
  <2>2. i - 1 \in 1 .. Len(s) - 1 /\ 1 + (i - 1) = i BY <1>2
  <2> QED BY <1>3, <1>4, <2>1, <2>2
<1>8. Now("main").op = "barrier_wait" /\ u # s
  <2>1. s # <<>> BY <1>6 DEF InCall
  <2>2. Head(s) = s[1] BY <1>2, <2>1, HeadTailProperties
  <2>3. u # s BY <1>3, <1>4
  <2> QED BY <1>3, <1>7, <2>2, <2>3 DEF Now
<1>9. CASE Returning(t) \/ Blocking(t)
  <2>1. Quiet("main") BY <1>0, <1>9, QuietStep, MainIsThread
  <2>2. LocksItself("main") BY <1>8, <2>1 DEF Quiet
  <2>3. ~Waits("main")
    BY <1>0, <1>8, MainIsThread DEF Waits, BlockedInWait, Blocks, BlocksIn, CondWaits, LeavingWait
  <2>4. ~MutexInitialised("main") /\ ~MutexLocked("main") /\ ~MutexUnlocked("main")
    BY <1>8 DEF MutexInitialised, MutexLocked, MutexUnlocked, At
  <2>5. ~TimerRunsOut("main") BY <1>8, <2>3 DEF TimerRunsOut, Timed, Waits
  <2> QED BY <1>8, <2>2, <2>3, <2>4, <2>5 DEF LocksItself, Locking
<1>10. CASE Leaping(t) /\ t # "main"
  <2>1. ~ThreadCreated(t) BY <1>10, CreatedAnew
  <2> QED BY <1>0, <1>8, <1>10, <2>1, LeapElse, MainIsThread
<1>11. CASE Leaping(t) /\ t = "main"
  <2>1. ~WaitReturns("main")
    BY <1>0, <1>8, MainIsThread
    DEF WaitReturns, BlockedInWait, Blocks, BlocksIn, LeavingWait, CondWaits
  <2>2. CancelActs("main")
    BY <1>8, <1>11, <2>1
    DEF Leaping, Skip, ThreadCreated, ThreadJoined, HandlerPushed, HandlerPopped, ThreadExits,
        OnceCalled, SpecificSet, At
  <2>3. th' = [th EXCEPT !["main"] = Unwound("main", CANCELED)] BY <2>2 DEF CancelActs
  <2>4. u = <<>> BY <1>0, <2>3, MainUnwound DEF LockInv
  <2> QED BY <1>1, <2>4
<1> QED BY <1>9, <1>10, <1>11, StepKinds

\* What is known of those who meet at the barrier is kept by all steps.
LEMMA MeetingStep ==
  ASSUME LockInv, MeetsOnce(Programs[test]), MeetingKept,
         NEW t \in Threads, Step(t) \/ TimerRunsOut(t) \/ WokenByNothing(t)
  PROVE  MeetingKept'
<1> DEFINE p == Programs[test]
           M == Meeting(p)
<1>0. TypeOK /\ MainAlone(p) /\ MainInPlace /\ WorkersInPlace BY DEF LockInv, LocksWell
<1>1. test' = test /\ Main' = Main
  BY QuietStep, LeapingFrame, StepKinds DEF LockInv, Main
<1> SUFFICES ASSUME Ahead'
             PROVE  /\ \A u \in Threads : Alive(u)' => AtMostOne(th'[u].calls)
                    /\ \A u \in Threads \ {"main"} : th'[u].state # "unborn" =>
                         \A k \in (Done' + 1)..Len(Main) : Main[k].op = "create" => Main[k].obj # u
                    /\ \/ Comes("main")'
                       \/ /\ \A u \in Threads : Alive(u)' => ~Meets(th'[u].calls)
                          /\ \A k \in (Done' + 1)..Len(Main) :
                               Main[k].op = "create" => Main[k].obj \notin M
  BY <1>1 DEF MeetingKept, Ahead, Comes
<1>2. /\ Ahead /\ \E c \in CallsIn(Main) : c.op = "barrier_destroy"
      /\ \A k \in (Done' + 1)..Len(Main) : k \in (Done + 1)..Len(Main) /\ k \in DOMAIN Main
  BY MainGoes
<1>3. /\ \A u \in Threads : Alive(u) => AtMostOne(th[u].calls)
      /\ \/ Comes("main")
         \/ /\ \A u \in Threads : Alive(u) => ~Meets(th[u].calls)
            /\ \A k \in (Done + 1)..Len(Main) :
                 Main[k].op = "create" => Main[k].obj \notin M
  BY <1>2 DEF MeetingKept, Ahead, Comes
<1>4. ASSUME NEW u \in Threads, Alive(u)' PROVE AtMostOne(th'[u].calls)
  <2>1. CASE Alive(u) BY <1>3, <2>1, LeftCalls, LeavesKeeps
  <2>2. CASE ~Alive(u)
    <3>1. th'[u].calls = p[u] /\ u \in Created(p) BY <1>4, <2>2, NewlyAlive
    <3>2. CASE u \in M BY <1>2, <3>1, <3>2 DEF MeetsOnce, Main
    <3>3. CASE ~Meets(p[u]) BY <3>1, <3>3 DEF Meets, AtMostOne, CallsIn
    <3> QED BY <3>1, <3>2, <3>3 DEF Meeting
  <2> QED BY <2>1, <2>2
<1>5. ASSUME NEW u \in Threads \ {"main"}, th'[u].state # "unborn",
             NEW k \in (Done' + 1)..Len(Main), Main[k].op = "create"
      PROVE  Main[k].obj # u
  BY <1>5, CreatedOnce
<1>6. ASSUME Comes("main"), ~Comes("main")'
      PROVE  /\ \A u \in Threads : Alive(u)' => ~Meets(th'[u].calls)
             /\ \A k \in (Done' + 1)..Len(Main) :
                  Main[k].op = "create" => Main[k].obj \notin M
  <2>1. AllMet BY <1>6, MainMeets
  <2>2. \A u \in Threads :
          IF u \in M THEN Alive(u) /\ InCall(u) /\ Now(u).op = "barrier_wait" /\ th'[u] = Onward(u)
          ELSE th'[u] = th[u]
    BY <1>2, <2>1, AllMetMeets
  <2>3. ASSUME NEW u \in Threads, Alive(u)', Meets(th'[u].calls) PROVE FALSE
    <3>1. CASE u \in M
      <4>1. Alive(u) /\ InCall(u) /\ Now(u).op = "barrier_wait" /\ th'[u] = Onward(u)
        BY <2>2, <3>1
      <4>2. th'[u].calls = Tail(th[u].calls) /\ th[u].calls # <<>>
        BY <1>0, <4>1, OnwardFields
      <4>3. th[u].calls \in Seq(CallsOf(p)) BY <1>0 DEF TypeOK, ThreadsOK, Thread
      <4> QED BY <1>3, <2>3, <4>1, <4>2, <4>3, NoneLeft DEF Now
    <3>2. CASE u \notin M
      <4>1. th'[u] = th[u] BY <2>2, <3>2
      <4>2. Alive(u) BY <2>3, <4>1 DEF Alive
      <4> QED BY <2>3, <3>2, <4>1, <4>2, ComesMeets
    <3> QED BY <3>1, <3>2
  <2>4. ASSUME NEW k \in (Done' + 1)..Len(Main), Main[k].op = "create", Main[k].obj \in M
        PROVE  FALSE
    <3>1. PICK u : u = Main[k].obj OBVIOUS
    <3>2. Main[k] \in CallsIn(p["main"]) BY <1>2, <2>4 DEF CallsIn, Main
    <3>3. u # "main" BY <1>0, <2>4, <3>1, <3>2 DEF MainAlone
    <3>4. u \in Threads
      <4>1. "main" \in DOMAIN p BY <1>0, ProgramsAssumption DEF TypeOK
      <4>2. Main[k] \in AllCalls(p) BY <3>2, <4>1 DEF AllCalls
      <4> QED BY <1>0, <2>4, <3>1, <4>2, TestNames DEF Names
    <3>5. th'[u].state = "running" BY <1>0, <2>2, <2>4, <3>1, <3>4, OnwardFields
    <3> QED BY <1>5, <2>4, <3>1, <3>3, <3>4, <3>5
  <2> QED BY <2>3, <2>4
<1>7. ASSUME ~Comes("main")
      PROVE  /\ \A u \in Threads : Alive(u)' => ~Meets(th'[u].calls)
             /\ \A k \in (Done' + 1)..Len(Main) :
                  Main[k].op = "create" => Main[k].obj \notin M
  <2>1. /\ \A u \in Threads : Alive(u) => ~Meets(th[u].calls)
        /\ \A k \in (Done + 1)..Len(Main) : Main[k].op = "create" => Main[k].obj \notin M
    BY <1>3, <1>7
  <2>2. ASSUME NEW u \in Threads, Alive(u)', Meets(th'[u].calls) PROVE FALSE
    <3>1. CASE Alive(u) BY <2>1, <2>2, <3>1, LeftCalls, LeavesKeeps
    <3>2. CASE ~Alive(u)
      <4>1. /\ u = Now("main").obj /\ InCall("main") /\ Now("main").op = "create"
            /\ th'[u].calls = p[u] /\ u \in Created(p)
        BY <2>2, <3>2, NewlyAlive
      <4>2. /\ Done \in Nat /\ Len(Main) \in Nat /\ Done + 1 \in DOMAIN Main
            /\ DOMAIN Main = 1..Len(Main) /\ Now("main") = Main[Done + 1]
        BY <1>0, <4>1, MainFacts
      <4>3. Done + 1 \in (Done + 1)..Len(Main) BY <4>2
      <4>4. u \notin M BY <2>1, <4>1, <4>2, <4>3
      <4> QED BY <2>2, <4>1, <4>4 DEF Meeting
    <3> QED BY <3>1, <3>2
  <2> QED BY <1>2, <2>1, <2>2
<1> QED BY <1>4, <1>5, <1>6, <1>7

-----------------------------------------------------------------------------
(* No object is misused. *)

\* Nobody waits while main() destroys the condition variable.
LEMMA NobodyWaits ==
  ASSUME LockInv, NEW t \in Threads, At(t, "cond_destroy") PROVE Waiters = {}
<1> SUFFICES ASSUME NEW u \in Threads, th[u].state = "waiting" PROVE FALSE BY DEF Waiters
<1>0. TypeOK /\ MainAlone(Programs[test]) /\ WorkersInPlace BY DEF LockInv, LocksWell
<1>1. InCall(t) /\ Working(t) /\ Now(t).op = "cond_destroy" /\ th[t].state = "running"
  BY AtAlive DEF At
<1>2. t = "main" BY <1>1, ModeOf DEF Allowed
<1>3. u \in Workers BY <1>1, <1>2 DEF Workers, Alive
<1>4. InCall(u) /\ Now(u).op \in CondWaits
  BY DEF LockInv, TypeOK, ThreadsOK, InCall, BlockedInWait, Blocks, BlocksIn
<1>5. Now(u) \in FamilyCalls(Programs[test], u)
  BY <1>0, <1>3, <1>4, WorkerCalls, LibraryCalls DEF CondWaits
<1> QED BY <1>1, <1>2, <1>3, <1>4, <1>5, MainApart

\* Nobody is at the barrier while main() destroys it.
LEMMA NobodyMeets ==
  ASSUME LockInv, MeetsOnce(Programs[test]), MeetingKept, NEW t \in Threads,
         At(t, "barrier_destroy")
  PROVE  AtBarrier = {}
<1> DEFINE p == Programs[test]
           d == Done
           m == Len(Main)
           l == Len(th["main"].calls)
<1>0. TypeOK /\ MainInPlace /\ BlockedInWait BY DEF LockInv
<1>1. InCall(t) /\ Working(t) /\ Now(t).op = "barrier_destroy" BY AtAlive DEF At
<1>2. t = "main" BY <1>1, ModeOf DEF Allowed
<1>3. /\ m \in Nat /\ l \in Nat /\ d \in Nat /\ m = d + l /\ DOMAIN Main = 1..m
      /\ d + 1 \in DOMAIN Main /\ Now("main") = Main[d + 1] /\ Now("main") \in CallsIn(Main)
  BY <1>0, <1>1, <1>2, MainFacts
<1>4. Ahead
  <2>1. d + 1 \in (d + 1)..m BY <1>3
  <2> QED BY <1>1, <1>2, <1>3, <2>1 DEF Ahead
<1>5. PICK i \in 1..(d + 1 - 1) : Main[i].op = "barrier_wait"
  <2>1. \E c \in CallsIn(Main) : c.op = "barrier_destroy" BY <1>1, <1>2, <1>3
  <2>2. \A j \in DOMAIN Main : Main[j].op = "barrier_destroy" =>
          \E i \in 1..(j - 1) : Main[i].op = "barrier_wait"
    BY <2>1 DEF MeetsOnce, Main
  <2>3. PICK j \in DOMAIN Main : j = d + 1 /\ Main[j].op = "barrier_destroy"
    BY <1>1, <1>2, <1>3
  <2>4. \E i \in 1..(j - 1) : Main[i].op = "barrier_wait" BY <2>2, <2>3, Zenon
  <2> HIDE DEF d
  <2>5. 1..(j - 1) = 1..(d + 1 - 1) BY <1>3, <2>3
  <2> QED BY <2>4, <2>5, Zenon
<1>6. i \in DOMAIN Main /\ i \in Nat /\ i <= d
  <2>1. i \in 1..(d + 1 - 1) /\ d \in Nat /\ m \in Nat /\ l \in Nat /\ m = d + l
        /\ DOMAIN Main = 1..m
    BY <1>3, <1>5
  <2> HIDE DEF d, m, l
  <2> QED BY <2>1
<1>7. AtMostOne(Main)
  <2>1. Meets(Main) BY <1>5, <1>6 DEF Meets, CallsIn
  <2>2. "main" \in Meeting(p) BY <2>1 DEF Meeting, Main
  <2>3. AtMostOne(p["main"]) BY <1>1, <1>2, <1>3, <2>2 DEF MeetsOnce, Main
  <2> QED BY <2>3 DEF Main
<1>8. ~Comes("main")
  <2> SUFFICES ASSUME NEW j \in DOMAIN th["main"].calls, th["main"].calls[j].op = "barrier_wait"
               PROVE  FALSE
    BY DEF Comes, Meets, CallsIn
  <2>1. Main[d + j].op = "barrier_wait" BY <1>0 DEF MainInPlace
  <2>2. j \in 1..l
    <3>1. th["main"].calls \in Seq(CallsOf(p)) BY <1>0, MainIsThread DEF TypeOK, ThreadsOK, Thread
    <3> QED BY <3>1, LenProperties
  <2>3. d + j \in DOMAIN Main /\ d + j # i
    <3> HIDE DEF d, m, l
    <3> QED BY <1>3, <1>6, <2>2
  <2> QED BY <1>5, <1>6, <1>7, <2>1, <2>3 DEF AtMostOne
<1>9. \A u \in Threads : Alive(u) => ~Comes(u) BY <1>4, <1>8 DEF MeetingKept, Ahead
<1> SUFFICES ASSUME NEW u \in Threads, th[u].state = "barrier" PROVE FALSE BY DEF AtBarrier
<1>10. InCall(u) /\ Now(u).op = "barrier_wait" /\ Alive(u)
  BY <1>0 DEF TypeOK, ThreadsOK, InCall, BlockedInWait, Blocks, BlocksIn, Alive
<1>11. Now(u) \in CallsIn(th[u].calls) BY <1>0, <1>10, NowIn
<1> QED BY <1>9, <1>10, <1>11 DEF Comes, Meets

\* No other thread is at work when main() leaves the frame of the objects.
LEMMA NobodyLeft ==
  ASSUME LockInv, NEW t \in Threads, At(t, "leave"), NEW u \in Threads \ {t}
  PROVE  ~Working(u)
<1>1. t = "main" /\ InCall("main") /\ Now("main").op = "leave" BY NobodyOwns DEF At
<1>2. u \notin Workers BY <1>1, MainApart
<1> QED BY <1>1, <1>2 DEF Workers, Alive, Working

\* No step misuses an object.
LEMMA MisuseStep ==
  ASSUME LockInv, MeetsOnce(Programs[test]), MeetingKept, ~misused,
         NEW t \in Threads, Step(t) \/ TimerRunsOut(t) \/ WokenByNothing(t)
  PROVE  ~misused'
<1>1. CASE MutexDestroyed(t) BY <1>1, NobodyOwns DEF MutexDestroyed
<1>2. CASE MutexUnlocked(t) BY <1>2, UnlockStep
<1>3. CASE CondWaiting(t) BY <1>3, WaitStep
<1>4. CASE CondDestroyed(t) BY <1>4, NobodyWaits DEF CondDestroyed
<1>5. CASE BarrierDestroyed(t) BY <1>5, NobodyMeets DEF BarrierDestroyed
<1>6. CASE FrameLeft(t) BY <1>6, NobodyLeft, NobodyOwns DEF FrameLeft
<1> QED BY <1>1, <1>2, <1>3, <1>4, <1>5, <1>6, MisusedFrame

-----------------------------------------------------------------------------
(* The invariant of careful tests, and what follows from it. *)

\* What holds of a careful test that runs with a correct library.
LEMMA CareGives ==
  ASSUME IInv, CareKept, bug = "none", ~exited, Careful(Programs[test])
  PROVE  LockInv /\ MeetsOnce(Programs[test]) /\ MeetingKept
<1> DEFINE p == Programs[test]
<1>1. LocksWell(p) /\ DisciplinedBut(p, Variables) /\ MeetsOnce(p) BY DEF Careful
<1>2. ModesKept /\ MutexKept /\ MeetingKept BY DEF CareKept
<1>3. TypeOK /\ BlockedInWait /\ InPlace /\ DisciplineKept BY DEF IInv
<1>4. MainInPlace /\ WorkersInPlace BY <1>1, <1>3 DEF LocksWell, InPlace
<1>5. JoinsAhead(Variables)
  <2>1. Variables \in SUBSET (Variables \cup Objects) OBVIOUS
  <2> QED BY <1>1, <1>3, <2>1 DEF DisciplineKept
<1> QED BY <1>1, <1>2, <1>3, <1>4, <1>5 DEF LockInv

\* When a test starts main() has its text before it and holds nothing.
LEMMA InitCare == ASSUME Init PROVE CareKept /\ NeverMisused
<1> DEFINE p == Programs[test]
<1>1. /\ th["main"] = Started("main") /\ mutex = NewMutex("normal") /\ ~misused
      /\ \A t \in Threads : t # "main" => th[t] = Newborn
  BY MainIsThread DEF Init
<1>2. Newborn.state = "unborn" BY DEF Newborn
<1>3. /\ th["main"].state = "running" /\ th["main"].calls = Main
      /\ th["main"].handlers = <<>> /\ ~th["main"].pending /\ ~th["main"].async
  BY <1>1 DEF Started, Newborn, Main
<1>4. Workers = {} /\ Done = 0 BY InitInPlace
<1>5. /\ mutex.type = "normal" /\ mutex.owner = NoOne /\ mutex.mark = "sound"
  BY <1>1 DEF NewMutex
<1> SUFFICES ASSUME Careful(p) PROVE ModesKept /\ MutexKept /\ MeetingKept
  BY <1>1 DEF CareKept, NeverMisused
<1>6. LocksWell(p) /\ MeetsOnce(p) BY DEF Careful
<1>7. ModesKept
  <2>1. \A t \in Threads : Working(t) => t = "main" BY <1>1, <1>2 DEF Working
  <2>2. ~Holds("main") BY <1>3, <1>5, NoOneElse, MainIsThread DEF Holds, Waits, LeavingWait
  <2>3. Fine(p, "main", Main, "free") BY <1>6 DEF LocksWell, Main
  <2>4. Len(th["main"].handlers) <= 1 /\ CallsIn(th["main"].handlers) = {}
    BY <1>3 DEF CallsIn
  <2>5. Fits(p, "main", th["main"], Holds("main"), "free")
    BY <1>3, <2>2, <2>3, <2>4 DEF Fits
  <2> QED BY <2>1, <2>5 DEF ModesKept, Modes
<1>8. MutexKept BY <1>4, <1>5 DEF MutexKept
<1>9. MeetingKept
  <2> SUFFICES ASSUME NEW k \in (Done + 1)..Len(Main), Main[k].op = "barrier_destroy"
               PROVE  /\ \A t \in Threads : Alive(t) => AtMostOne(th[t].calls)
                      /\ \A t \in Threads \ {"main"} : th[t].state = "unborn"
                      /\ Comes("main")
    BY DEF MeetingKept
  <2>1. Len(Main) \in Nat /\ DOMAIN Main = 1..Len(Main)
    <3>1. TypeOK BY InitType
    <3>2. "main" \in DOMAIN p BY <3>1, ProgramsAssumption DEF TypeOK
    <3> QED BY <3>1, <3>2, RoutineCalls, LenProperties DEF Main
  <2>2. k \in DOMAIN Main /\ k \in 1..Len(Main) BY <1>4, <2>1
  <2>3. Main[k] \in CallsIn(Main) BY <2>2 DEF CallsIn
  <2>4. PICK i \in 1..(k - 1) : Main[i].op = "barrier_wait" BY <1>6, <2>2, <2>3 DEF MeetsOnce, Main
  <2>5. i \in DOMAIN Main BY <2>1, <2>2, <2>4
  <2>6. Meets(Main) BY <2>4, <2>5 DEF Meets, CallsIn
  <2>7. "main" \in Meeting(p) BY <2>6 DEF Meeting, Main
  <2>8. AtMostOne(Main) BY <1>6, <2>3, <2>7 DEF MeetsOnce, Main
  <2> QED BY <1>1, <1>2, <1>3, <2>6, <2>8 DEF Comes, Alive
<1> QED BY <1>7, <1>8, <1>9

\* Each step of a test keeps what careful tests keep to.
LEMMA StepCare ==
  ASSUME IInv, CareKept, NeverMisused,
         NEW t \in Threads, Step(t) \/ TimerRunsOut(t) \/ WokenByNothing(t)
  PROVE  CareKept' /\ NeverMisused'
<1> DEFINE p == Programs[test]
<1>1. test' = test BY QuietStep, LeapingFrame, StepKinds DEF IInv
<1>2. bug' = bug BY MutexFrame
<1>3. ~exited BY StepperWorks DEF IInv
<1> SUFFICES ASSUME bug = "none", Careful(p)
             PROVE  /\ ~exited' => ModesKept' /\ MutexKept' /\ MeetingKept'
                    /\ ~misused'
  BY <1>1, <1>2 DEF CareKept, NeverMisused
<1>4. LockInv /\ MeetsOnce(p) /\ MeetingKept BY <1>3, CareGives
<1>5. ~misused BY DEF NeverMisused
<1> QED BY <1>4, <1>5, ModesStep, MutexStep, MeetingStep, MisuseStep

\* So does no step at all.
LEMMA StutterCare ==
  ASSUME CareKept, NeverMisused, UNCHANGED vars PROVE CareKept' /\ NeverMisused'
<1>1. UNCHANGED <<test, bug, th, mutex, exited, misused>> BY DEF vars
<1>2. Workers' = Workers /\ Main' = Main /\ Done' = Done
  BY <1>1 DEF Workers, Alive, Main, Done
<1>3. ModesKept => ModesKept' BY <1>1 DEF ModesKept, Working, Holds, Waits
<1>4. MutexKept => MutexKept' BY <1>1, <1>2 DEF MutexKept
<1>5. MeetingKept => MeetingKept' BY <1>1, <1>2 DEF MeetingKept, Comes, Alive
<1> QED BY <1>1, <1>3, <1>4, <1>5 DEF CareKept, NeverMisused

\* All that careful tests keep to, which is inductive.
CareInv == IInv /\ CareKept /\ NeverMisused

\* It holds in every state that a test reaches.
LEMMA CareHolds == Spec => []CareInv
<1>1. Init => CareInv BY InitIInv, InitCare DEF CareInv
<1>2. CareInv /\ [Next]_vars => CareInv'
  BY StepIInv, StutterIInv, StepCare, StutterCare DEF CareInv, Next, Stopped
<1> QED BY <1>1, <1>2, PTL DEF Spec

\* With a correct library no interleaving misuses an object in a test whose text is
\* careful: whatever the scheduler and the timers do, an unlock is its owner's, a
\* condition wait is made with the mutex held, and nothing is destroyed that is in use.
THEOREM NoMisuseHolds == Spec => [](Careful(Programs[test]) => NoMisuse)
<1>1. CareInv => (Careful(Programs[test]) => NoMisuse)
  BY DEF CareInv, NeverMisused, NoMisuse
<1> QED BY <1>1, CareHolds, PTL

\* The variables that are used with the mutex held only are not raced for.
LEMMA GuardedApart ==
  ASSUME LockInv, NEW t \in Threads, NEW x \in (Writes(t) \cup Reads(t)),
         x \in Guarded(Programs[test])
  PROVE  mutex.owner = t
<1> DEFINE p == Programs[test]
<1>1. ~Tolerant(p) BY DEF Guarded
<1>2. CASE Runs(t) /\ InCall(t)
  <2>1. x \in Uses(Now(t)) BY <1>2 DEF Writes, Reads, Uses
  <2>2. Working(t) /\ ~Waits(t) BY <1>2 DEF Runs, Working, Waits, LeavingWait
  <2>3. PICK m \in Modes : Allowed(p, t, Now(t), m) /\ (m # "free" => Holds(t))
    BY <1>1, <1>2, <2>2, ModeOf
  <2>4. m # "free" BY <2>1, <2>3 DEF Allowed
  <2> QED BY <2>2, <2>3, <2>4 DEF Holds
<1>3. CASE Runs(t) /\ ~InCall(t)
  <2>1. x \in Destroyed(t) /\ t # "main" BY <1>3 DEF Writes, Reads, Destroyed
  <2>2. t \in Workers BY <1>3, <2>1 DEF Workers, Alive, Runs
  <2>3. x \in AllKept(p, t)
    BY <2>1, <2>2 DEF LockInv, WorkersInPlace, InRoutines, Destroyed
  <2>4. PICK c \in FamilyCalls(p, t) : x \in Kept(c) BY <2>3 DEF AllKept
  <2>5. PICK r \in DOMAIN p : c \in CallsIn(p[r]) BY <2>4 DEF FamilyCalls, Family
  <2>6. PICK i \in DOMAIN p[r] : c = p[r][i] BY <2>5 DEF CallsIn
  <2> QED BY <2>4, <2>6 DEF Guarded
<1> QED BY <1>2, <1>3 DEF Writes, Reads

\* What a careful test may leave to its mutex: two threads do not both own it.
LEMMA MutexApart ==
  ASSUME CareInv, bug = "none", Careful(Programs[test]),
         DisciplinedBut(Programs[test], Objects \cup Guarded(Programs[test]))
  PROVE  RaceFree
<1> DEFINE p == Programs[test]
<1> SUFFICES ASSUME NEW t \in Threads, NEW u \in Threads, t # u,
                    NEW x \in Writes(t), x \in Writes(u) \cup Reads(u)
             PROVE  FALSE
  BY DEF RaceFree
<1>1. ~exited BY DEF Writes, Runs
<1>2. LockInv BY <1>1, CareGives DEF CareInv
<1>3. TypeOK /\ MainAlone(p) /\ MainInPlace /\ WorkersInPlace BY <1>2 DEF LockInv, LocksWell
<1>4. PICK G : G = Objects \cup Guarded(p) OBVIOUS
<1>5. JoinsAhead(G) /\ WorkersApart(G)
  <2>1. G \in SUBSET (Variables \cup Objects) BY <1>4 DEF Guarded
  <2> QED BY <1>4, <2>1 DEF CareInv, IInv, DisciplineKept
<1>6. x \in G
  <2>1. RacesOnlyOn(G) BY <1>3, <1>5, NothingRaces
  <2> QED BY <2>1 DEF RacesOnlyOn
<1>7. x \in Guarded(p) BY <1>3, <1>4, <1>6, WritesVariables, ObjectsApart
<1>8. mutex.owner = t /\ mutex.owner = u BY <1>2, <1>7, GuardedApart
<1> QED BY <1>8

\* With a correct library a careful test has no data race either when it leaves some
\* variables to its mutex, and not to its joins: those that its text uses in the
\* modes that hold the mutex only.
THEOREM LockedRaceFreedom ==
  Spec => [](bug = "none" /\ Careful(Programs[test])
             /\ DisciplinedBut(Programs[test], Objects \cup Guarded(Programs[test]))
             => RaceFree)
<1>1. CareInv => (bug = "none" /\ Careful(Programs[test])
                  /\ DisciplinedBut(Programs[test], Objects \cup Guarded(Programs[test]))
                  => RaceFree)
  BY MutexApart
<1> QED BY <1>1, CareHolds, PTL

\* A careful test whose variables are left to joins and to its mutex does nothing
\* undefined with a correct library, neither by POSIX nor as a data race.
THEOREM NoUndefinedHolds ==
  Spec => [](Careful(Programs[test])
             /\ DisciplinedBut(Programs[test], Objects \cup Guarded(Programs[test]))
             => NoUndefined)
<1>1. CareInv => (Careful(Programs[test])
                  /\ DisciplinedBut(Programs[test], Objects \cup Guarded(Programs[test]))
                  => NoUndefined)
  BY MutexApart DEF CareInv, NeverMisused, NoUndefined, NoMisuse, NoRace
<1> QED BY <1>1, CareHolds, PTL
=============================================================================
