---------------------------- MODULE PosixThreads ----------------------------
(***************************************************************************)
(* The C library and the scheduler under the tests of ThreadTests: threads *)
(* run their routines one call at a time, in any interleaving that POSIX   *)
(* allows, over a mutex, a condition variable, semaphores, a barrier, a    *)
(* reader-writer lock, cancellation, once, thread-specific data,           *)
(* thread-local storage, a shared object and a named semaphore.            *)
(*                                                                         *)
(* A condition wait may be woken by nothing and a timer may run out at any *)
(* time; that is recorded, because a test that a slow machine fools is not *)
(* wrong.  The library may have one of the bugs the test exists to find.   *)
(***************************************************************************)
EXTENDS PosixCalls, FiniteSets

CONSTANTS
  Programs,   \* the routines of every test, as sequences of calls
  BugsFor     \* the bugs of the library that a test is for

Tests == DOMAIN Programs

VARIABLES
  test,     \* the test that runs
  bug,      \* the bug of the library, or "none"
  th,       \* the threads
  mutex,    \* the mutex m
  sem,      \* the semaphores
  rw,       \* the reader-writer lock
  opened,   \* what has been opened by name
  mem,      \* the variables of the test
  status,   \* t_status
  exited,   \* has main returned?
  late,     \* (history) did a timer run out although some thread could run?
  woken,    \* (history) was a condition wait woken by nothing?
  misused   \* (history) was an object used in a way POSIX leaves undefined?

vars == <<test, bug, th, mutex, sem, rw, opened, mem, status, exited, late, woken, misused>>
objects == <<test, bug, mutex, sem, rw, opened>>
history == <<late, woken, misused>>
flags == <<exited, history>>
rest == <<test, bug, rw, opened, exited, late, woken>>

Threads == {"main", "t1", "t2", "t3", "t4"}
NoOne == "no one"
Semaphores == {"s", "s2", "s3"}
Keys == {"k1", "k2"}
Variables == {"i", "r", "foo", "foo1", "foo2", "foo3", "bar", "bar1", "seqno",
              "td_test", "waiting", "count", "once", "mod", "nowhere"}
\* The thread-local variables, with their initial values.
TlsImage == [tls_fix |-> 23, tls_zero |-> 0]

MutexTypes == {"normal", "errorcheck", "recursive", "robust"}

\* What a call names is there: a variable, a semaphore, a thread, a routine of
\* program p, ...
Names(p, c) ==
  /\ c.into \in Variables /\ c.want \in Int /\ c.than \in Int /\ c.jump \in Nat
  /\ c.op \in {"set", "add", "copy", "check", "skip", "dlsym"} => c.obj \in Variables
  /\ c.op \in {"copy", "setspecific", "checkspecific"} => c.arg \in Variables
  /\ c.op \in {"setspecific", "checkspecific"} => c.obj \in Keys
  /\ c.op \in {"tls_add", "tls_check"} => c.obj \in DOMAIN TlsImage
  /\ c.op \in {"sem_init", "sem_open"} => c.than \in Nat
  /\ c.op \in {"sem_init", "sem_open", "post", "wait", "timedwait", "trywait", "getvalue"} =>
       c.obj \in Semaphores
  /\ c.op \in {"create", "join", "cancel"} => c.obj \in Threads
  /\ c.op \in {"create", "push", "once"} => c.obj \in DOMAIN p
  /\ c.op = "mutex_init" => c.arg \in MutexTypes
  /\ c.op = "dlopen" => c.obj \in {"self", "local", "global"}

CallsIn(routine) == {routine[i] : i \in DOMAIN routine}
\* The calls that threads of program p make, those of the library included.
CallsOf(p) == (UNION {CallsIn(p[r]) : r \in DOMAIN p}) \cup {Pop(TRUE), Set("once", 2)}

ASSUME ProgramsAssumption ==
  \A p \in Tests :
    /\ "main" \in DOMAIN Programs[p]
    /\ \A r \in DOMAIN Programs[p] : Programs[p][r] \in Seq(CallsIn(Programs[p][r]))
    /\ \A c \in CallsOf(Programs[p]) : Names(Programs[p], c)
ASSUME TestsAssumption == Tests \subseteq DOMAIN BugsFor

\* Blocked in a condition wait, or on the way out of it.
LeavingWait == {"woken", "timedout", "cancelled"}

\* A thread: its state, the calls it has still to make, its cleanup handlers,
\* the last one first, its cancellation state, value and data.
Thread ==
  [state : {"unborn", "running", "waiting", "barrier", "stranded", "done", "joined"}
             \cup LeavingWait,
   calls : Seq(CallsOf(Programs[test])), handlers : Seq(DOMAIN Programs[test]),
   pending : BOOLEAN, enabled : BOOLEAN, async : BOOLEAN, value : Int,
   specific : [Keys -> Variables], tls : [DOMAIN TlsImage -> Int]]

\* A thread that blocks does so in a call.
ThreadsOK ==
  /\ th \in [Threads -> Thread]
  /\ \A t \in Threads :
       th[t].state \in {"waiting", "barrier"} \cup LeavingWait => th[t].calls # <<>>
\* A mutex is counted exactly while somebody owns it.
MutexOK ==
  /\ mutex \in [type : MutexTypes, owner : Threads \cup {NoOne}, count : Nat,
                mark : {"sound", "dead", "lost"}]
  /\ mutex.owner = NoOne <=> mutex.count = 0
ObjectsOK ==
  /\ sem \in [Semaphores -> Nat]
  /\ rw \in {"free", "read", "write"}
  /\ opened \in [module : {"none", "local", "global"}, older : SUBSET Threads,
                 named : BOOLEAN, handles : Int]
DataOK == mem \in [Variables -> Int] /\ status \in {0, 1}
FlagsOK == {exited, late, woken, misused} \subseteq BOOLEAN

\* Threads and objects are what they should be.
TypeOK == test \in Tests /\ ThreadsOK /\ MutexOK /\ ObjectsOK /\ DataOK /\ FlagsOK

Newborn == [state |-> "unborn", calls |-> <<>>, handlers |-> <<>>,
            pending |-> FALSE, enabled |-> TRUE, async |-> FALSE, value |-> 0,
            specific |-> [k \in Keys |-> "nowhere"], tls |-> TlsImage]
Started(t) == [Newborn EXCEPT !.state = "running", !.calls = Programs[test][t]]
NewMutex(type) == [type |-> type, owner |-> NoOne, count |-> 0, mark |-> "sound"]

Init ==
  /\ test \in Tests
  /\ bug \in {"none"} \cup BugsFor[test]
  /\ th = [t \in Threads |-> IF t = "main" THEN Started(t) ELSE Newborn]
  /\ mutex = NewMutex("normal")
  /\ sem = [s \in Semaphores |-> 0]
  /\ rw = "free"
  /\ opened = [module |-> "none", older |-> {}, named |-> FALSE, handles |-> 0]
  /\ mem = [x \in Variables |-> 0]
  /\ status = 0
  /\ exited = FALSE /\ late = FALSE /\ woken = FALSE /\ misused = FALSE

-----------------------------------------------------------------------------
(* Where a thread is, and how it goes on. *)

Runs(t) == ~exited /\ th[t].state = "running"
Working(t) == th[t].state \notin {"unborn", "done", "joined"}
InCall(t) == th[t].calls # <<>>
Now(t) == Head(th[t].calls)

\* A while loop around a condition wait has come to its end.
LoopIsOver(t) == Now(t).into # "nowhere" /\ mem[Now(t).into] # Now(t).than

CondWaits == {"cond_wait", "cond_timedwait"}
SemWaits == {"wait", "timedwait"}
CancelPoints == {"join", "sleep"} \cup SemWaits \cup CondWaits

\* The thread goes on, with other calls before those that are left.
After(t, calls) ==
  [th[t] EXCEPT !.state = "running", !.calls = calls \o Tail(th[t].calls)]
Onward(t) == After(t, <<>>)
Goes(t) == th' = [th EXCEPT ![t] = Onward(t)]
\* What the test makes of the result r of the call.
Judge(t, r) == status' = IF Now(t).want \in {r, AnyResult} THEN status ELSE 1
Returns(t, r) ==
  /\ Goes(t) /\ Judge(t, r)
  /\ mem' = IF Now(t).into = "nowhere" THEN mem ELSE [mem EXCEPT ![Now(t).into] = r]

MayLock(t) ==
  \/ mutex.mark = "lost" \/ mutex.owner = NoOne
  \/ mutex.owner = t /\ mutex.type \in {"errorcheck", "recursive"} /\ bug # "type_ignored"
LockResult(t) ==
  CASE mutex.mark = "lost" -> ENOTRECOVERABLE
    [] mutex.mark = "dead" -> EOWNERDEAD
    [] mutex.mark = "sound" /\ mutex.owner = t /\ mutex.type = "errorcheck" -> EDEADLK
    [] OTHER -> 0
Locked(t) == IF LockResult(t) \in {EDEADLK, ENOTRECOVERABLE} THEN mutex
             ELSE [mutex EXCEPT !.owner = t, !.count = @ + 1]
\* Mutant: who lets the mutex go does not reset its count.
Released_counted == [mutex EXCEPT !.owner = NoOne, !.mark = IF @ = "dead" THEN "lost" ELSE @]

Released == [mutex EXCEPT !.owner = NoOne, !.count = 0,
               !.mark = IF @ = "dead" THEN "lost" ELSE @]

\* A call of running thread t that has to wait.
MustWait(t) ==
  CASE Now(t).op \in {"lock", "timedlock"} -> ~MayLock(t)
    [] Now(t).op \in SemWaits -> sem[Now(t).obj] = 0
    [] Now(t).op = "join" -> th[Now(t).obj].state # "done"
    [] Now(t).op = "once" -> mem["once"] = 1
    [] Now(t).op \in {"spin", "sleep"} -> TRUE
    [] OTHER -> FALSE

\* A pending cancellation is acted upon when the thread calls a cancellation
\* point, and at once by a thread that has asked for that.
MustCancel(t) ==
  /\ Runs(t) /\ InCall(t) /\ th[t].pending /\ th[t].enabled
  /\ \/ th[t].async
     \/ /\ Now(t).op \in CancelPoints
        /\ Now(t).op \in CondWaits => ~LoopIsOver(t)
        /\ bug = "cancel_if_blocked" /\ Now(t).op \in SemWaits => sem[Now(t).obj] = 0
     \/ Now(t).op = "shm_open" /\ bug = "shm_open_cancels"

\* The call touches memory that is not mapped: a named semaphore that has been
\* unmapped, a function of an object that is not loaded, thread-local storage
\* of it that a thread older than the object has not got.
Segfaults(t) ==
  \/ Now(t).op = "post" /\ opened.named /\ opened.handles = 0
  \/ /\ Now(t).op = "call_f"
     /\ opened.module = "none" \/ (bug = "dtv_not_extended" /\ t \in opened.older)

\* Running thread t makes the call op.
At(t, op) ==
  Runs(t) /\ InCall(t) /\ Now(t).op = op /\ ~MustCancel(t) /\ ~Segfaults(t)

\* The process is killed by a signal, which runtest reports as a failure.
Crashes(t) ==
  /\ Runs(t) /\ InCall(t) /\ Segfaults(t)
  /\ exited' = TRUE /\ status' = 1
  /\ UNCHANGED <<objects, th, mem, history>>

MayCancelWait(t) ==
  /\ ~exited /\ th[t].state = "waiting" /\ th[t].pending /\ th[t].enabled
  /\ bug # "wait_not_cancelled"

CanRun(t) ==
  \/ Runs(t) /\ (InCall(t) => MustCancel(t) \/ ~MustWait(t))
  \/ MayCancelWait(t)
  \/ th[t].state \in LeavingWait /\ MayLock(t)

-----------------------------------------------------------------------------
(* The variables of the test. *)

SetVariable(t) ==
  /\ \/ At(t, "set") /\ mem' = [mem EXCEPT ![Now(t).obj] = Now(t).than]
     \/ At(t, "add") /\ mem' = [mem EXCEPT ![Now(t).obj] = @ + Now(t).than]
     \/ At(t, "copy") /\ mem' = [mem EXCEPT ![Now(t).obj] = mem[Now(t).arg]]
  /\ Goes(t)
  /\ UNCHANGED <<objects, status, flags>>

CheckVariable(t) ==
  /\ At(t, "check")
  /\ Returns(t, mem[Now(t).obj])
  /\ UNCHANGED <<objects, flags>>

Skip(t) ==
  /\ At(t, "skip")
  /\ th' = [th EXCEPT ![t].calls = IF mem[Now(t).obj] = Now(t).than
                                     THEN SubSeq(@, Now(t).jump + 2, Len(@)) ELSE Tail(@)]
  /\ UNCHANGED <<objects, mem, status, flags>>

-----------------------------------------------------------------------------
(* Mutexes. *)

MutexInitialised(t) ==
  /\ At(t, "mutex_init")
  /\ mutex' = NewMutex(Now(t).arg)
  /\ Returns(t, 0)
  /\ UNCHANGED <<rest, sem, misused>>

\* To destroy a mutex that is locked is undefined; it works here.
MutexDestroyed(t) ==
  /\ At(t, "mutex_destroy")
  /\ misused' = (misused \/ mutex.owner # NoOne)
  /\ Returns(t, 0)
  /\ UNCHANGED <<rest, mutex, sem>>

MutexLocked(t) ==
  /\ At(t, "lock") \/ At(t, "timedlock")
  /\ MayLock(t)
  /\ mutex' = Locked(t)
  /\ Returns(t, LockResult(t))
  /\ UNCHANGED <<rest, sem, misused>>

\* Only a normal mutex does not notice that its owner is another thread.
MutexUnlocked(t) ==
  /\ At(t, "unlock")
  /\ IF mutex.owner = t
       THEN /\ mutex' = IF mutex.count = 1 THEN Released ELSE [mutex EXCEPT !.count = @ - 1]
            /\ Returns(t, 0) /\ UNCHANGED misused
       ELSE IF mutex.type = "normal" \/ bug = "type_ignored"
         THEN /\ mutex' = Released /\ Returns(t, 0)
              /\ misused' = (misused \/ mutex.type = "normal")
         ELSE Returns(t, EPERM) /\ UNCHANGED <<mutex, misused>>
  /\ UNCHANGED <<rest, sem>>

MutexConsistent(t) ==
  /\ At(t, "consistent")
  /\ mutex' = [mutex EXCEPT !.mark = "sound"]
  /\ Returns(t, 0)
  /\ UNCHANGED <<rest, sem, misused>>

-----------------------------------------------------------------------------
(* Condition variables. *)

\* The wait releases the mutex and blocks in one step.
CondWaiting(t) ==
  /\ \E op \in CondWaits : At(t, op)
  /\ IF LoopIsOver(t)
       THEN Goes(t) /\ UNCHANGED <<mutex, misused>>
       ELSE /\ th' = [th EXCEPT ![t].state = "waiting"]
            /\ mutex' = Released
            /\ misused' = (misused \/ mutex.owner # t)
  /\ UNCHANGED <<rest, sem, mem, status>>

Waiters == {t \in Threads : th[t].state = "waiting"}
Woken(s, t) == [u \in Threads |->
                  IF u = t THEN Onward(t)
                  ELSE IF u \in s THEN [th[u] EXCEPT !.state = "woken"] ELSE th[u]]

CondSignalled(t) ==
  /\ At(t, "signal")
  /\ IF Waiters = {} \/ bug = "signal_lost" THEN Goes(t)
     ELSE \E u \in Waiters : th' = Woken({u}, t)
  /\ UNCHANGED <<objects, mem, status, flags>>

CondBroadcast(t) ==
  /\ At(t, "broadcast")
  /\ IF bug = "broadcast_to_one" /\ Waiters # {}
       THEN \E u \in Waiters : th' = Woken({u}, t)
       ELSE th' = Woken(Waiters, t)
  /\ UNCHANGED <<objects, mem, status, flags>>

CondDestroyed(t) ==
  /\ At(t, "cond_destroy")
  /\ misused' = (misused \/ Waiters # {})
  /\ Returns(t, 0)
  /\ UNCHANGED <<rest, mutex, sem>>

\* A waiting thread is woken by nothing.
WokenByNothing(t) ==
  /\ ~exited /\ th[t].state = "waiting"
  /\ th' = [th EXCEPT ![t].state = "woken"]
  /\ woken' = TRUE
  /\ UNCHANGED <<objects, mem, status, exited, late, misused>>

-----------------------------------------------------------------------------
(* Threads and cancellation. *)

ThreadCreated(t) ==
  /\ At(t, "create")
  /\ th' = [th EXCEPT ![t] = Onward(t), ![Now(t).obj] =
               [Started(Now(t).obj) EXCEPT !.tls = IF bug = "tls_inherited" THEN th[t].tls
                                                   ELSE @]]
  /\ UNCHANGED <<objects, mem, status, flags>>

ThreadJoined(t) ==
  /\ At(t, "join") /\ th[Now(t).obj].state = "done"
  /\ th' = [th EXCEPT ![t] = Onward(t), ![Now(t).obj].state = "joined"]
  /\ Judge(t, th[Now(t).obj].value)
  /\ UNCHANGED <<objects, mem, flags>>

ThreadDetached(t) == At(t, "detach") /\ Returns(t, 0) /\ UNCHANGED <<objects, flags>>

ThreadCancelled(t) ==
  /\ At(t, "cancel")
  /\ th' = [th EXCEPT ![t] = Onward(t), ![Now(t).obj].pending = TRUE]
  /\ UNCHANGED <<objects, mem, status, flags>>

CancelStateSet(t) ==
  /\ \/ At(t, "setcancelstate")
        /\ th' = [th EXCEPT ![t] = [Onward(t) EXCEPT !.enabled = (Now(t).obj = "enable")]]
     \/ At(t, "setcanceltype")
        /\ th' = [th EXCEPT ![t] = [Onward(t) EXCEPT !.async = TRUE]]
  /\ UNCHANGED <<objects, mem, status, flags>>

HandlerPushed(t) ==
  /\ At(t, "push")
  /\ th' = [th EXCEPT ![t] = [Onward(t) EXCEPT !.handlers = <<Now(t).obj>> \o th[t].handlers]]
  /\ UNCHANGED <<objects, mem, status, flags>>

\* Pushes and pops are paired in the text of a routine.
HandlerPopped(t) ==
  /\ At(t, "pop") /\ th[t].handlers # <<>>
  /\ th' = [th EXCEPT ![t] =
               [After(t, IF Now(t).obj = "run" THEN Programs[test][Head(th[t].handlers)] ELSE <<>>)
                  EXCEPT !.handlers = Tail(th[t].handlers)]]
  /\ UNCHANGED <<objects, mem, status, flags>>

\* The thread leaves its routines for its cleanup handlers, last one first.
Unwound(t, v) ==
  [th[t] EXCEPT !.state = "running", !.enabled = FALSE, !.value = v,
     !.calls = IF bug = "handlers_skipped" THEN <<>>
               ELSE [i \in DOMAIN th[t].handlers |-> Pop(TRUE)]]

ThreadExits(t) ==
  /\ At(t, "exit")
  /\ th' = [th EXCEPT ![t] = Unwound(t, 0)]
  /\ UNCHANGED <<objects, mem, status, flags>>

CancelActs(t) ==
  /\ MustCancel(t)
  /\ th' = [th EXCEPT ![t] = Unwound(t, CANCELED)]
  /\ UNCHANGED <<objects, mem, status, flags>>

\* A thread is cancelled in a condition wait, which it has to leave first.
CancelWait(t) ==
  /\ MayCancelWait(t)
  /\ th' = [th EXCEPT ![t].state = "cancelled"]
  /\ UNCHANGED <<objects, mem, status, flags>>

\* A condition wait returns with the mutex locked again.
WaitReturns(t) ==
  /\ ~exited /\ th[t].state \in LeavingWait /\ MayLock(t)
  /\ mutex' = Locked(t)
  /\ CASE th[t].state = "cancelled" ->
            th' = [th EXCEPT ![t] = Unwound(t, CANCELED)] /\ UNCHANGED status
       [] th[t].state = "timedout" -> Goes(t) /\ Judge(t, ETIMEDOUT)
       [] th[t].state = "woken" /\ Now(t).into # "nowhere" ->
            th' = [th EXCEPT ![t].state = "running"] /\ UNCHANGED status
       [] OTHER -> Goes(t) /\ Judge(t, 0)
  /\ UNCHANGED <<rest, sem, mem, misused>>

\* The destructors that run when thread t ends write these variables.
Destroyed(t) ==
  IF t = "main" THEN {} ELSE {th[t].specific[k] : k \in Keys} \ {"nowhere"}

\* A thread ends: its destructors run, and a robust mutex notices.  When it
\* is main the process exits.
ThreadEnds(t) ==
  /\ Runs(t) /\ ~InCall(t)
  /\ th' = [th EXCEPT ![t].state = "done"]
  /\ mem' = [x \in Variables |->
               IF x \in Destroyed(t) /\ bug # "destructors_skipped" THEN 1 ELSE mem[x]]
  /\ mutex' = IF mutex.type = "robust" /\ mutex.owner = t /\ bug # "owner_death_unseen"
                THEN [mutex EXCEPT !.owner = NoOne, !.count = 0, !.mark = "dead"]
                ELSE mutex
  /\ exited' = (t = "main")
  /\ UNCHANGED <<test, bug, sem, rw, opened, status, history>>

-----------------------------------------------------------------------------
(* Semaphores, the barrier, once, data, the reader-writer lock. *)

SemInitialised(t) ==
  /\ At(t, "sem_init")
  /\ sem' = [sem EXCEPT ![Now(t).obj] = Now(t).than]
  /\ Returns(t, 0)
  /\ UNCHANGED <<rest, mutex, misused>>

BlockedOn(s) == {u \in Threads : /\ Runs(u) /\ InCall(u)
                                 /\ Now(u).op \in SemWaits /\ Now(u).obj = s}

SemPosted(t) ==
  /\ At(t, "post")
  /\ sem' = IF bug = "post_lost" /\ BlockedOn(Now(t).obj) # {} THEN sem
            ELSE [sem EXCEPT ![Now(t).obj] = @ + 1]
  /\ Returns(t, 0)
  /\ UNCHANGED <<rest, mutex, misused>>

SemWaited(t) ==
  /\ \/ At(t, "trywait")
     \/ (At(t, "wait") \/ At(t, "timedwait")) /\ sem[Now(t).obj] > 0
  /\ IF sem[Now(t).obj] > 0
       THEN sem' = [sem EXCEPT ![Now(t).obj] = @ - 1] /\ Returns(t, 0)
       ELSE UNCHANGED sem /\ Returns(t, EAGAIN)
  /\ UNCHANGED <<rest, mutex, misused>>

SemValue(t) ==
  /\ At(t, "getvalue")
  /\ Returns(t, sem[Now(t).obj])
  /\ UNCHANGED <<objects, flags>>

AtBarrier == {u \in Threads : th[u].state = "barrier"}

BarrierReached(t) ==
  /\ At(t, "barrier_wait")
  /\ th' = IF Cardinality(AtBarrier) + 1 < Now(t).than THEN [th EXCEPT ![t].state = "barrier"]
           ELSE [u \in Threads |-> IF u \in AtBarrier \cup {t} THEN Onward(u) ELSE th[u]]
  /\ UNCHANGED <<objects, mem, status, flags>>

BarrierDestroyed(t) ==
  /\ At(t, "barrier_destroy")
  /\ misused' = (misused \/ AtBarrier # {})
  /\ Returns(t, 0)
  /\ UNCHANGED <<rest, mutex, sem>>

\* The first caller runs the routine, callers that come meanwhile wait.
OnceCalled(t) ==
  /\ At(t, "once") /\ mem["once"] # 1
  /\ IF mem["once"] = 0 \/ bug = "once_again"
       THEN /\ mem' = [mem EXCEPT !["once"] = 1]
            /\ th' = [th EXCEPT ![t] =
                         After(t, Programs[test][Now(t).obj] \o <<Set("once", 2)>>)]
       ELSE Goes(t) /\ UNCHANGED mem
  /\ UNCHANGED <<objects, status, flags>>

SpecificSet(t) ==
  /\ At(t, "setspecific")
  /\ th' = [th EXCEPT ![t] = [Onward(t) EXCEPT !.specific[Now(t).obj] = Now(t).arg]]
  /\ UNCHANGED <<objects, mem, status, flags>>

SpecificChecked(t) ==
  /\ At(t, "checkspecific")
  /\ Returns(t, IF th[t].specific[Now(t).obj] = Now(t).arg THEN 0 ELSE 1)
  /\ UNCHANGED <<objects, flags>>

\* What a locking call asks the reader-writer lock for.
Asks(op) == IF op \in {"rdlock", "tryrdlock"} THEN "read" ELSE "write"
Grants(op) == rw = "free" \/ (rw = "read" /\ Asks(op) = "read") \/ bug = "try_succeeds"

RwLocked(t) ==
  /\ \E op \in {"rdlock", "wrlock", "tryrdlock", "trywrlock"} : At(t, op)
  /\ IF Grants(Now(t).op)
       THEN rw' = Asks(Now(t).op) /\ Returns(t, 0)
       ELSE UNCHANGED rw /\ Returns(t, EBUSY)
  /\ UNCHANGED <<test, bug, mutex, sem, opened, flags>>

RwUnlocked(t) ==
  /\ At(t, "rwunlock")
  /\ rw' = "free"
  /\ Returns(t, 0)
  /\ UNCHANGED <<test, bug, mutex, sem, opened, flags>>

-----------------------------------------------------------------------------
(* Thread-local storage, the shared object, the named semaphore. *)

\* The thread whose block a thread uses.
Block(t) == IF bug = "tls_shared" THEN "main" ELSE t

TlsAdded(t) ==
  /\ At(t, "tls_add")
  /\ th' = [u \in Threads |->
              LET new == IF u = t THEN Onward(t) ELSE th[u]
              IN IF u = Block(t) THEN [new EXCEPT !.tls[Now(t).obj] = @ + Now(t).than]
                 ELSE new]
  /\ UNCHANGED <<objects, mem, status, flags>>

TlsChecked(t) ==
  /\ At(t, "tls_check")
  /\ Returns(t, th[Block(t)].tls[Now(t).obj])
  /\ UNCHANGED <<objects, flags>>

\* The handles of the object and of the program itself.
ObjectHandle == 1
SelfHandle == 2

\* Opening the object initialises it unless it is loaded already; another
\* opening can only widen its scope.
ModuleOpened(t) ==
  /\ At(t, "dlopen")
  /\ Goes(t)
  /\ IF Now(t).obj = "self"
       THEN /\ mem' = [mem EXCEPT ![Now(t).into] = SelfHandle]
            /\ UNCHANGED opened
       ELSE /\ mem' = [mem EXCEPT ![Now(t).into] = ObjectHandle,
                         !["i"] = IF opened.module = "none" \/ bug = "reinitialised" THEN 1
                                  ELSE @]
            /\ opened' = [opened EXCEPT
                            !.module = IF @ = "global" THEN @ ELSE Now(t).obj,
                            !.older = IF opened.module = "none"
                                        THEN {u \in Threads : th[u].state # "unborn"} ELSE @]
  /\ UNCHANGED <<test, bug, mutex, sem, rw, status, flags>>

\* dlsym: the object's symbols are found through its own handle, and through
\* that of the program when its scope is global.
SymbolFound(t) ==
  /\ At(t, "dlsym")
  /\ Returns(t, IF \/ mem[Now(t).obj] = ObjectHandle \/ opened.module = "global"
                   \/ bug = "local_is_global" THEN 1 ELSE 0)
  /\ UNCHANGED <<objects, flags>>

\* f() of the object writes to its thread-local storage.
ObjectCalled(t) == At(t, "call_f") /\ Goes(t) /\ UNCHANGED <<objects, mem, status, flags>>

ModuleClosed(t) == At(t, "dlclose") /\ Returns(t, 0) /\ UNCHANGED <<objects, flags>>

\* sem_open: 0 is SEM_FAILED; every opening of one name gives one address.
SemOpened(t) ==
  /\ At(t, "sem_open")
  /\ LET creates == Now(t).arg = "creat|excl"
         fails == creates = opened.named
     IN /\ opened' = IF fails THEN opened
                      ELSE [opened EXCEPT !.named = TRUE, !.handles = @ + 1]
        /\ sem' = IF fails \/ ~creates THEN sem ELSE [sem EXCEPT ![Now(t).obj] = Now(t).than]
        /\ Returns(t, IF fails THEN 0
                      ELSE IF creates \/ bug # "mapped_twice" THEN 1 ELSE 2)
  /\ UNCHANGED <<test, bug, mutex, rw, flags>>

SemClosed(t) ==
  /\ At(t, "sem_close")
  /\ opened' = [opened EXCEPT !.handles = IF bug = "unmapped_early" THEN 0 ELSE @ - 1]
  /\ Returns(t, 0)
  /\ UNCHANGED <<test, bug, mutex, sem, rw, flags>>

\* The name goes, the semaphore stays for those who have it open.
SemUnlinked(t) == At(t, "sem_unlink") /\ Returns(t, 0) /\ UNCHANGED <<objects, flags>>

ShmOpened(t) == At(t, "shm_open") /\ Returns(t, 0) /\ UNCHANGED <<objects, flags>>

-----------------------------------------------------------------------------
(* The end of the objects' lifetime. *)

SleepsOnMutex(t) == Runs(t) /\ InCall(t) /\ Now(t).op = "lock" /\ ~MayLock(t)

\* The function with the objects of the test returns.  The memory it leaves
\* stays as it is until its next call initialises its objects in the same
\* place.  A thread that sleeps on the old mutex is not known to the new one
\* and sleeps for ever; any other one goes on with the new objects.
FrameLeft(t) ==
  /\ At(t, "leave")
  /\ th' = [u \in Threads |->
              IF u = t THEN Onward(t)
              ELSE IF SleepsOnMutex(u) THEN [th[u] EXCEPT !.state = "stranded"] ELSE th[u]]
  /\ misused' = (\/ misused \/ mutex.owner # NoOne
                 \/ \E u \in Threads \ {t} : Working(u) /\ InCall(u))
  /\ UNCHANGED <<rest, mutex, sem, mem, status>>

-----------------------------------------------------------------------------
(* Time. *)

\* A call with a timer has to wait.
Timed(t) ==
  /\ ~exited /\ InCall(t)
  /\ \/ /\ Runs(t) /\ MustWait(t) /\ ~MustCancel(t)
        /\ Now(t).op \in {"timedlock", "timedwait", "sleep"}
     \/ th[t].state = "waiting" /\ Now(t).op = "cond_timedwait"

TimerRunsOut(t) ==
  /\ Timed(t)
  /\ late' = (late \/ \E u \in Threads : CanRun(u))
  /\ CASE Now(t).op = "cond_timedwait" ->
            th' = [th EXCEPT ![t].state = "timedout"] /\ UNCHANGED <<mem, status>>
       [] Now(t).op = "sleep" -> Returns(t, 0)
       [] OTHER -> Returns(t, ETIMEDOUT)
  /\ UNCHANGED <<objects, exited, woken, misused>>

-----------------------------------------------------------------------------

Step(t) ==
  \/ SetVariable(t) \/ CheckVariable(t) \/ Skip(t)
  \/ MutexInitialised(t) \/ MutexDestroyed(t) \/ MutexLocked(t) \/ MutexUnlocked(t)
  \/ MutexConsistent(t) \/ CondWaiting(t) \/ CondSignalled(t) \/ CondBroadcast(t)
  \/ CondDestroyed(t) \/ ThreadCreated(t) \/ ThreadJoined(t) \/ ThreadDetached(t)
  \/ ThreadCancelled(t) \/ CancelStateSet(t) \/ HandlerPushed(t) \/ HandlerPopped(t)
  \/ ThreadExits(t) \/ CancelActs(t) \/ CancelWait(t) \/ WaitReturns(t)
  \/ ThreadEnds(t) \/ SemInitialised(t) \/ SemPosted(t)
  \/ SemWaited(t) \/ SemValue(t) \/ BarrierReached(t) \/ BarrierDestroyed(t)
  \/ OnceCalled(t) \/ SpecificSet(t) \/ SpecificChecked(t) \/ RwLocked(t)
  \/ RwUnlocked(t) \/ ShmOpened(t) \/ TlsAdded(t) \/ TlsChecked(t)
  \/ ModuleOpened(t) \/ SymbolFound(t) \/ ObjectCalled(t) \/ ModuleClosed(t)
  \/ SemOpened(t) \/ SemClosed(t) \/ SemUnlinked(t) \/ FrameLeft(t) \/ Crashes(t)

\* The process has exited, or runtest will kill a test that hangs.
Stopped ==
  /\ exited \/ \A t \in Threads : ~CanRun(t) /\ ~Timed(t)
  /\ UNCHANGED vars

Next == (\E t \in Threads : Step(t) \/ TimerRunsOut(t) \/ WokenByNothing(t)) \/ Stopped

\* Every thread is scheduled, and gets what others let go of again and again;
\* time goes on.
Spec == /\ Init /\ [][Next]_vars
        /\ \A t \in Threads : SF_vars(Step(t)) /\ WF_vars(TimerRunsOut(t))

-----------------------------------------------------------------------------
(* Properties. *)

\* The variables that a call writes and reads.
CallWrites(c) ==
  CASE c.op \in {"set", "add", "copy"} -> {c.obj}
    [] c.op = "dlopen" -> {c.into, "i"} \ {"nowhere"}
    [] c.op \in CondWaits -> {}
    [] OTHER -> {c.into} \ {"nowhere"}
CallReads(c) ==
  CASE c.op \in {"check", "skip", "dlsym"} -> {c.obj}
    [] c.op = "copy" -> {c.arg}
    [] c.op \in CondWaits -> {c.into} \ {"nowhere"}
    [] OTHER -> {}
\* The variables that the next step of thread t writes and reads.
Writes(t) ==
  IF ~Runs(t) THEN {} ELSE IF InCall(t) THEN CallWrites(Now(t)) ELSE Destroyed(t)
Reads(t) == IF Runs(t) /\ InCall(t) THEN CallReads(Now(t)) ELSE {}

\* "test results should be robust" (README line 25): with a correct library
\* no interleaving makes a test report an error, unless a timer ran out early.
\* One exception: pthread_condattr_setclock.c line 45 takes a wakeup by nothing
\* for an error.
NoFalseAlarm ==
  bug = "none" /\ status = 1 => late \/ (woken /\ test = "condattr_setclock")

\* A regression test finds the bug it is for: with that bug in the library no
\* interleaving lets the test report success, unless a timer ran out early or
\* a wakeup by nothing stood in for the one that the library lost.
FindsBug == bug # "none" /\ exited /\ status = 0 => late \/ woken

\* Nothing is done with a mutex, condition variable or barrier that POSIX
\* leaves undefined, and no function leaves objects that a thread will still
\* use, which another libc may answer differently ("the test system should run
\* on all archs and libcs", README line 28).  The exceptions: pthread_mutex.c
\* line 58 leaves the mutex that t1 is deadlocked on, with the semaphore and
\* the result it would still write, and line 143 has them made anew there;
\* pthread-robust-detach.c line 51 leaves the mutex locked; pthread_robust.c
\* line 75 destroys it locked; and where a timer tells that a thread is
\* deadlocked (pthread_mutex.c line 53, pthread_once-deadlock.c line 41), one
\* that runs out early leaves that thread at work.
NoMisuse ==
  bug = "none" /\ misused =>
    \/ test \in {"relock", "robust_detach", "robust_consistent"}
    \/ late /\ test \in {"relock_errorcheck", "relock_recursive", "once_deadlock"}

\* A variable that threads share is never written while another thread is about
\* to read or write it.
RaceFree ==
  \A t, u \in Threads : t # u => Writes(t) \cap (Writes(u) \cup Reads(u)) = {}

\* The tests are free of data races with a correct library.  The exceptions:
\* pthread_cond.c line 102 sets foo[0] = 0 before it locks the mutex of its
\* readers; when their timers have run out early, pthread_once-deadlock.c
\* line 65 reads count, and pthread_mutex.c has two threads write one i.
NoRace ==
  bug = "none" /\ ~RaceFree =>
    test = "cond_many" \/ (late /\ test \in {"once_deadlock", "relock"})

\* Nothing is done that is undefined, by POSIX or as a data race.
NoUndefined == NoMisuse /\ NoRace

\* "tests should leave the system in a clean state" (README line 29): when
\* main() returns, all threads have ended and been joined, but for the one that
\* pthread_mutex.c line 57 leaves deadlocked on purpose and those that
\* pthread-robust-detach.c line 38 detaches, which have ended.
NothingLeft ==
  bug = "none" /\ exited /\ ~late =>
    \A t \in Threads \ {"main"} :
      \/ th[t].state \in {"unborn", "joined"}
      \/ test = "relock" /\ t = "t1" /\ th[t].state = "stranded"
      \/ test = "robust_detach" /\ th[t].state = "done"

\* With a correct library main returns, however slow the machine is.  The
\* exception: pthread_cond.c line 69 waits once, without a predicate, and so a
\* wakeup by nothing has it join, with the mutex held, the thread that needs
\* the mutex to signal.
Ends == bug = "none" => <>(exited \/ (woken /\ test = "cond_signal"))
=============================================================================
