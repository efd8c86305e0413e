------------------------------ MODULE Processes ------------------------------
(***************************************************************************)
(* The processes under the tests of ProcessTests: fork, wait, exit and its *)
(* handlers, signals, a pipe, a temporary file, a record lock and a System *)
(* V object that outlives the process which made it.                       *)
(*                                                                         *)
(* A test is run once, or, if it has a key that its dynamic and its static *)
(* executable share, a second time after the first.  runtest may find that *)
(* the time is over at any moment and kills the first process of the test, *)
(* and only that one.  The library may have one of the bugs that the tests *)
(* exist to find, and fork may fail.                                       *)
(***************************************************************************)
EXTENDS Integers, Sequences

CONSTANTS
  Programs,   \* the routines of every test, as sequences of calls
  BugsFor,    \* what may be wrong with the library in a test
  Again,      \* the tests that are run by two executables
  Actors      \* the threads there may be at a time

Tests == DOMAIN Programs

VARIABLES
  test, bug,
  round,      \* 1, or 2 for the second executable
  main,       \* the process that runtest waits for, or nobody
  th,         \* the threads
  mem,        \* the memory of a process, kept under its first thread
  ipc,        \* the System V object of the key
  lock,       \* the process that holds the record lock, or nobody
  pipe,       \* what was written to the pipe and not read yet
  file,       \* the temporary file
  result,     \* how the round ended
  orphaned,   \* (history) did a process outlive the round it belongs to?
  shown,      \* (history) did the bug have an effect in this round?
  counted     \* (history) did a stray signal come when signals were counted?

vars == <<test, bug, round, main, th, mem, ipc, lock, pipe, file, result, orphaned,
          shown, counted>>
fixed == <<test, bug, round>>
ending == <<main, result>>
objects == <<ipc, lock, pipe, file>>
history == <<orphaned, shown, counted>>
rest == <<fixed, ending, history>>

Nobody == 0
Garbage == -1   \* a variable that was not initialized
Failed == -2    \* the result of a call that fails, unless it is one of these
E2BIG == 7
EEXIST == 17
ENOMSG == 42

Variables == {"r", "got", "c0", "c1", "child", "arg", "data", "moved", "nowhere"}

-----------------------------------------------------------------------------
(* Calls.  A call whose result is not in `want' makes the test report an   *)
(* error; `arg' calls are left out if a fork fails.                        *)

Call(op, obj, want) == [op |-> op, obj |-> obj, want |-> want, arg |-> 0]
Anything == Failed..255

Fork(routine, skipped) == [Call("fork", routine, {0}) EXCEPT !.arg = skipped]
\* The result of the fork is not looked at.
ForkBlindly(routine) == Call("fork", routine, Anything)
WaitChild == Call("wait", "", {0})
Ignore(call) == [call EXCEPT !.want = Anything]
ExitNow(code) == Call("_exit", code, {0})
ExitStatus == Call("_exit", Garbage, {0})
AtExit(routine) == Call("atexit", routine, {0})
PthreadExit == Call("pthread_exit", "", {0})
Create(routine) == Call("create", routine, {0})
Join == Call("join", "", {0})
SetTsd(x) == Call("setspecific", x, {0})
KillThread == Call("pthread_kill", "", {0})
KillParent == Call("kill", "", {0})
Raise == Call("raise", "", {0})
AwaitSignals(n) == [Call("await", "c1", {0}) EXCEPT !.arg = n]
Check(x, want) == Call("check", x, want)
StopIfFailed == Call("stop", "", {0})
StopIfChild == Call("stop_child", "", {0})
\* The System V object of the key.
Get(how, want) == Call("get", how, want)
Value(want) == Call("value", "", want)
Put == Call("put", "", {0})
Take(blocking, want) == Call("take", blocking, want)
Peek(want) == Call("peek", "", want)
Remove == Call("remove", "", {0})
\* The lock, the pipe and the file.
SetLock == Call("setlk", "", {0})
ExitUnlessLocked == Call("setlk_exit", "", {0})
ExitUnlessHolder == Call("getlk_exit", "", {0})
Pipe == Call("pipe", "", {0})
CloseWriteEnd == Call("close", "", {0})
Write(v) == Call("write", v, {0})
Read(want) == Call("read", "", want)
Daemon == Call("daemon", "", {0})
MakeFile == Call("mkstemp", "", {0})
Fwrite == Call("fwrite", "", {0})
CheckFile == Call("pread", "", {0})
Unlink == Call("unlink", "", {0})

\* What a call names is there: a routine of program p, a variable, a number.
Names(p, c) ==
  /\ c.op \in {"fork", "create", "atexit"} => c.obj \in DOMAIN p
  /\ c.op \in {"check", "setspecific"} => c.obj \in Variables
  /\ c.op \in {"_exit", "write"} => c.obj \in Int
  /\ c.op = "take" => c.obj \in BOOLEAN
  /\ c.arg \in Nat

CallsIn(routine) == {routine[i] : i \in DOMAIN routine}
CallsOf(p) == UNION {CallsIn(p[r]) : r \in DOMAIN p}

ASSUME ProgramsAssumption ==
  \A p \in Tests :
    /\ "main" \in DOMAIN Programs[p]
    /\ \A r \in DOMAIN Programs[p] : Programs[p][r] \in Seq(CallsIn(Programs[p][r]))
    /\ \A c \in CallsOf(Programs[p]) : Names(Programs[p], c)
ASSUME TestsAssumption == Again \subseteq Tests /\ Tests \subseteq DOMAIN BugsFor
ASSUME ActorsAssumption == 1 \in Actors /\ Nobody \notin Actors

-----------------------------------------------------------------------------

\* A thread: its state, the first thread of its process, the parent process,
\* its calls, its pending signals, the thread that raise() found itself to be,
\* its thread-specific data, and the wait status of the process.
Nothing == [state |-> "none", process |-> Nobody, parent |-> Nobody, calls |-> <<>>,
            signals |-> <<>>, self |-> Nobody, tsd |-> "nowhere", code |-> 0]
Thread ==
  [state : {"none", "running", "zombie", "done"}, process : Actors \cup {Nobody},
   parent : Actors \cup {Nobody}, calls : Seq(CallsOf(Programs[test])),
   signals : Seq({"count", "got", "fork"}), self : Actors \cup {Nobody},
   tsd : Variables, code : Int]

\* Memory: t_status and the variables, the id of the object, whether the write
\* end of the pipe is open, what stdout has buffered, the atexit handler.
Fresh == [status |-> 0, var |-> [x \in Variables |-> IF x = "r" THEN Garbage ELSE 0],
          id |-> Failed, writes |-> FALSE, buffer |-> FALSE, atexit |-> "none"]
Memory ==
  [status : {0, 1}, var : [Variables -> Int], id : Int, writes : BOOLEAN,
   buffer : BOOLEAN, atexit : DOMAIN Programs[test] \cup {"none"}]

\* Process b is there: its first thread runs.
Lives(b) == th[b].state = "running" /\ th[b].process = b

ThreadsOK == th \in [Actors -> Thread] /\ mem \in [Actors -> Memory]
\* Every thread belongs to a process that lives, and so does the parent of one;
\* a process that is dead waits for its parent to be told.
FamiliesOK ==
  \A a \in Actors :
    /\ th[a].state = "none" => th[a] = Nothing
    /\ th[a].state \in {"running", "done"} => th[a].process \in Actors /\ Lives(th[a].process)
    /\ th[a].state = "zombie" => th[a].process = a /\ th[a].parent # Nobody
    /\ th[a].parent # Nobody =>
         th[a].process = a /\ th[a].parent # a /\ Lives(th[a].parent)
    /\ ~Lives(a) => mem[a] = Fresh
\* runtest waits for a process that lives, a process that lives holds the lock.
MainOK ==
  /\ result \in {"none", "pass", "fail", "killed"} /\ (main = Nobody <=> result # "none")
  /\ main # Nobody => main \in Actors /\ Lives(main) /\ th[main].parent = Nobody
  /\ lock # Nobody => lock \in Actors /\ Lives(lock)
ObjectsOK ==
  /\ ipc \in [id : Nat, last : Nat, value : Nat] /\ ipc.id <= ipc.last
  /\ pipe \in Seq(Int) /\ file \in {"none", "empty", "x"}
FlagsOK == test \in Tests /\ round \in {1, 2} /\ {orphaned, shown, counted} \subseteq BOOLEAN

\* Threads, processes and objects are what they should be.
TypeOK == ThreadsOK /\ FamiliesOK /\ MainOK /\ ObjectsOK /\ FlagsOK

\* What is wrong whatever happens, in contrast to what may happen or not.
Constant == bug \notin {"none", "fork_fails", "raise_not_atomic"}

First(a) == [Nothing EXCEPT !.state = "running", !.process = a,
                            !.calls = Programs[test]["main"]]

Init ==
  /\ test \in Tests
  /\ bug \in {"none"} \cup BugsFor[test]
  /\ round = 1 /\ main = 1
  /\ th = [a \in Actors |-> IF a = 1 THEN First(1) ELSE Nothing]
  /\ mem = [a \in Actors |-> Fresh]
  /\ ipc = [id |-> 0, last |-> 0, value |-> 0]
  /\ lock = Nobody /\ pipe = <<>> /\ file = "none"
  /\ result = "none"
  /\ orphaned = FALSE /\ shown = Constant /\ counted = FALSE

-----------------------------------------------------------------------------
(* Where a thread is, and how it goes on. *)

Me(a) == th[a].process
Mine(a) == mem[Me(a)]
Runs(a) == th[a].state = "running"
Now(a) == Head(th[a].calls)
\* A thread handles its signals before it goes on.
At(a, op) == Runs(a) /\ th[a].signals = <<>> /\ th[a].calls # <<>> /\ Now(a).op = op

Onward(a) == [th[a] EXCEPT !.calls = Tail(@)]
Goes(a) == th' = [th EXCEPT ![a] = Onward(a)]
Judged(m, call, r) == IF r \in call.want THEN m ELSE [m EXCEPT !.status = 1]
Keeps(a, m) == mem' = [mem EXCEPT ![Me(a)] = m]
Judge(a, r) == Keeps(a, Judged(Mine(a), Now(a), r))
Returns(a, r) == Goes(a) /\ Judge(a, r)

Free == {a \in Actors : th[a].state = "none"}
Newcomer == CHOOSE a \in Free : TRUE
Children(b) == {a \in Actors : th[a].process = a /\ th[a].parent = b /\ a # b}

\* Mutant: the other threads of the process live on.
Ended_alone(b, code) ==
  [a \in Actors |->
     CASE a = b -> [Nothing EXCEPT !.state = "zombie", !.process = b, !.parent = th[b].parent,
                                   !.code = code]
       [] a \in Children(b) -> [th[a] EXCEPT !.parent = Nobody]
       [] OTHER -> th[a]]

\* Process b ends.  Its parent learns its status; a process without a parent
\* is forgotten at once, and so are the dead children of b.
Ended(b, code) ==
  [a \in Actors |->
     CASE a = b /\ th[b].parent # Nobody ->
            [Nothing EXCEPT !.state = "zombie", !.process = b, !.parent = th[b].parent,
                            !.code = code]
       [] a = b /\ th[b].parent = Nobody -> Nothing
       [] a # b /\ th[a].process = b -> Nothing
       [] a \in Children(b) ->
            IF th[a].state = "zombie" THEN Nothing ELSE [th[a] EXCEPT !.parent = Nobody]
       [] OTHER -> th[a]]

\* The destructor of thread-specific data sets what the data points to.
DataDestroyed(a) ==
  [Mine(a) EXCEPT !.var[th[a].tsd] = IF bug = "destructor_skipped" THEN @ ELSE 1]

-----------------------------------------------------------------------------
(* Processes and threads. *)

\* What process b had is given back; r is what becomes of the test if it is main's.
Gone(b, r) ==
  /\ lock' = IF lock = b THEN Nobody ELSE lock
  /\ IF b = main THEN main' = Nobody /\ result' = r ELSE UNCHANGED ending

\* Process b ends with a status.
Dies(b, code, r) ==
  /\ th' = Ended(b, code)
  /\ mem' = [mem EXCEPT ![b] = Fresh]
  /\ Gone(b, r)
Ends(b, code) == Dies(b, code, IF code = 0 THEN "pass" ELSE "fail")

\* exit() with memory m: the atexit handler is first, then stdout is written.
Exits(a, m, code) ==
  IF m.atexit # "none" /\ bug # "atexit_skipped"
    THEN /\ th' = [th EXCEPT ![a].calls = Programs[test][m.atexit]]
         /\ Keeps(a, [m EXCEPT !.atexit = "none"])
         /\ UNCHANGED <<ending, lock, file>>
    ELSE /\ Ends(Me(a), code)
         /\ file' = IF m.buffer /\ bug # "not_flushed" THEN "x" ELSE file

\* main() returns t_status.
MainReturns(a) ==
  /\ Runs(a) /\ th[a].signals = <<>> /\ th[a].calls = <<>>
  /\ Exits(a, Mine(a), Mine(a).status)
  /\ UNCHANGED <<fixed, ipc, pipe, history>>

\* A thread ends; the last one of a process makes it exit(0), which a thread
\* that forked is in the child.
ThreadEnds(a) ==
  /\ At(a, "pthread_exit")
  /\ IF a = Me(a) THEN Exits(a, DataDestroyed(a), 0)
     ELSE /\ th' = [th EXCEPT ![a].state = "done", ![a].calls = <<>>]
          /\ Keeps(a, DataDestroyed(a))
          /\ UNCHANGED <<ending, lock, file>>
  /\ UNCHANGED <<fixed, ipc, pipe, history>>

\* The code a call of _exit() ends the process with, which a fork of the test
\* makes that looks at the status or at the lock before.
ExitCode(a) ==
  CASE Now(a).op = "_exit" /\ Now(a).obj = Garbage -> Mine(a).status
    [] Now(a).op = "_exit" /\ Now(a).obj # Garbage ->
         IF bug = "code_lost" THEN 0 ELSE Now(a).obj
    [] Now(a).op = "setlk_exit" -> IF lock \in {Nobody, Me(a)} THEN 1 ELSE 0
    [] Now(a).op = "getlk_exit" ->
         IF lock # Nobody /\ lock = th[Me(a)].parent THEN 0 ELSE 1
    [] OTHER -> Mine(a).status
MayExit(a) ==
  \/ \E op \in {"_exit", "setlk_exit", "getlk_exit"} : At(a, op)
  \/ At(a, "stop") /\ Mine(a).status = 1
  \/ At(a, "stop_child") /\ Mine(a).var["child"] = 1

ExitsNow(a) ==
  /\ MayExit(a)
  /\ Ends(Me(a), ExitCode(a))
  /\ UNCHANGED <<fixed, ipc, pipe, file, history>>

GoesOn(a) ==
  /\ At(a, "stop") \/ At(a, "stop_child")
  /\ ~MayExit(a)
  /\ Goes(a)
  /\ UNCHANGED <<rest, mem, objects>>

Child(a, calls) == [Nothing EXCEPT !.state = "running", !.process = Newcomer,
                                   !.parent = Me(a), !.calls = calls,
                                   !.self = th[a].self]
\* The child of fcntl() is not noticed to hold a lock by itself.
LockAfterFork == IF bug = "lock_inherited" /\ lock # Nobody THEN Newcomer ELSE lock

Forks(a) ==
  /\ At(a, "fork")
  /\ \/ /\ Free # {}
        /\ th' = [th EXCEPT ![a] = Onward(a),
                            ![Newcomer] = Child(a, Programs[test][Now(a).obj])]
        /\ mem' = [mem EXCEPT ![Newcomer] = Mine(a)]
        /\ lock' = LockAfterFork
        /\ UNCHANGED shown
     \/ /\ bug = "fork_fails"
        /\ th' = [th EXCEPT ![a].calls = SubSeq(@, Now(a).arg + 2, Len(@))]
        /\ Judge(a, Failed)
        /\ shown' = TRUE
        /\ UNCHANGED lock
  /\ UNCHANGED <<fixed, ending, ipc, pipe, file, orphaned, counted>>

Waits(a) ==
  /\ At(a, "wait")
  /\ IF Children(Me(a)) = {} THEN Returns(a, Failed)
     ELSE \E b \in Children(Me(a)) :
            /\ th[b].state = "zombie"
            /\ th' = [th EXCEPT ![a] = Onward(a), ![b] = Nothing]
            /\ Keeps(a, [Judged(Mine(a), Now(a), 0) EXCEPT !.var["r"] = th[b].code])
  /\ UNCHANGED <<rest, objects>>

ThreadCreated(a) ==
  /\ At(a, "create") /\ Free # {}
  /\ th' = [th EXCEPT ![a] = Onward(a),
                      ![Newcomer] = [Nothing EXCEPT !.state = "running", !.process = Me(a),
                                                    !.calls = Programs[test][Now(a).obj]]]
  /\ UNCHANGED <<rest, mem, objects>>

Peers(a) == {b \in Actors \ {a} : th[b].process = Me(a)}

ThreadJoined(a) ==
  /\ At(a, "join")
  /\ \E b \in Peers(a) :
       /\ th[b].state = "done"
       /\ th' = [th EXCEPT ![a] = Onward(a), ![b] = Nothing]
  /\ UNCHANGED <<rest, mem, objects>>

-----------------------------------------------------------------------------
(* Signals: SIGRTMIN and SIGUSR1, which a handler counts, and SIGRTMIN+1,  *)
(* whose handler forks.                                                    *)

Sent(f, b, sig) == [f EXCEPT ![b].signals = Append(@, sig)]

\* Thread b has compared the number of its signals.
Counted(b) == \A i \in DOMAIN th[b].calls : th[b].calls[i].obj # "c0"

\* raise() finds out which thread it runs in and sends the signal there.  The
\* library masks all signals for that time, unless it has the bug.
Raises(a) ==
  /\ At(a, "raise")
  /\ IF bug = "raise_not_atomic" /\ th[a].self = Nobody
       THEN /\ th' = [th EXCEPT ![a].self = a]
            /\ UNCHANGED <<mem, shown, counted>>
       ELSE LET b == IF bug = "raise_not_atomic" THEN th[a].self ELSE a
                on == [th EXCEPT ![a] = [Onward(a) EXCEPT !.self = Nobody]]
            IN IF Runs(b) /\ th[b].calls # <<>>
                 THEN /\ th' = Sent(on, b, "count")
                      /\ shown' = (shown \/ a # b)
                      /\ counted' = (counted \/ (a # b /\ Counted(b)))
                      /\ UNCHANGED mem
                 ELSE /\ th' = on /\ Judge(a, Failed)
                      /\ shown' = TRUE /\ counted' = TRUE
  /\ UNCHANGED <<fixed, ending, objects, orphaned>>

\* Main sends the signal that forks to its thread, a child one to its parent.
Kills(a) ==
  /\ \/ /\ At(a, "pthread_kill")
        /\ \E b \in Peers(a) :
             th' = IF th[b].state = "running" THEN Sent([th EXCEPT ![a] = Onward(a)], b, "fork")
                   ELSE [th EXCEPT ![a] = Onward(a)]
     \/ /\ At(a, "kill")
        /\ LET b == th[a].parent
           IN th' = IF b = Nobody THEN [th EXCEPT ![a] = Onward(a)]
                    ELSE Sent([th EXCEPT ![a] = Onward(a)], b, "got")
  /\ UNCHANGED <<rest, mem, objects>>

Handled(a) == [th[a] EXCEPT !.signals = Tail(@)]
SignalArrives(a) == Runs(a) /\ th[a].signals # <<>>
Signal(a) == Head(th[a].signals)

HandlesSignal(a) ==
  /\ SignalArrives(a) /\ Signal(a) # "fork"
  /\ th' = [th EXCEPT ![a] = Handled(a)]
  /\ Keeps(a, IF Signal(a) = "got" THEN [Mine(a) EXCEPT !.var["got"] = 1]
              ELSE [Mine(a) EXCEPT !.var["c0"] = @ + 1])
  /\ UNCHANGED <<rest, objects>>

\* The child goes on where the signal met its parent.
HandlesFork(a) ==
  /\ SignalArrives(a) /\ Signal(a) = "fork"
  /\ LET m == [Mine(a) EXCEPT !.var["c1"] = @ + 1]
     IN \/ /\ Free # {}
           /\ th' = [th EXCEPT ![a] = Handled(a), ![Newcomer] = Child(a, th[a].calls)]
           /\ mem' = [mem EXCEPT ![Me(a)] = m, ![Newcomer] = [m EXCEPT !.var["child"] = 1]]
           /\ UNCHANGED shown
        \/ /\ bug = "fork_fails"
           /\ th' = [th EXCEPT ![a] = Handled(a)]
           /\ Keeps(a, [m EXCEPT !.status = 1])
           /\ shown' = TRUE
  /\ UNCHANGED <<fixed, ending, objects, orphaned, counted>>

AwaitsSignals(a) ==
  /\ At(a, "await") /\ Mine(a).var["c1"] >= Now(a).arg
  /\ Goes(a)
  /\ UNCHANGED <<rest, mem, objects>>

-----------------------------------------------------------------------------
(* The System V object of the key: a semaphore, a queue or shared memory.  *)

Valid(a) == ipc.id # 0 /\ Mine(a).id = ipc.id
NewObject == [id |-> ipc.last + 1, last |-> ipc.last + 1, value |-> 0]

\* "create" takes what is there, "exclusive" and "probe" must make it.
GetsObject(a) ==
  /\ At(a, "get")
  /\ LET how == Now(a).obj
         refused == how \in {"exclusive", "probe"} /\ ipc.id # 0 /\ bug # "excl_ignored"
         r == IF refused THEN EEXIST ELSE IF how = "plain" /\ ipc.id = 0 THEN Failed ELSE 0
     IN /\ ipc' = IF r = 0 /\ ipc.id = 0 THEN NewObject ELSE ipc
        /\ Keeps(a, [Judged(Mine(a), Now(a), r) EXCEPT
                       !.id = IF how = "probe" THEN @ ELSE IF r = 0 THEN ipc'.id ELSE Failed])
  /\ Goes(a)
  /\ UNCHANGED <<rest, lock, pipe, file>>

RemovesObject(a) ==
  /\ At(a, "remove")
  /\ ipc' = IF Valid(a) /\ bug # "rmid_ignored" THEN [ipc EXCEPT !.id = 0] ELSE ipc
  /\ Returns(a, IF Valid(a) THEN 0 ELSE Failed)
  /\ UNCHANGED <<rest, lock, pipe, file>>

LooksAtObject(a) ==
  /\ \/ At(a, "value") /\ Returns(a, IF Valid(a) THEN ipc.value ELSE Failed)
     \/ /\ At(a, "peek") /\ (Valid(a) => ipc.value > 0)
        /\ Returns(a, IF Valid(a) THEN E2BIG ELSE Failed)
  /\ UNCHANGED <<rest, objects>>

Puts(a) ==
  /\ At(a, "put")
  /\ ipc' = IF Valid(a) THEN [ipc EXCEPT !.value = @ + 1] ELSE ipc
  /\ Returns(a, IF Valid(a) THEN 0 ELSE Failed)
  /\ UNCHANGED <<rest, lock, pipe, file>>

Takes(a) ==
  /\ At(a, "take")
  /\ CASE ~Valid(a) -> UNCHANGED ipc /\ Returns(a, Failed)
       [] Valid(a) /\ ipc.value > 0 ->
            ipc' = [ipc EXCEPT !.value = @ - 1] /\ Returns(a, 0)
       [] Valid(a) /\ ipc.value = 0 -> ~Now(a).obj /\ UNCHANGED ipc /\ Returns(a, ENOMSG)
  /\ UNCHANGED <<rest, lock, pipe, file>>

-----------------------------------------------------------------------------
(* The variables of a test, the lock, the pipe and the file. *)

ChecksVariable(a) ==
  /\ At(a, "check")
  /\ \E r \in (IF Mine(a).var[Now(a).obj] = Garbage THEN 0..1 ELSE {Mine(a).var[Now(a).obj]}) :
       Returns(a, r)
  /\ UNCHANGED <<rest, objects>>

SetsVariable(a) ==
  /\ \/ At(a, "pipe") /\ Keeps(a, [Mine(a) EXCEPT !.writes = TRUE])
     \/ At(a, "close") /\ Keeps(a, [Mine(a) EXCEPT !.writes = FALSE])
     \/ At(a, "fwrite") /\ Keeps(a, [Mine(a) EXCEPT !.buffer = TRUE])
     \/ At(a, "atexit") /\ Keeps(a, [Mine(a) EXCEPT !.atexit = Now(a).obj])
  /\ Goes(a)
  /\ UNCHANGED <<rest, objects>>

SetsSpecific(a) ==
  /\ At(a, "setspecific")
  /\ th' = [th EXCEPT ![a] = [Onward(a) EXCEPT !.tsd = Now(a).obj]]
  /\ UNCHANGED <<rest, mem, objects>>

SetsLock(a) ==
  /\ At(a, "setlk")
  /\ lock' = Me(a)
  /\ Goes(a)
  /\ UNCHANGED <<rest, mem, ipc, pipe, file>>

\* What is written is the t_status of the writer, or a greeting.
WritesPipe(a) ==
  /\ At(a, "write")
  /\ pipe' = IF bug = "unconnected" THEN pipe
             ELSE Append(pipe, IF Now(a).obj = Garbage THEN Mine(a).status ELSE Now(a).obj)
  /\ Goes(a)
  /\ UNCHANGED <<rest, mem, ipc, lock, file>>

\* A read waits for data as long as a process could write some.
ReadsPipe(a) ==
  /\ At(a, "read")
  /\ \/ pipe # <<>> /\ pipe' = Tail(pipe) /\ Returns(a, Head(pipe))
     \/ /\ pipe = <<>> /\ \A b \in Actors : ~mem[b].writes
        /\ Returns(a, Failed) /\ UNCHANGED pipe
  /\ UNCHANGED <<rest, ipc, lock, file>>

UsesFile(a) ==
  /\ \/ At(a, "mkstemp") /\ file' = "empty" /\ Returns(a, 0)
     \/ At(a, "pread") /\ UNCHANGED file /\ Returns(a, IF file = "x" THEN 0 ELSE Failed)
     \/ At(a, "unlink") /\ file' = "none" /\ Returns(a, 0)
  /\ UNCHANGED <<rest, ipc, lock, pipe>>

\* daemon() fails before it forks, unless the library has the bug: then it is
\* a child of the caller that goes on, and the caller is gone.
DaemonFails(a) ==
  /\ At(a, "daemon")
  /\ IF bug # "daemon_forks" THEN Goes(a) /\ UNCHANGED <<mem, lock, ending>>
     ELSE /\ Free # {}
          /\ th' = [Ended(Me(a), 0) EXCEPT
                      ![Newcomer] = [Child(a, Tail(th[a].calls)) EXCEPT !.parent = Nobody]]
          /\ mem' = [mem EXCEPT ![Me(a)] = Fresh, ![Newcomer] = [Mine(a) EXCEPT !.var["moved"] = 1]]
          /\ Gone(Me(a), "pass")
  /\ UNCHANGED <<fixed, history, ipc, pipe, file>>

-----------------------------------------------------------------------------
(* runtest and make. *)

\* The time is over: runtest kills the process it started and no other.
TimeIsOver ==
  /\ main # Nobody
  /\ Dies(main, 137, "killed")
  /\ UNCHANGED <<fixed, ipc, pipe, file, history>>

\* The dynamic executable has ended, make starts the static one.
StartsStatic ==
  /\ result # "none" /\ round = 1 /\ test \in Again /\ Free # {}
  /\ round' = 2 /\ result' = "none"
  /\ main' = Newcomer
  /\ th' = [th EXCEPT ![Newcomer] = First(Newcomer)]
  /\ orphaned' = (\E a \in Actors : th[a].state # "none")
  /\ shown' = Constant /\ counted' = FALSE
  /\ UNCHANGED <<test, bug, mem, objects>>

Over == result # "none" /\ (round = 2 \/ test \notin Again)
Rests == Over /\ UNCHANGED vars

Step(a) ==
  \/ MainReturns(a) \/ ThreadEnds(a) \/ ExitsNow(a) \/ GoesOn(a) \/ Forks(a) \/ Waits(a)
  \/ ThreadCreated(a) \/ ThreadJoined(a) \/ Raises(a) \/ Kills(a) \/ HandlesSignal(a)
  \/ HandlesFork(a) \/ AwaitsSignals(a) \/ GetsObject(a) \/ RemovesObject(a)
  \/ LooksAtObject(a) \/ Puts(a) \/ Takes(a) \/ ChecksVariable(a) \/ SetsVariable(a)
  \/ SetsSpecific(a) \/ SetsLock(a) \/ WritesPipe(a) \/ ReadsPipe(a) \/ UsesFile(a)
  \/ DaemonFails(a)

Next == (\E a \in Actors : Step(a)) \/ TimeIsOver \/ StartsStatic \/ Rests

\* Every thread is scheduled, and make goes on to the next executable.
Spec == /\ Init /\ [][Next]_vars
        /\ \A a \in Actors : WF_vars(Step(a))
        /\ WF_vars(StartsStatic)

-----------------------------------------------------------------------------
(* Properties. *)

\* "test results should be robust" (README line 25): with a correct library a
\* test reports no error, whatever a run that was killed before has left
\* behind, unless a process of that run is still at work.
NoFalseAlarm == bug = "none" /\ result = "fail" => orphaned

\* With a bug in the library that has shown, or after a fork that failed, the
\* test does not end with success.  Two exceptions: fcntl.c does not look at
\* the result of fork and judges an uninitialized status; raise-race.c line 50
\* does not look at the exit status of a child, so that it misses a signal
\* that went astray after line 39 has counted the signals.
FindsBug ==
  bug # "none" /\ shown /\ result = "pass" =>
    \/ orphaned
    \/ test = "fcntl" /\ bug = "fork_fails"
    \/ test = "raise_race" /\ counted

\* An error that is reported is one, and an error there is is reported.
RightVerdict == NoFalseAlarm /\ FindsBug

\* "tests should leave the system in a clean state" (README line 29): a test
\* that passes leaves no process, no System V object, no lock and no file, nor
\* any that an earlier run which was killed has left.
NothingLeft ==
  bug = "none" /\ result = "pass" /\ ~orphaned =>
    /\ \A a \in Actors : th[a].state = "none"
    /\ ipc.id = 0 /\ lock = Nobody /\ file = "none"

\* With a correct library every run of a test ends by itself.  One exception:
\* a child that is forked where its parent waits for the rest of the signals
\* (raise-race.c line 45) waits there for signals that it will not get.
AlwaysEnds == bug = "none" => <>(Over \/ orphaned)
Finishes == test # "raise_race" => AlwaysEnds

\* "raise should be robust against async fork in a signal handler"
\* (raise-race.c line 3): where it is, the test comes to its end.
RaiseRaceFinishes == test = "raise_race" => AlwaysEnds
=============================================================================
