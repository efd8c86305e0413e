---------------------------- MODULE ProcessTests ----------------------------
(***************************************************************************)
(* The tests of src/functional and src/regression that use processes, as   *)
(* the programs that Processes runs.  A shell that a test starts stands    *)
(* for the routine of its commands.  Left out are the early returns when a *)
(* pipe, a dup or a tmpfile cannot be had, and the times that the ipc      *)
(* tests compare with the clock.                                           *)
(***************************************************************************)
EXTENDS ProcessDiscipline

-----------------------------------------------------------------------------
(* functional/ipc_sem.c, ipc_msg.c and ipc_shm.c *)

\* Mutant: what is there already is not removed.
cleanObject_kept == <<Get("exclusive", {0}), StopIfFailed>>

cleanObject == <<Get("create", {0}), Remove, Get("exclusive", {0}), StopIfFailed>>

waitForChild == <<WaitChild, Check("r", {0})>>
forkAndWait(routine) == <<Fork(routine, 2)>> \o waitForChild

\* Mutant: the semaphore is not incremented.
inc_not == cleanObject \o <<Get("probe", {EEXIST}), Value(0..255)>>

inc == cleanObject \o <<Get("probe", {EEXIST}), Value(0..255), Put, Value({1})>>
dec == <<Get("plain", {0}), Take(TRUE, {0}), Value({0}), Remove>>
ipc_sem == [main |-> inc \o forkAndWait("dec"), dec |-> dec]

snd == cleanObject \o <<Get("probe", {EEXIST}), Value({0}), Put, Value({1})>>
rcv == <<Get("plain", {0}), Peek({E2BIG}), Take(FALSE, {0}), Take(FALSE, {ENOMSG}), Remove>>
ipc_msg == [main |-> snd \o forkAndWait("rcv"), rcv |-> rcv]

set == cleanObject \o <<Get("probe", {EEXIST}), Value(0..255), Put>>
get == <<Get("plain", {0}), Value({1}), Remove>>
ipc_shm == [main |-> set \o forkAndWait("get"), get |-> get]

-----------------------------------------------------------------------------
(* functional/fcntl.c, popen.c and vfork.c *)

fcntl ==
  LET look(child) == <<ForkBlindly(child), Ignore(WaitChild), Check("r", {0})>>
  IN [main |-> <<SetLock>> \o look("child1") \o look("child2"),
      child1 |-> <<ExitUnlessLocked>>, child2 |-> <<ExitUnlessHolder>>]

popen ==
  [main |-> <<Pipe, Fork("echo", 4), CloseWriteEnd, Read({1})>> \o waitForChild
            \o <<Pipe, Fork("reader", 5), Write(1), CloseWriteEnd>> \o waitForChild
            \o <<Check("got", {1})>>,
   echo |-> <<Write(1)>>,
   reader |-> <<CloseWriteEnd, Read({1}), StopIfFailed, KillParent>>]

test_exit(routine, code) == <<Fork(routine, 2), WaitChild, Check("r", {code})>>

vfork ==
  [main |-> test_exit("exit0", 0) \o test_exit("exit1", 1) \o test_exit("exit0", 0)
            \o test_exit("exit1", 1) \o test_exit("killed", 137),
   exit0 |-> <<ExitNow(0)>>, exit1 |-> <<ExitNow(1)>>, killed |-> <<ExitNow(137)>>]

-----------------------------------------------------------------------------
(* regression/fflush-exit.c, daemon-failure.c and pthread_exit-dtor.c *)

fflush_exit ==
  [main |-> <<MakeFile, Fork("printer", 0), WaitChild, Check("r", {0}), CheckFile, Unlink>>,
   printer |-> <<Fwrite>>]

daemon_failure ==
  [main |-> <<Pipe, Fork("caller", 4), CloseWriteEnd>> \o waitForChild \o <<Read({0})>>,
   caller |-> <<Daemon, Check("moved", {0}), Write(Garbage)>>]

pthread_exit_dtor ==
  [main |-> <<Fork("last", 2), WaitChild, Check("r", {1}), StopIfFailed, AtExit("cleanup"),
              SetTsd("data"), Create("start"), Join, Check("arg", {1}), Check("data", {0}),
              PthreadExit>>,
   last |-> <<AtExit("die"), PthreadExit>>,
   die |-> <<ExitNow(1)>>,
   start |-> <<SetTsd("arg"), PthreadExit>>,
   cleanup |-> <<Check("data", {1}), ExitStatus>>]

\* regression/raise-race.c, with two signals raised and two that fork
\* Mutant: main does not join the thread, so that nobody waits for the children.
raise_race_unjoined ==
  [main |-> <<Create("start"), KillThread, KillThread>>,
   start |-> <<Raise, Raise, Check("c0", {2}), StopIfChild, AwaitSignals(2)>>
             \o <<WaitChild, Check("r", 0..127), WaitChild, Check("r", 0..127), PthreadExit>>]

raise_race ==
  [main |-> <<Create("start"), KillThread, KillThread, Join>>,
   start |-> <<Raise, Raise, Check("c0", {2}), StopIfChild, AwaitSignals(2)>>
             \o <<WaitChild, Check("r", 0..127), WaitChild, Check("r", 0..127), PthreadExit>>]

-----------------------------------------------------------------------------

TestPrograms ==
  [ipc_sem |-> ipc_sem, ipc_msg |-> ipc_msg, ipc_shm |-> ipc_shm, fcntl |-> fcntl,
   popen |-> popen, vfork |-> vfork, fflush_exit |-> fflush_exit,
   daemon_failure |-> daemon_failure, pthread_exit_dtor |-> pthread_exit_dtor,
   raise_race |-> raise_race]

\* regression/raise-race.c by itself.
RaiseRaceOnly == [raise_race |-> raise_race]
NoTest == {}

\* The tests whose dynamic and static executable use the same key.
Shared == {"ipc_sem", "ipc_msg", "ipc_shm"}

TestBugs == [t \in DOMAIN TestPrograms |-> {"fork_fails"} \cup
  CASE t \in Shared -> {"excl_ignored", "rmid_ignored"}
    [] t = "fcntl" -> {"lock_inherited"}
    [] t = "popen" -> {"unconnected"}
    [] t = "vfork" -> {"code_lost"}
    [] t = "fflush_exit" -> {"not_flushed"}
    [] t = "daemon_failure" -> {"daemon_forks"}
    [] t = "pthread_exit_dtor" -> {"atexit_skipped", "destructor_skipped"}
    [] t = "raise_race" -> {"raise_not_atomic"}]

\* All tests but raise-race.c, whose fork is in a signal handler, are tidy.
ASSUME DisciplineAssumption == \A t \in Tests : Tidy(t) <=> t # "raise_race"
=============================================================================
