----------------------------- MODULE ThreadTests -----------------------------
(***************************************************************************)
(* The tests of src/functional and src/regression that use threads, as the *)
(* programs that PosixThreads runs.  A test is a function from routines to *)
(* sequences of calls; routine "main" is main(), and a thread runs the     *)
(* routine of its name.  Left out are initialisations of attributes,       *)
(* sem_destroy and the rtrace_* calls.  A function that returns ends with  *)
(* Leave if a thread may use its automatic objects.                        *)
(***************************************************************************)
EXTENDS LockDiscipline, TLC

-----------------------------------------------------------------------------
(* functional/pthread_mutex.c *)

start_relock == <<Lock("m"), Post("s"), Save(Ignore(Lock("m")), "i"), Post("s"),
                  Unlock("m"), SkipIf("i", EDEADLK, 1), Unlock("m")>>

\* Mutant: it leaves the thread when that did not deadlock, and joins it otherwise.
test_relock_inverted(t, type) ==
  <<MutexInit("m", type), SemInit("s", 0), Create(t), Wait("s"),
    Save(Ignore(TimedWait("s")), "r"), SkipIf("r", 0, 3),
    Join(t), MutexDestroy("m"), Copy("r", "i"), Leave>>

\* ETIMEDOUT stands for the -1 of a thread that is left deadlocked.
test_relock(t, type) ==
  <<MutexInit("m", type), SemInit("s", 0), Create(t), Wait("s"),
    Save(Ignore(TimedWait("s")), "r"), SkipIf("r", ETIMEDOUT, 3),
    Join(t), MutexDestroy("m"), Copy("r", "i"), Leave>>

\* The three calls that main() makes one after the other, and the last two of
\* them by themselves, where no thread has been left deadlocked.
relock ==
  [main |-> test_relock("t1", "normal") \o <<Check("r", ETIMEDOUT)>>
            \o test_relock("t2", "errorcheck") \o <<Check("r", EDEADLK)>>
            \o test_relock("t3", "recursive") \o <<Check("r", 0)>>,
   t1 |-> start_relock, t2 |-> start_relock, t3 |-> start_relock]
relock_alone(type, expected) ==
  [main |-> test_relock("t1", type) \o <<Check("r", expected)>>, t1 |-> start_relock]

unlock == <<Save(Ignore(Unlock("m")), "i")>>

test_unlock(type, expected) ==
  [main |-> <<MutexInit("m", type), Create("t1"), Join("t1"), MutexDestroy("m"),
              Copy("r", "i"), Leave, Check("r", expected)>>,
   t1 |-> unlock]

test_unlock_other(type, expected) ==
  [main |-> <<MutexInit("m", type), Lock("m"), Create("t1"), Join("t1"),
              Unlock("m"), MutexDestroy("m"), Copy("r", "i"), Leave,
              Check("r", expected)>>,
   t1 |-> unlock]

-----------------------------------------------------------------------------
(* functional/pthread_cond.c *)

start_signal == <<Lock("m"), Signal("c"), Unlock("m")>>
start_wait == <<Lock("m"), WaitWhile("foo", 1, "c", "m"), Unlock("m")>>

cond_signal ==
  [main |-> <<MutexInit("m", "normal"), Lock("m"), Create("t1"), CondWait("c", "m"),
              Join("t1"), Unlock("m"), MutexDestroy("m"), CondDestroy("c")>>,
   t1 |-> start_signal]

threeWaiters == <<MutexInit("m", "normal"), Lock("m"), Set("foo", 1),
                  Create("t1"), Create("t2"), Create("t3"), Unlock("m"), Sleep>>
joinThem == <<Join("t1"), Join("t2"), Join("t3")>>
destroyBoth == <<MutexDestroy("m"), CondDestroy("c")>>

\* Mutant: there is one signal less than waiters.
cond_many_two_signals ==
  [main |-> threeWaiters \o <<Set("foo", 0)>>
            \o start_signal \o start_signal
            \o joinThem \o destroyBoth,
   t1 |-> start_wait, t2 |-> start_wait, t3 |-> start_wait]

cond_many ==
  [main |-> threeWaiters \o <<Set("foo", 0)>>
            \o start_signal \o start_signal \o start_signal
            \o joinThem \o destroyBoth,
   t1 |-> start_wait, t2 |-> start_wait, t3 |-> start_wait]

cond_broadcast ==
  [main |-> threeWaiters
            \o <<Lock("m"), Set("foo", 0), Unlock("m"), Broadcast("c")>>
            \o joinThem \o destroyBoth \o <<Leave>>,
   t1 |-> start_wait, t2 |-> start_wait, t3 |-> start_wait]

-----------------------------------------------------------------------------
(* functional/pthread_robust.c: the three parts of f() *)

robust_lost ==
  [main |-> <<MutexInit("m", "robust"), Lock("m"), Unlock("m"), Create("t1"),
              Join("t1"), Want(Lock("m"), EOWNERDEAD), Unlock("m"),
              Want(Lock("m"), ENOTRECOVERABLE), MutexDestroy("m")>>,
   t1 |-> <<Lock("m")>>]

robust_consistent ==
  [main |-> <<MutexInit("m", "robust"), Create("t1"), Join("t1"),
              Want(Lock("m"), EOWNERDEAD), Consistent("m"), Unlock("m"),
              Lock("m"), MutexDestroy("m")>>,
   t1 |-> <<Lock("m")>>]

robust_exit ==
  [main |-> <<MutexInit("m", "robust"), Create("t1"), BarrierWait(2), BarrierDestroy,
              Want(Lock("m"), EOWNERDEAD), Join("t1"), Consistent("m"),
              Unlock("m"), MutexDestroy("m"), Leave>>,
   t1 |-> <<Lock("m"), BarrierWait(2), Sleep>>]

\* regression/pthread-robust-detach.c: main() calls f() twice.
robust_f(t) ==
  <<MutexInit("m", "robust"), Create(t), Detach(t), BarrierWait(2),
    BarrierDestroy, Want(TimedLock("m"), EOWNERDEAD), Leave>>
start_lock == <<Lock("m"), BarrierWait(2)>>

robust_detach ==
  [main |-> robust_f("t1") \o robust_f("t2"), t1 |-> start_lock, t2 |-> start_lock]

-----------------------------------------------------------------------------
(* functional/pthread_cancel.c *)

cancel_async ==
  [main |-> <<SemInit("s", 0), Create("t1"), Wait("s"), Cancel("t1"),
              Want(Join("t1"), CANCELED)>>,
   t1 |-> <<Async, Post("s"), Spin>>]

cancel_single ==
  [main |-> <<Set("foo", 0), Create("t1"), Cancel("t1"), Want(Join("t1"), CANCELED),
              Check("foo", 1)>>,
   t1 |-> <<Push("cleanup1"), Sleep, Pop(FALSE)>>,
   cleanup1 |-> <<Set("foo", 1)>>]

cancel_nested ==
  [main |-> <<Create("t1"), Cancel("t1"), Want(Join("t1"), CANCELED),
              Check("foo", 1), Check("foo1", 2), Check("foo2", 3), Check("foo3", 4),
              Leave>>,
   t1 |-> <<Push("cleanup1"), Push("cleanup2"), Push("cleanup3"), Push("cleanup4"),
            Sleep, Pop(FALSE), Pop(FALSE), Pop(FALSE), Pop(FALSE)>>,
   cleanup1 |-> <<Set("foo", 1)>>, cleanup2 |-> <<Add("foo1", 2)>>,
   cleanup3 |-> <<Add("foo2", 3)>>, cleanup4 |-> <<Add("foo3", 4)>>]

\* regression/pthread_exit-cancel.c
\* Mutant: the handler is popped and run before pthread_exit.
exit_cancel_popped ==
  [main |-> <<Create("t1"), Join("t1"), Check("foo", 1), Leave>>,
   t1 |-> <<Push("cleanup1"), Pop(TRUE), Exit>>,
   cleanup1 |-> <<Set("foo", 1)>>]

exit_cancel ==
  [main |-> <<Create("t1"), Join("t1"), Check("foo", 1), Leave>>,
   t1 |-> <<Push("cleanup1"), Exit>>,
   cleanup1 |-> <<Set("foo", 1)>>]

\* functional/pthread_cancel-points.c: a scenario of main(), whose aux
\* thread exists in the scenarios of pthread_join only.
\* Mutant: cancellation is not disabled while the thread waits for its turn.
wait_cancel_enabled(seq) == <<Wait(seq), Enable, Set("seqno", 1)>>

wait_cancel(seq) == <<Disable, Wait(seq), Enable, Set("seqno", 1)>>

cancel_point(prepare, execute, cleanup, value, seqno) ==
  [main |-> <<SemInit("s", 0)>> \o prepare
            \o <<Set("seqno", 0), Create("t1"), Cancel("t1"), Post("s"),
                 Want(Join("t1"), value), Check("seqno", seqno)>> \o cleanup,
   t1 |-> wait_cancel("s") \o execute \o <<Set("seqno", 2)>>,
   t2 |-> <<Wait("s2")>>]

prepare_sem(n) == <<SemInit("s2", n)>>
prepare_thread(n) == prepare_sem(n) \o <<Set("td_test", 1), Create("t2")>>
execute_thread_join == <<Join("t2"), Set("td_test", 0)>>
cleanup_thread == <<SkipIf("td_test", 0, 2), Post("s2"), Join("t2")>>

scenarios ==
  [points_wait0  |-> cancel_point(prepare_sem(0), <<Wait("s2")>>, <<>>, CANCELED, 1),
   points_wait1  |-> cancel_point(prepare_sem(1), <<Wait("s2")>>, <<>>, CANCELED, 1),
   points_timed0 |-> cancel_point(prepare_sem(0), <<TimedWait("s2")>>, <<>>, CANCELED, 1),
   points_timed1 |-> cancel_point(prepare_sem(1), <<TimedWait("s2")>>, <<>>, CANCELED, 1),
   points_join0  |-> cancel_point(prepare_thread(0), execute_thread_join, cleanup_thread,
                                  CANCELED, 1),
   points_join1  |-> cancel_point(prepare_thread(1), execute_thread_join, cleanup_thread,
                                  CANCELED, 1),
   points_shm    |-> cancel_point(<<>>, <<ShmOpen>>, <<>>, 0, 2)]

-----------------------------------------------------------------------------
(* regression/pthread_cancel-sem_wait.c: the four parts of main() *)

cancelIn(t) == <<Set("seqno", 0), Create(t), Cancel(t), Post("s"),
                 Want(Join(t), CANCELED), Check("seqno", 1)>>
start_sem_wait == wait_cancel("s") \o <<Ignore(Wait("s2")), Set("seqno", 2)>>
start_sem_timedwait == wait_cancel("s") \o <<Ignore(TimedWait("s2")), Set("seqno", 2)>>

cancel_sem_wait ==
  [main |-> <<SemInit("s", 0), SemInit("s2", 1)>> \o cancelIn("t1")
            \o <<Ignore(TryWait("s2"))>> \o cancelIn("t2")
            \o <<Post("s2")>> \o cancelIn("t3")
            \o <<Ignore(TryWait("s2"))>> \o cancelIn("t4"),
   t1 |-> start_sem_wait, t2 |-> start_sem_wait,
   t3 |-> start_sem_timedwait, t4 |-> start_sem_timedwait]

\* regression/pthread_cond_wait-cancel_ignored.c
cond_cancel ==
  [main |-> <<MutexInit("m", "normal"), Lock("m"), Create("t1"),
              WaitWhile("waiting", 0, "c", "m"), Cancel("t1"),
              TimedWaitWhile("waiting", 1, "c", "m"), Set("waiting", 0),
              Signal("c"), Unlock("m"), Want(Join("t1"), CANCELED)>>,
   t1 |-> <<Lock("m"), Set("waiting", 1), Signal("c"), Push("cleanup1"),
            WaitWhile("waiting", 1, "c", "m"), Pop(TRUE)>>,
   cleanup1 |-> <<Set("waiting", 0), Signal("c"), Unlock("m")>>]

\* regression/pthread_condattr_setclock.c
condattr_setclock ==
  [main |-> <<MutexInit("m", "normal"), Lock("m"),
              Want(CondTimedWait("c", "m"), ETIMEDOUT), Unlock("m"),
              MutexDestroy("m"), CondDestroy("c"), Leave>>]

-----------------------------------------------------------------------------
(* regression/pthread_once-deadlock.c *)

start(s) == <<Post(s), Once("init"), Post(s)>>
deadlocked(s, t) == <<Wait(s), Save(TimedWait(s), "r"), SkipIf("r", ETIMEDOUT, 1),
                      Join(t)>>

once_deadlock ==
  [main |-> <<SemInit("s", 0), SemInit("s2", 0), SemInit("s3", 0),
              Create("t1"), Create("t2"), Create("t3")>>
            \o deadlocked("s", "t1") \o deadlocked("s2", "t2")
            \o deadlocked("s3", "t3") \o <<Check("count", 1), Leave>>,
   t1 |-> start("s"), t2 |-> start("s2"), t3 |-> start("s3"),
   init |-> <<Add("count", 1)>>]

\* regression/pthread_rwlock-ebusy.c
rwlock_ebusy ==
  [main |-> <<RdLock, Create("t1"), Join("t1"), RwUnlock,
              WrLock, Create("t2"), Join("t2"), RwUnlock, Leave>>,
   t1 |-> <<Want(TryWrLock, EBUSY)>>, t2 |-> <<Want(TryRdLock, EBUSY)>>]

-----------------------------------------------------------------------------
(* functional/sem_init.c *)

single_thread ==
  [main |-> <<SemInit("s", 1), Wait("s"), GetValue("s"), Want(TryWait("s"), EAGAIN),
              Want(TimedWait("s"), ETIMEDOUT), Leave>>]

many_waiters ==
  LET body == <<Post("s"), TimedWait("s2")>>
  IN [main |-> <<SemInit("s", 0), SemInit("s2", 0), Create("t1"), Create("t2"),
                 Create("t3"), Wait("s"), Wait("s"), Wait("s"), GetValue("s"),
                 Post("s2"), Post("s2"), Post("s2")>>
               \o joinThem \o <<GetValue("s2"), Leave>>,
      t1 |-> body, t2 |-> body, t3 |-> body]

\* functional/pthread_tsd.c
tsd ==
  [main |-> <<SetSpecific("k1", "bar"), SetSpecific("k2", "bar1"), Create("t1"),
              Join("t1"), Check("foo", 1), Check("foo1", 1),
              CheckSpecific("k1", "bar"), CheckSpecific("k2", "bar1"), Leave>>,
   t1 |-> <<SetSpecific("k1", "foo"), SetSpecific("k2", "foo1")>>]

-----------------------------------------------------------------------------
(* Thread-local storage, shared objects, named semaphores. *)

\* functional/tls_init.c, with two threads in each of its two rounds
tls_checked == <<TlsCheck("tls_fix", 23), TlsCheck("tls_zero", 0)>>
tls_changed == <<TlsAdd("tls_fix", 1), TlsAdd("tls_zero", 1)>>
tls_round(t, u) ==
  <<Create(t)>> \o tls_changed \o <<Create(u)>> \o tls_changed \o <<Join(t), Join(u)>>

tls_init ==
  LET f == tls_checked \o tls_changed
  IN [main |-> tls_checked \o tls_round("t1", "t2") \o tls_round("t3", "t4"),
      t1 |-> f, t2 |-> f, t3 |-> f, t4 |-> f]

\* regression/tls_get_new-dtv.c, with three threads
\* Mutant: the loop ends one thread too early.
tls_get_new_dtv_early ==
  LET f == <<BarrierWait(4), Want(DlSym("mod"), 1), CallObject>>
  IN [main |-> <<Create("t1"), Create("t2"), Create("t3"), DlOpen("local", "mod"),
                 BarrierWait(4), Join("t1"), Join("t2")>>,
      t1 |-> f, t2 |-> f, t3 |-> f]

tls_get_new_dtv ==
  LET f == <<BarrierWait(4), Want(DlSym("mod"), 1), CallObject>>
  IN [main |-> <<Create("t1"), Create("t2"), Create("t3"), DlOpen("local", "mod"),
                 BarrierWait(4)>> \o joinThem,
      t1 |-> f, t2 |-> f, t3 |-> f]

\* functional/dlopen.c: h is "mod" and g is "r"; f() is i++ of dlopen_dso.c.  Left
\* out are the path that t_pathrel finds and the names looked up in lines 48 and 56.
dlopen ==
  [main |-> <<DlOpen("local", "mod"), Want(DlSym("mod"), 1), Check("i", 1),
              Add("i", 1), Check("i", 2),
              DlOpen("self", "r"), Want(DlSym("r"), 0),
              DlOpen("global", "mod"), Want(DlSym("r"), 1), Check("i", 2),
              DlClose, DlClose>>]

\* functional/sem_open.c: sem and sem2 are one address.
sem_open ==
  [main |-> <<Want(SemCreate("s", 1), 1), Want(SemCreate("s", 1), 0),
              Want(GetValue("s"), 1), Want(SemOpen("s"), 1), Wait("s"), GetValue("s"),
              Want(TryWait("s"), EAGAIN), Post("s"), Want(GetValue("s"), 1),
              SemClose("s"), SemClose("s"), SemUnlink("s")>>]

\* regression/sem_close-unmap.c
sem_close_unmap ==
  [main |-> <<Ignore(SemCreate("s", 0)), Ignore(SemOpen("s")), Ignore(SemUnlink("s")),
              Ignore(SemClose("s")), Ignore(Post("s"))>>]

-----------------------------------------------------------------------------

mutex_tests ==
  [relock |-> relock,
   relock_errorcheck |-> relock_alone("errorcheck", EDEADLK),
   relock_recursive |-> relock_alone("recursive", 0),
   unlock_errorcheck |-> test_unlock("errorcheck", EPERM),
   unlock_recursive |-> test_unlock("recursive", EPERM),
   unlock_other_errorcheck |-> test_unlock_other("errorcheck", EPERM),
   unlock_other_recursive |-> test_unlock_other("recursive", EPERM)]

other_tests ==
  [cond_signal |-> cond_signal, cond_many |-> cond_many,
   cond_broadcast |-> cond_broadcast, robust_lost |-> robust_lost,
   robust_consistent |-> robust_consistent, robust_exit |-> robust_exit,
   robust_detach |-> robust_detach, cancel_async |-> cancel_async,
   cancel_single |-> cancel_single, cancel_nested |-> cancel_nested, exit_cancel |-> exit_cancel,
   cancel_sem_wait |-> cancel_sem_wait, cond_cancel |-> cond_cancel,
   condattr_setclock |-> condattr_setclock, once_deadlock |-> once_deadlock,
   rwlock_ebusy |-> rwlock_ebusy, single_thread |-> single_thread,
   many_waiters |-> many_waiters, tsd |-> tsd]

opening_tests ==
  [tls_init |-> tls_init, tls_get_new_dtv |-> tls_get_new_dtv, dlopen |-> dlopen,
   sem_open |-> sem_open, sem_close_unmap |-> sem_close_unmap]

TestPrograms == mutex_tests @@ scenarios @@ other_tests @@ opening_tests

\* The tests that rely on more than the order of main()'s creations and joins
\* to keep their threads apart.
ApartByLocks == {"relock", "cond_many", "cond_broadcast", "cond_cancel", "once_deadlock",
                 "tls_get_new_dtv"}
\* The tests whose main() may end before it has joined all threads, or crash.
UntidyByDesign == {"relock", "relock_errorcheck", "relock_recursive", "robust_detach",
                   "points_join0", "points_join1", "once_deadlock",
                   "tls_get_new_dtv", "sem_open", "sem_close_unmap"}

\* The tests whose text alone does not tell that they use their mutex well: t1 locks
\* again what it holds, main() destroys a mutex that it could not lock or destroys
\* or leaves one it has locked, or once runs a routine.
CarelessByDesign == {"relock", "relock_errorcheck", "relock_recursive", "robust_lost",
                     "robust_consistent", "robust_detach", "once_deadlock"}
\* The tests that rely on more than joins and the mutex to keep their threads apart.
ApartByMore == {"relock", "cond_many", "once_deadlock", "tls_get_new_dtv"}

\* The theorems on discipline, tidiness and care are about all the other tests.
ASSUME DisciplineAssumption ==
  \A t \in DOMAIN TestPrograms :
    /\ Disciplined(TestPrograms[t]) <=> t \notin ApartByLocks
    /\ Tidy(TestPrograms[t]) <=> t \notin UntidyByDesign
    /\ Careful(TestPrograms[t]) <=> t \notin CarelessByDesign
    /\ DisciplinedBut(TestPrograms[t], Objects \cup Guarded(TestPrograms[t]))
         <=> t \notin ApartByMore

\* The bugs of the C library that a test finds whatever the interleaving.
TestBugs == [t \in DOMAIN TestPrograms |->
  CASE t \in DOMAIN mutex_tests -> {"type_ignored"}
    [] t \in {"cond_signal", "cond_many"} -> {"signal_lost"}
    [] t = "cond_broadcast" -> {"broadcast_to_one"}
    [] t \in {"robust_lost", "robust_consistent", "robust_exit", "robust_detach"} ->
         {"owner_death_unseen"}
    [] t \in {"cancel_single", "cancel_nested", "exit_cancel"} -> {"handlers_skipped"}
    [] t \in {"cancel_sem_wait", "points_wait1", "points_timed1"} -> {"cancel_if_blocked"}
    [] t = "points_shm" -> {"shm_open_cancels"}
    [] t = "cond_cancel" -> {"wait_not_cancelled"}
    [] t = "once_deadlock" -> {"once_again"}
    [] t = "rwlock_ebusy" -> {"try_succeeds"}
    [] t = "many_waiters" -> {"post_lost"}
    [] t = "tsd" -> {"destructors_skipped"}
    [] t = "tls_init" -> {"tls_shared", "tls_inherited"}
    [] t = "tls_get_new_dtv" -> {"dtv_not_extended"}
    [] t = "dlopen" -> {"local_is_global", "reinitialised"}
    [] t = "sem_open" -> {"mapped_twice"}
    [] t = "sem_close_unmap" -> {"unmapped_early"}
    [] OTHER -> {}]

=============================================================================
