# libc-test in TLA+

libc-test is a set of test programs for a C library together with what runs
them: a Makefile that builds every test and collects a report, a supervisor
(`runtest`) that bounds each test in time, and a small library of helpers
(`src/common`). The functions it tests are *not* part of the repository; they
belong to the libc that a test is linked with.

So the question this project asks is not whether a libc is right but whether the
verdicts of the suite can be believed:

* does PASS mean that every test ran and succeeded, and FAIL that one did not;
* is every test that hangs, crashes, stops or cannot be built reported as such;
* does a correct libc pass in every interleaving, and a libc with the bug that a
  regression test is about fail in every interleaving;
* does every run end, and leave nothing behind.

Paths below are relative to `src/`; line numbers refer to those files.

| Part | Modules | TLC | TLAPS |
|---|---|---|---|
| Supervisor, `src/common/runtest.c` | TestVerdict, RunTest, RunTestProofs | 2 runs | all safety properties, refinement |
| `Makefile` | Build, MCBuild, BuildProofs | 3 runs | all safety properties |
| Barrier test, `src/regression/pthread_cond-smasher.c` | PhaseBarrier, CondSmasher, CondSmasherProofs | 1 run | all safety properties, refinement |
| Thread, TLS, dlopen and named-semaphore tests | PosixCalls, PosixThreads, ThreadDiscipline, LockDiscipline, ThreadTests, PosixThreadsProofs | 1 run | types, nothing undefined (misuse, races), nothing left |
| Process, signal and System V tests | Processes, ProcessDiscipline, ProcessTests, ProcessesProofs | 2 runs | types, nothing left |
| Math drivers, `src/math/*.c`, `src/common/mtest.*` | Ulps, MathVerdicts, MathDrivers, MathTest, MCMathTest, MathTestProofs | 1 run | all safety properties |
| Resource exhaustion, `src/common/*fill.c`, four tests | MemFill, MemFillProofs | 1 run | all safety properties |
| Random choices, `src/common/rand.c` | Choose, MCChoose, ChooseProofs | 1 run | all safety properties |

## 1. Inventory

### Modelled

**runtest** (`src/common/runtest.c`). *State*: signal mask and disposition of
SIGCHLD, pid and wait status of the child, `timeout`, `t_status`, the lines on
standard output. *Operations*: `main()` and `start()`, i.e. parse the options,
block SIGCHLD, fork/exec, `sigtimedwait`, `kill`, `waitpid`, write the verdict.
*Interacts* with the kernel (signals, the timer, reaping) and with the test; its
only output, lines with FAIL in an `.err` file, is what the Makefile reads.
*Hard*: the test ends between fork and wait, or between deadline and kill; it is
stopped and continued; SIGCHLD is ignored when runtest starts; runtest itself is
stopped and continued. *Correct when* the report is true, the kill hits only a
late child that is not yet reaped, and a verdict is reached.

**Makefile.** *State*: which files exist and which are out of date, the contents
of the `.err` and `REPORT` files, what make has decided about a target in this
session. *Operations*: compile, link, run a test, concatenate reports, remove
`.err` files, clean up, print PASS or FAIL. Every recipe hides its exit status
(`|| true`, `|| echo BUILDERROR`), so that one failure does not stop the others
and all information has to flow through files. *Hard*: parallel recipes, static
and dynamic binary of an IPC test that share a System V key, sessions that follow
each other with edits in between, a killed make. *Correct when* PASS is real, a
failure does not interfere with other tests, the two binaries of a test never
run together, `run` runs tests again, and no session waits for ever.

**Thread tests** (`pthread_*`, `sem_init`, `tls_init`, `tls_get_new-dtv`,
`dlopen`, `sem_open` and relatives, 20 files, 38 parts). *State*: mutexes,
condition variables, semaphores, barriers, reader-writer locks, thread-specific
and thread-local data, a loaded object, the cancellation state of each thread,
the variables of the test, `t_status`. *Operations*: the sequence of libc calls
of each thread with the result the test expects. *Hard*: all of it is
interleaving; timers that decide that a thread is deadlocked, cancellation,
robust mutexes, spurious wakeups, objects on the stack of a function that returns
while a thread is left deadlocked on them. *Correct when* no correct library fails, no
bug that the test is for is missed, POSIX leaves nothing the test does
undefined, no race, no thread left behind, and the test ends.

**pthread_cond-smasher** is one such test that is large enough for modules of
its own: main leads its clients through rounds of a barrier with one mutex per
round. *Correct when* nobody enters a round before it is opened, it is opened
only when everybody is inside, and the test passes exactly if the library works.

**Process tests** (`raise-race`, `fcntl`, `popen`, `vfork`, `ipc_sem`, `ipc_msg`,
`ipc_shm`, `fflush-exit`, `daemon-failure`, `pthread_exit-dtor`). *State*:
processes with their memory, pending signals and wait statuses; a System V
object, a record lock, a pipe and a file that processes share. *Hard*: the fork
may fail or happen in a signal handler; runtest may kill the test, but only its
first process, at any moment; the static binary of an ipc test follows the
dynamic one with the same key. *Correct when* every verdict is right, a test that
passes leaves nothing, not even what a killed run before it has left, and every
run ends.

**Math drivers** (196 files of `src/math` with `mtest.c` and `mtest.h`). *State*:
rounding mode and exception flags of the processor, the number of errors.
*Operations*: the loop over a table of vectors, `ulperr`, `checkexcept`,
`checkulp`, `checkcr`. *Hard*: flags are sticky and the driver computes itself;
comparisons with NaN; infinities in a distance; a different tolerance in almost
every driver. *Correct when* a call that does what its vector says is never an
error and a blunder of the function is never passed over in silence.

**Resource exhaustion** (`vmfill.c`, `memfill.c`, `setrlim.c`; `malloc-oom`,
`malloc-brk-fail`, `setenv-oom`, `pthread_create-oom`). *State*: the holes of the
address space, what malloc has in reserve, the search of `mmax`. *Hard*: a binary
search whose step and size change together; a kernel that refuses a mapping it
has just granted. *Correct when* no page is left, and the test tells a library
with the bug from one without.

**rand.c.** *State*: the arrays `p` and `tab` while numbers are chosen.
*Operations*: `t_randn`, `t_randint`, `t_randrange`, `t_choose` with its four
ways to choose, `shuffle2`, `insert`. *Hard*: modular arithmetic at the boundary
(a range of 2^64 numbers), a hash table probed without a bound. *Correct when*
the numbers are unique and in range, uniform, and every call returns.

**How they interact.** make runs runtest, runtest the test, and each hands on one
bit: RunTest shows that the FAIL line is there exactly for a test that did not
exit with 0, Build that a FAIL line of any test reaches the verdict, and the
modules about tests that the exit status says whether the library is correct.
`TestVerdict` is what Build takes from runtest: `EndTest` writes a line or not,
in one step. Processes has runtest's kill as an action of its own, since what a
killed test leaves matters to the next.

### Not modelled

| Part | Reason |
|---|---|
| math vectors (`src/math/{crlibm,sanity,special,ucb}/*.h`, 85,846 of the repository's 113,330 lines) | data: numbers, one vector a line. No model of them could be shorter than they are. For this reason alone the map covers a small share of all lines; of the 27,000 other lines it covers 9,000. |
| generators of vectors (`src/math/gen`) | offline tools around multi-precision libraries that are not in the repository; nothing of them runs in a test |
| string, stdio, stdlib, time, locale, regex tests, pleval, fenv.c, fpclassify.c, isless.c | inputs and expected outputs of one call after another in one thread; the behaviour tested is the libc's, so a model would repeat the table |
| execle-env, sigprocmask-internal, sigaltstack, sigreturn, setjmp, socket, pthread_atfork-errno-clobber | the same, for calls about processes and signals |
| spawn.c | line 70 initializes `char **` with a string, so that the program has no defined behaviour |
| tls_align*.c, tls_local_exec.c, tls_init_dlopen.c | compare addresses that the linker chose, or one string |
| search_*.c, qsort.c | the algorithms are the libc's, see also "Observations" |
| fdfill.c, rlimit-open-files.c | count descriptors up to a limit |
| errors of calls that the tests and helpers only pass on | `t_setrlim` (`runtest.c:23`, `setrlim.c:10-23`), lock, signal and join in `pthread_cond-smasher.c`, `pipe`, `dup` and `tmpfile` in `daemon-failure.c` and `fcntl.c`: a line and status 1 |
| rounding of `ulperr` itself | its few operations run in the mode of the vector; `Ulps` computes exactly |
| print.c, `rtrace_*` | formatting; the log that `rtrace_printf` appends to is read by no program of the repository, so that there is no promise to check |
| api tests | compile-time checks; no behaviour at run time |
| path.c, utf8.c, options and config fragments, libtest.a, shared objects | formatting; variables and further prerequisites of rules that Build has |

## 2. Plan

The order of work, from the verdict inwards: supervisor, build, the tests that
are concurrent, the helpers that tests rest on. All of it is done:

1. TestVerdict and RunTest; PhaseBarrier and CondSmasher; Build: with proofs.
2. PosixThreads as one library for all thread tests, ThreadTests as data for it;
   Processes and ProcessTests in the same way. Proofs for arbitrary programs: types,
   and what follows from the text of a test alone (ThreadDiscipline, LockDiscipline,
   ProcessDiscipline).
3. MemFill, MathTest, Choose: sequential, but with arithmetic at its limits; with
   proofs, because what matters is that they hold beyond the small instance.

What could be added: a discipline for verdicts, i.e. which check of a test cannot
fail; one for barriers and `pthread_once` as `ThreadDiscipline` and `LockDiscipline`
are for joins and the mutex; the body of Build's `EndTest` as RunTest,
instead of the abstract verdict that RunTest is proved to implement; the rules for
libtest.a and shared objects, which have the form of those that are there.

## 3. Modules and how they correspond to the code

### TestVerdict, RunTest

`TestVerdict` is the promise: a test ends in some way, then one verdict is
given, which is a failure unless it ended with exit status 0; a test that cannot
be started is a failure too.

`RunTest` has one variable per piece of state of `main()` and of the kernel
between runtest and the child. One action is one system call:

| Action | Lines | |
|---|---|---|
| ParseArgs, SetMask, Start | 51-75 | options as accept or reject; SIGCHLD blocked, handled; fork or its failure |
| SigTimedWait, GotChld, TimedOut, Interrupted | 76-80 | the call, and its three ways to return |
| Kill, Waitpid, Verdict | 81-99 | |
| Exec, TestEnds, TestStops, TestContinues | 17-33 and the test | the child: `start()` up to `execv`, then the test |
| Die, Expire | kernel | a dead child becomes a zombie and SIGCHLD is sent; the timer |

The end of the child takes two steps, because `kill` may come between them and
then changes nothing. A `SIGCHLD` for a stop is sent since `signal()` (line 69)
does not set SA_NOCLDSTOP. `sigtimedwait` prefers a pending signal to its timer.

### PhaseBarrier, CondSmasher

`PhaseBarrier` is a barrier: a client arrives at round *i* only when round *i* is
open, the round is opened when all have arrived. `CondSmasher` has the globals of
the test (`phase`, `inside`, the owner of each mutex), the loop variable and
program point of each client and of main. A condition wait unlocks and blocks in
one step; leaving it takes a wakeup (a signal, nothing at all, or the timeout)
and then the mutex. `platform` says what the test runs on: a correct library
with which no wait lasts 500 ms, a slow machine, or a library that loses wakeups
and may fail to create threads. `Barrier` maps `arrived` to the number of rounds a client has
entered and `opened` to `phase`.

### Build, MCBuild

The rules of the Makefile for one directory as a graph (`Prereqs`, from lines
57-60, 83-86 and 98) and make as the algorithm that walks it: a target is looked
at when its prerequisites are settled (`Ready`), in the order make takes
(`InTurn`); it is remade if it is missing, older than a prerequisite, or
something it needs was remade. `StartJob` empties the output file as the shell
does before the recipe runs; `EndCompile`, `EndTest`, `EndReport` and
`EndCleanErr` are the recipes. `Clean` is a session with one of the goals clean,
cleanall and `<dir>/clean`, which may be interrupted and then has removed only
some of the files. `Edit` changes a source between two sessions, `KillMake` ends
make and its jobs at any point. `result` is a history variable: what really
happened to each binary in its present version. `MCBuild` has the directories and
sessions that TLC looks at, one record each.

### PosixCalls, PosixThreads, ThreadDiscipline, LockDiscipline, ThreadTests

`PosixCalls` is the vocabulary of the tests, one operator per call. `PosixThreads`
is an interpreter for threads that make such calls: `Step(t)` is the next call
of thread *t*, `TimerRunsOut(t)` the end of a timed wait. It models the library,
which is external to the repository, from how the tests use it, with exactly the
object kinds they use, including robust, error-checking and recursive mutexes,
deferred and asynchronous cancellation with cleanup handlers, `pthread_once`,
barriers, keys, thread-local variables, one shared object (`dlopen` and `dlsym`
with local and global scope) and one named semaphore. `Crashes` is a thread that
touches what is not mapped. `FrameLeft` is the return of a function with automatic
objects (`Leave`): it is a misuse if a thread still works with them or the mutex is
locked, and a thread that sleeps on that mutex is `stranded`, since the next call makes
a new mutex in the same place that knows nothing of it. So `relock` is the three calls of
`test_relock` as main() makes them, the second in the frame that the deadlocked thread of
the first still refers to, and `robust_detach` is both calls of f(). A condition wait
may be woken by nothing in every test. `ThreadTests` gives the programs, call by call, with
the names of the source where it has names, and for each test the bugs of the
library it looks for (`TestBugs`). One behaviour is one test with a correct
library or with one of these bugs.

A thread that exits or is cancelled goes on with one call `Pop(TRUE)` for each
cleanup handler on its stack, and then ends.

`ThreadDiscipline` says what can be read off the text of a test. `Disciplined`: main()
alone creates threads, and joins each before it does what conflicts with it, on
every way through its ifs. `Tidy`: main() joins every thread on every way to its
end, is not cancelled and cannot crash. `DisciplineAssumption` of ThreadTests,
which TLC evaluates, says which tests are so: 32 of the 38 parts are disciplined
and 28 are tidy. The rest of the module are the invariants that such a test keeps.

`LockDiscipline` adds the mutex, the condition variable and the barrier. A routine
locks and unlocks straight on, and so its text has a *mode* before each call
(`InMode`): `free`, `held`, or `guarded` (held, with a cleanup handler pushed that
unlocks). `Allowed` says which call may be made in which mode, e.g. a condition wait
only when the mutex is held, and the end of a worker only when it is not; a mutex that
notices a wrong unlock (`Tolerant`) allows more. `Careful` is: each routine keeps to its
modes (`LocksWell`); main() does not make or destroy the mutex or the condition variable
while a thread runs that uses it (`DisciplinedBut` with the objects taken for
variables); and if it destroys the barrier all have met at it before (`MeetsOnce`).
`Guarded` are the variables that the text uses in `held` or `guarded` only.
`DisciplineAssumption` says that 31 of the 38 parts are careful, and that 34 keep their
threads apart by joins and the mutex. The return of a function is to its objects what
`pthread_mutex_destroy` is to the mutex: main() may make it when no thread uses them.
Not careful are the three relocking tests, whose thread locks what it holds;
`pthread-robust-detach.c`, which leaves a locked mutex; two parts of
`pthread_robust.c`, where main() destroys a mutex that it could not lock or has
locked; and the test with `pthread_once`.

Attribute objects, `rtrace_*` output, the EINVAL checks of
`pthread_condattr_setclock.c`, `sem_destroy`, and of `dlopen.c` the path that
`t_pathrel` finds and the names in lines 48 and 56 are left out. In
`pthread_once-deadlock.c:59-61` the argument of each thread is a compound literal
inside the `if` of the macro T, whose lifetime ends with that statement (C99 6.8.4);
the model takes it to stay what it is until main() returns.

### Processes, ProcessDiscipline, ProcessTests

The same division for tests that fork. An actor is a slot for a thread, used again
when its thread has been joined or its process reaped. A thread belongs to a
process, which is named by its first thread; the memory of a process (exit
status, variables, the id of the object, buffered output, the handler of
`atexit`) is kept under that thread and copied by fork; exits run the handlers that were registered, wake the parent and release the record lock.
Signals are queued per thread and handled before any call of it. With a correct
library `raise` is one step; with `raise_not_atomic`, the bug that `raise-race.c`
is about, a signal that forks may be handled between the step that finds out which
thread this is and the step that sends.
`TimeIsOver` is runtest's kill of the first process, and only of that one,
`StartsStatic` make's start of the static executable over whatever the first run
left. With `fork_fails` every fork may fail or not.

`ProcessDiscipline` says what can be read off the text of a test that leaves
nothing (`Tidy`): main() alone forks, and waits for each child before it forks
again or can end; it unlinks the file after it was made or may have been written;
the System V object is removed by a child, whose exit status main() checks. All
ten tests but `raise-race.c`, which forks in a signal handler, are tidy
(`DisciplineAssumption` of ProcessTests, which TLC evaluates; without the wait in
`forkAndWait` it is false). `Tidiness` is the invariant of such tests.

### Ulps, MathVerdicts, MathDrivers, MathTest, MCMathTest

`Ulps` is `mtest.c` and `mtest.h` over a small floating-point format: numbers are
multiples of the smallest subnormal, errors are counted in quarters of an ulp, so
that all arithmetic is of integers and exact. `MathVerdicts` has the ways in which
the drivers differ: seven ways to compare the flags, ten to compare results, and
what is tolerated, i.e. printed with an X in front and not counted. `MathDrivers`
says for each of the 196 files which of them it has (`acos == Accurate`).
`MathTest` is the loop they share, with the processor's rounding mode and flags as
state that every floating-point operation may change, including those of `printf`
and `ulperr` (`FpuUsed`). `CallsAssumption` says what holds of all 83,494 vectors of
`crlibm`, `sanity`, `special` and `ucb`: the expected value is within half an ulp of the
exact one to nearest, within one ulp in the directed modes (2,311 vectors are a whole
ulp off), and exact unless it is a number. Each vector comes with a call that returns and raises
exactly what the vector says, or something else in one respect.

### MemFill

One action per round of the loop of `mmax` (`Probe`), its result (`Found`), the
mapping that `t_vmfill` makes of it (`Map`), then what the test does: `CheckFilled`,
`Limit`, `Drain` (`while (malloc(1));`), and the call that must fail. Addresses are
pages, sizes half pages, since the last step of `mmax` adds or subtracts half a
page before the size is rounded. The kernel places a mapping anywhere it fits. A
*flaky* kernel may also refuse one, as another process may take the memory in
between. `brk` always fails, since `t_setrlim(RLIMIT_DATA, 0)` comes before every
`malloc` whose result counts; `mmap` is not subject to this limit.

### Choose, MCChoose

`t_choose` as a loop per `pc` ("select", "pick", "shuffle", "size", "insert" with
its inner loop "probe", "copy"), one action per round. The generator may return
any word at any time, so every draw is a `\E` over `Draws(m)`, which is what
rejection of words and the modulo of `t_randn` leave. The largest word and the
thresholds 16, 8, 5 and 16 of the code are constants.

## 4. Runs

Every property of a passing run has a mutant in `PROJECT.json`: a plausible bug
in a mapped definition with which TLC finds that property violated.

| Run | Instance | Distinct states | Shows |
|---|---|---|---|
| `runtest` | statuses 0, 1, 2; stops and job control on | 293 | the verdict is true and agrees with the exit status (ReportIsRight), the kill is late and hits the child only (KillsRightly), no SIGCHLD is lost, TestVerdict is implemented; a test that is never stopped gets its verdict |
| `runtest_stopped_test` | the same, no job control | violation | finding 1 |
| `smasher` | 3 clients, 3 rounds; spurious wakeups, on three platforms | 24,659 | rounds are entered by permission only, one mutex at a time and no race (DefinedUse), success is never an accident, the process exits; with a correct library the test passes and is a barrier that makes progress |
| `build` | tests a and b, a static too, 2 jobs, 2 sessions with edits; test a with reruns and killed sessions, 1 job; test a with clean-ups, 3 sessions | 101,118 | PASS is real, one failure does not keep others from being run, static and dynamic binary never run together, `<dir>/run` reruns every dynamic test, sessions end from whatever is left |
| `build_run` | test a, 1 job, goals `all` and `run` | violation | finding 2 |
| `build_harness` | tests a and b; `runtest.exe` may fail to build | violation | finding 3 |
| `thread_tests` | 38 parts, up to 5 threads; all interleavings, early timers, spurious wakeups, frames left and used again | 22,182 | no false alarm, no missed bug, no undefined use and no race (NoUndefined), nothing left, every test ends |
| `process_tests` | 10 tests, up to 4 threads at a time in all processes; killed at any moment, run again over what is left | 16,032 | no false alarm and no missed bug (RightVerdict), nothing left by a test that passes, not even what an earlier run left, and every run but that of raise-race.c ends |
| `raise_race` | raise-race.c by itself | violation | finding 4 |
| `math` | tables of up to 2 vectors; 7 results, 3 modes; some 20 calls for each | 494,536 | no driver errs about an exact call or passes over a blunder (RightVerdict); `ulperr`, which halves to avoid overflow, measures the distance |
| `memfill` | 6 pages with every pattern of holes, sound and flaky kernel, 4 tests with and without their bug | 280,399 | each time the largest hole is filled, and none is left; the tests' verdicts are right; the search ends |
| `choose` | words 0..15; thresholds 5, 3, 3, 4; 195 calls | 40,234 | unique numbers in range, no division by zero, no index outside of an array, uniform, every call returns |

**Why the bounds are enough.** The supervisor has one child and no counter, so
its run is complete; three statuses distinguish success, the status of a failed
`execv` and another one. The smasher needs three rounds (first, middle, last) and
three clients (one waiting, one leaving, one entering); the proofs remove both
bounds. Two tests show interference between tests, one of them static shows the
order of the two binaries; two sessions show what a session leaves to the next,
three that something is built, cleaned and built again. The thread tests are finite
as they stand and are not scaled down except for the length of sleeps, which take
any time, and the number of threads that do the same: two instead of five in each
round of `tls_init.c`, three instead of ten in `tls_get_new-dtv.c`. In
`raise-race.c` two raises and two forking signals stand for 1000 and 100: what it
can get wrong is the order of one raise and one fork, the second of each is what
comes before or after. Two rounds of a test with a key are its dynamic and its
static executable. Two vectors show what one leaves to the next; the format has
subnormals and three binades, and `MCMathTest` puts vectors at zero, at the
largest number and in between. Six pages give every combination of up to three
holes, the sizes run over all powers of two up to more than the address space.
The thresholds of `Choose` are scaled so that the calls reach each way of
`t_choose` at and around the condition that selects it, the shuffle with either
array larger, and a hash table with collisions; words of four bits reach the wrap
of a range of all words. For the last four modules the proofs show that nothing
depends on the bounds; for the thread and process tests they show it of the types,
of misuse, of races and of what is left, but not of the verdicts.

**Exceptions stated in the properties.** After a `sigtimedwait` that was
interrupted (`EINTR`, line 80) runtest kills a test that is not late, so
ReportIsRight and KillsRightly except it; the report then says "sigtimedwait
failed". In the thread tests NoUndefined excepts

* `pthread_mutex.c:58`, which returns while t1 is deadlocked on the automatic mutex and
  refers to the semaphore and the result, and line 143, whose call reuses that frame;
* `pthread-robust-detach.c:51`, which returns with its automatic mutex locked;
* `pthread_robust.c:74-75`, which destroys a mutex that main() holds;
* `pthread_cond.c:102`, which writes `foo[0]` without the mutex;
* after an early timer only, what `pthread_mutex.c` and `pthread_once-deadlock.c` do when
  they take a thread that is at work for deadlocked: leave objects that it uses, read
  `count` (line 65) while it writes.

NothingLeft excepts the thread that is left deadlocked on purpose, and the detached
ones. A test that a timer fooled (`late`) is not a false alarm: `pthread_mutex.c`
decides after 100 ms that a thread hangs and a machine can be slower than that.
After a wakeup by nothing, which POSIX allows, `pthread_condattr_setclock.c:45` reports
an error (an exception of NoFalseAlarm), and the first part of `pthread_cond.c`, which
waits outside a loop and then joins the signalling thread with the mutex locked
(lines 69-73), hangs with a correct library (an exception of Ends); it may also stand in
for a wakeup that a faulty library has lost (an exception of FindsBug). TLC finds each of
these properties violated if one of its exceptions is taken away. In Processes an
orphan, a child that runtest did not kill with its parent, may disturb the next
round, `fcntl.c:38` does not look at the result of fork and then judges an
uninitialized status, and `raise-race.c:50` ignores the exit status of a child.
In MathTest RightVerdict leaves out the drivers that let a NaN pass (`Unjudged`). In MemFill `malloc-brk-fail.c` does not use up what malloc has in reserve (as
`t_memfill` does), so that it fails with a library that can still serve 10000
bytes. A hazard in `PROJECT.json` without properties is such an exception: it
happens in this code, and the property that would exclude it names it instead (or, for
`Makefile:78`, is claimed for one job only, see below).

**What does not hold with several jobs.** With

    Setup({"a"}, {"run"}, 2, FALSE, FALSE, 1)

among the sessions of MCBuild, `make -j2 run` on a fresh tree, TLC finds PassIsReal
violated: `cleanerr` (line 78) runs beside the tests, unlinks the `.err` file of a
test in progress, the FAIL line goes to a file without a name, and make prints
PASS. The documentation does not speak of `-j` with `run`, so this is a hazard in
`PROJECT.json` rather than a finding; the proofs assume one job for that goal, and
RunReruns is claimed and proved for one job. A target whose recipe was killed is not counted
either (`cut`): a killed session leaves an empty `.err` file that the next one takes
for a pass.

**Deadlock** is checked in all runs but `choose` and `math`, where a call returns or
a driver exits and nothing follows. The other modules have an explicit step
(`Finished`, `Rest`, `Stopped`, ...) for states in which everything has ended, so
that every other state without a successor is an error.

### Fairness

* RunTest: weak fairness of runtest, of the kernel's teardown of a dead child,
  and of the timer. Nothing is assumed of the test, which may hang.
* CondSmasher: a mutex that is freed again and again is obtained eventually
  (strong fairness of locking threads); a thread that can run does; timed waits
  end. Spurious wakeups are not fair, and AlwaysExits assumes that they do not go
  on for ever, as each one starts the timeout again.
* Build: make works on; every recipe ends, which for tests is what runtest is
  for (`FinishesUnlessStopped`).
* PosixThreads: strong fairness of each thread (same reason), weak fairness of
  the timers.
* Processes: weak fairness of each thread and of make's next start. `TimeIsOver`
  is not fair: a test that ends only because it is killed violates `Finishes`.
* MemFill: the test, a single thread, goes on as long as it can.
* Choose: a call is executed to its end, and a number that has not been chosen
  yet is drawn again and again. The generator is a 64-bit linear congruential
  generator of full period, so every word it can return does come up.

## 5. Findings

Disagreements of the code with what the repository says of it, each shown by a
counterexample of the run named.

1. `runtest_stopped_test`. A test that is *stopped* sends the SIGCHLD that
   `sigtimedwait` waits for. runtest goes on to `waitpid`, which is unbounded
   (`runtest.c:76-84`), while README:52-53 says that it "kills the test process
   after a timeout".
2. `build_run`. On a built tree `make run` runs nothing: the rule with the recipe
   (`Makefile:120`) has make look at REPORT before `cleanerr` removes the
   results, although "run reruns the dynamically linked executables"
   (README:71-72). `make <dir>/run` does rerun them (`build`).
3. `build_harness`. If `runtest.exe` cannot be built, every `.err` file is empty
   and make prints PASS; "build failure, crash or unexpected results are all
   failures" (README:23).
4. `raise_race`. A child of `raise-race.c` that is forked while its parent waits
   in line 45 for the rest of the signals goes on in that loop, gets none and
   never ends; the parent waits for it (line 47). The test hangs with a library
   whose `raise` is "robust against async fork in a signal handler"
   (`raise-race.c:3`); "test results should be robust" (README:25).

### Observations

Seen while modelling; no statement of the repository contradicts them.

* In `tgammal.c`, `lgammal.c` and `lgammal_r.c` the comparison `fabs(d) > 2` is
  false for a NaN, and is made only when rounding to nearest: with these three a
  NaN passes for a number (`Unjudged` in MathTest).
* `cos.c`, `sin.c`, `tan.c`, `sinh.c`, `sinhl.c` and `sinhf.c` tolerate any error in
  the directed modes: a line with an X, and exit status 0, although "on success no
  message should be printed" (README:37-38).
* No driver looks at the result of `fesetround`; drivers for `long double` have
  empty tables where `LDBL_MANT_DIG` is 113 and pass there.
* `search_tsearch.c` reports an error if `h` is at the root of the tree (lines
  147-153), although POSIX leaves the shape of the tree to the library.
* `rtrace_printf_init` truncates the log that all tests of a directory append to;
  `env.c:30` begins a record twice and ends it once.
* `pthread_once-deadlock.c:59-61`: the compound literals that the threads read may be
  gone when they do (see PosixThreads in section 3).
* The ipc tests allow five seconds between their call of `time` and the times of the
  object (e.g. `ipc_sem.c:66-69`); a machine that is slower fails with a correct kernel.
* Further places that tests would hardly reach, left out of the list of hazards: the
  500 ms of `pthread_cond-smasher.c:103`; `rand.c:141` for *n = k*, where `malloc(0)` may
  return a null pointer.

## 6. Proofs

All proof modules are checked by `tlapm` with Z3, Zenon and LS4; nothing is
assumed but the named assumptions on the constants.

**RunTestProofs** (`StatusesAssumption`). `IInv` adds to the type invariant

* `ChildInStep`: where the child can be for each point of `main()`. It needs
  `disp`: only because SetMask comes before the fork does a dead child stay a
  zombie until `waitpid`, so that it is reaped once;
* `ReportSoFar`: there is no FAIL line before the verdict, and `t_status` is
  still 0 unless the wait was interrupted. ReportIsRight looks only at the end and
  is not inductive without it;
* `KillHasReason`: the kill, and the wait status it leaves, come from the
  deadline or an interrupted wait; gives KillsRightly.

`NoLostChldHolds`, an action property, needs one more invariant (`ChldPending`: a
zombie has its SIGCHLD pending as long as runtest has not taken it, because the
signal is blocked). `QuietStep` treats once all the steps that write nothing.
`VerdictRefinement` shows that each step is a step of TestVerdict or a stutter
(without the fairness conjunct).

**CondSmasherProofs** (`ThreadsAssumption`, `PhasesAssumption`,
`SwitchAssumption`). For any finite set of clients, any number of rounds, every
platform. `IInv` adds `Counted` (`inside[i]` is the cardinality of the set of clients
that have entered round *i*), `Owned` and `MainOwned` (who holds which mutex at
which program point), `InStep` and `MainInStep` (how far clients and main can be
apart) and that everybody is inside when a round is opened. The central argument is
at `locknext`: `inside[phase]` equals the number of clients, so the set of those that
have entered is the set of all, so each is blocked. There is one lemma per action.
The theorems are of the specification without fairness (`Safe`), which `Spec` implies.

**BuildProofs** (`SetupsAssumption`). For any set of tests, static or not, any
number of jobs, sessions, edits and clean-ups. Type correctness and
DynStaticExclusive need only that a target is touched when its prerequisites are
settled (`Order`). PassIsReal and NoInterference are proved under `Orderly`:
`runtest.exe` can be built and `run` is used with one job; findings 3 and the `-j`
run above show why. `IInv` says of the files that are not older than what they
depend on, and were not cut short, that they tell the truth: an `.err` file has a
FAIL line exactly for a failed test, a report the FAIL lines of what it was made of.
Two steps endanger it: a rebuilt binary, whose results become older at once, so
that REPORT must wait for them; and `cleanerr`, which with one job comes after
REPORT is settled, so that the verdict still stands. `RunRerunsHolds`, an action
property, is about `<dir>/run`, where `cleanerr` comes first: with one job no result
exists when make looks at it, so each is remade. Sessions with the goal `run` are
excluded by a hypothesis, as finding 2 refutes the property for them.

**MemFillProofs** (`SizesAssumption`, `ReservesAssumption`). The invariant of `mmax`
is a bracket: whatever is at most *n - i* fits, nothing of *n + i* or more does, and
both end at half pages, so that rounding *n* down at the end gives the largest
size. `n - i/2` keeps it when *n* is refused, `n + i/2` when it fits, and *start*
needs care: it is lowered only when its double does not fit, and no hole grows. With
a sound kernel the mapping of `t_vmfill` then always succeeds and, as it is the
largest, comes in decreasing size; the loop ends with no page free, and hence
malloc must fail once its reserve is used up (`RightVerdictHolds`).

**MathTestProofs** (`FormatAssumption`, `CallsAssumption`, `DriversAssumption`). For
every format of this kind, meaning of INEXACT, table and way to judge, also those
that no driver has. The flags that are judged are those of the call
(`OwnEnvironmentHolds`): they are cleared after the last operation of the driver.
An exact call has an error of less than one ulp and so no judgement is against it;
a blunder gives an error that is infinite or not a number, which is below no bound, or
flags that no comparison takes as equal. `UlperrIsDistanceHolds`: what `ulperr`
returns is below a bound of a driver exactly if the true distance is. Where it
halves both numbers the halves are exact or the result is so far off that no bound
is near; this takes normal numbers of three bits or more (`Normal >= 4`; the formats
of C have 24 and up).

**ChooseProofs** (`ChooseAssumption`). Selecting, picking and
shuffling keep the cards apart (`Dealt`: the two arrays together hold each card
once). For the hash table it must be shown that `insert`, when it stops at an empty
slot, would have met the number if it were stored. Round *g* for *w* looks at slot
*(w + g(g-1)/2) mod len*, a closed form instead of an induction; every stored number
has all slots before its own on that path filled, and slots are never emptied. The
copy writes as many numbers as slots were filled, which is *k*. For Uniform the
words that are accepted, a multiple of the range's size, are mapped onto each other
by adding the difference of two numbers; the range of all words is its own case.

**PosixThreadsProofs** (`ProgramsAssumption`: each call of a program names routines
and objects that exist; `TestsAssumption`). For any programs made of the calls of
`PosixCalls`, any library with or without the bugs, early timers and spurious
wakeups. `TypeCorrect` has one lemma per action; it says among other things that a
mutex is counted exactly while it has an owner and that a thread that is blocked
is in a call. The other theorems have the program's text as their hypothesis.
`RaceFreedom` and `NothingLeftHolds` (`Disciplined`, `Tidy`) have a common invariant:

* `BlockedInWait`: a blocked thread is in a call that blocks;
* `MainInPlace`: main() has a final piece of its text before it, so that "how far it
  is" makes sense although it jumps;
* `WorkersInPlace`: a thread runs its routine and the handlers it pushes;
* `JoinsAhead`, `WorkersApart`: main() still has the join of a thread before what
  conflicts with it, and threads that run together do not conflict. This gives the
  absence of races, as two calls that race would be made at the same time;
* `AllWillBeJoined`: on every way from here to its end main() joins every thread. So no
  worker is left when main() has returned, which `NothingLeftHolds` says with any bug of
  the library and early timers too; NothingLeft, which all tests are checked for, asks
  it of a correct library and good timers only.

Most steps are `Quiet`: they leave every thread in its place or take it one call
on. The eight kinds of calls that change more (`Leaps`) have lemmas of their own.

`NoMisuseHolds`, `LockedRaceFreedom` and `NoUndefinedHolds` are about careful tests with
a correct library. Their invariant adds:

* `ModesKept`: each thread that works is in some mode in which what it has still to do
  is fine, and it holds the mutex exactly in the modes that hold it (if the mutex is
  tolerant, at most then). A thread that waits on the condition variable counts as a
  holder, as it will not go on before it has the mutex again. A thread that is cancelled
  leaves its routine for its handlers; it is in `guarded` then, or holds nothing;
* `MutexKept`: the owner runs or is at the barrier, and has locked once; the mutex has a
  type that main() gave it, unless nobody can have used it yet or main() is at its end;
* `MeetingKept`: each thread comes to the barrier at most once. When main() is past it,
  so is everybody, because a barrier opens for as many threads as could ever come.

A mode is a statement about text that has not run yet, so a step of the thread itself
only takes it on (`TailFine`, `ConcatFine`, `SuffixFine`), and a step of another one
leaves it, except for the mutex: what lets it go or takes it is shown to concern the
thread that steps alone. Misuse needs a call in a mode that does not allow it, or one
of main(), or the return of its function, while a thread uses the object, which its join
excludes (`MisuseStep`, `NobodyLeft`).
Two threads that race for a variable of `Guarded` would both own the mutex
(`GuardedApart`). The hypothesis of `NoUndefinedHolds` holds of 29 of the 38 parts,
among them `pthread_cond_wait-cancel_ignored.c` and the broadcast of `pthread_cond.c`,
which joins alone do not keep free of races.

The tests named in `ApartByLocks`, `ApartByMore`, `CarelessByDesign` and
`UntidyByDesign` do not satisfy the respective hypotheses: what they do is TLC's.

**ProcessesProofs** (`ProgramsAssumption`, `TestsAssumption`, `ActorsAssumption`). For
any programs and any number of actors. `TypeCorrect` includes how families hang
together (`FamiliesOK`, `MainOK`): a thread belongs to a process that lives, a zombie
has a parent that lives, runtest waits for a process that lives, and the lock is
held by one. Steps that are `Steady` cannot disturb this; forks and ends of
processes can, and have lemmas of their own. The attempt to prove it has found a
mistake in the model: in the broken `daemon` the process that exits had to give back
what every process that exits gives back, and `Gone` now says it for both.
`NothingLeftHolds` rests on `Tidiness`, which says what main() has before it still:

* `TextsOK`: what is ahead of each thread satisfies what its whole text does;
* `OneChild`: nobody but main() has a child, main() has one at most, and is going to
  wait for it;
* `FileGoes`: if there is a file, or a child that may write it, main() will unlink it;
* `ObjectGoes`: if there is an object, a child that main() will fork, or has forked,
  is going to remove it or to fail; or it has failed and main() is going to see that,
  or has seen it.

When main() ends nothing can be ahead of it, so that each part says that nothing is
left. An object that a killed round has left is covered since main() of the next
round has the fork of the child that removes it before it at its start. `Moves` treats the 18 kinds of steps at once after which every
process is what it was; fork, wait, threads, the ends of processes and the start of
the static executable have one lemma each.

**Only model-checked**:

* everything under fairness (liveness, and the liveness half of both
  refinements), which the prover does not do;
* the verdicts of the thread and process tests (NoFalseAlarm, FindsBug, RightVerdict
  of Processes): they depend on what each test compares with what; the values of its
  variables would have to be read off its text as the modes of its mutex are now, and
  for the few tests that compare none the result would say little;
* NoUndefined for the nine tests of `CarelessByDesign` and `ApartByMore` (four of
  them do what is undefined and three more after an early timer, and NoUndefined
  excepts them);
* NothingLeft for the ten tests of `UntidyByDesign` and for `raise-race.c`;
* that a table of a power of two is visited completely by triangular steps, so
  that `insert` ends, an induction over data (Ends of `choose`).

## 7. Running

    tlc -config RunTest.cfg RunTest                # RunTestStopped.cfg
    tlc -config CondSmasher.cfg CondSmasher
    tlc -config Build.cfg MCBuild                  # BuildRun, BuildHarness
    tlc -config ThreadTests.cfg ThreadTests
    tlc -config ProcessTests.cfg ProcessTests      # RaiseRace.cfg
    tlc -config MathTest.cfg MCMathTest
    tlc -config MemFill.cfg MemFill
    tlc -config Choose.cfg MCChoose
    for m in RunTest CondSmasher Build MemFill MathTest Choose PosixThreads Processes; do
      tlapm ${m}Proofs.tla
    done

Definitions whose comment begins with "Mutant:" are the broken variants that
PROJECT.json refers to; no specification uses them. The lines every definition
translates are in its "map".
