----------------------------- MODULE PosixCalls ------------------------------
(***************************************************************************)
(* The calls a test program makes.  A call of the C library has the result *)
(* the test wants, with t_error otherwise (which the macros T, E, TEST,    *)
(* TESTR, ... of the tests do), and may store its result in a variable.    *)
(***************************************************************************)
EXTENDS Integers, Sequences

\* Results of library calls: 0, an error number, or the value of a thread.
EPERM == 1
EAGAIN == 11
EBUSY == 16
EDEADLK == 35
ETIMEDOUT == 110
EOWNERDEAD == 130
ENOTRECOVERABLE == 131
CANCELED == -1
AnyResult == -2

Call(op, obj, arg) ==
  [op |-> op, obj |-> obj, arg |-> arg, want |-> 0, into |-> "nowhere", than |-> 0,
   jump |-> 0]
Want(call, r) == [call EXCEPT !.want = r]
Ignore(call) == Want(call, AnyResult)
Save(call, x) == [call EXCEPT !.into = x]

\* What the tests do by themselves.
Set(x, v) == [Call("set", x, "") EXCEPT !.than = v]
Add(x, v) == [Call("add", x, "") EXCEPT !.than = v]
Copy(x, y) == Call("copy", x, y)
Check(x, v) == Want(Call("check", x, ""), v)
\* if (x == v) skip the next n calls.
SkipIf(x, v, n) == [Call("skip", x, "") EXCEPT !.than = v, !.jump = n]
Spin == Call("spin", "", "")
\* A function returns whose automatic objects the threads of the test use.
Leave == Call("leave", "", "")

\* The library.
MutexInit(m, type) == Call("mutex_init", m, type)
MutexDestroy(m) == Call("mutex_destroy", m, "")
Lock(m) == Call("lock", m, "")
TimedLock(m) == Call("timedlock", m, "")
Unlock(m) == Call("unlock", m, "")
Consistent(m) == Call("consistent", m, "")
CondWait(c, m) == Call("cond_wait", c, m)
CondTimedWait(c, m) == Call("cond_timedwait", c, m)
\* while (x == v) pthread_cond_wait(c, m), and its timed form, which ends
\* with a timeout as well.
WaitWhile(x, v, c, m) == [CondWait(c, m) EXCEPT !.into = x, !.than = v]
TimedWaitWhile(x, v, c, m) ==
  [Ignore(CondTimedWait(c, m)) EXCEPT !.into = x, !.than = v]
Signal(c) == Call("signal", c, "")
Broadcast(c) == Call("broadcast", c, "")
CondDestroy(c) == Call("cond_destroy", c, "")
SemInit(s, n) == [Call("sem_init", s, "") EXCEPT !.than = n]
Post(s) == Call("post", s, "")
Wait(s) == Call("wait", s, "")
TimedWait(s) == Call("timedwait", s, "")
TryWait(s) == Call("trywait", s, "")
GetValue(s) == Call("getvalue", s, "")
\* The barrier is for n threads.
BarrierWait(n) == [Call("barrier_wait", "", "") EXCEPT !.than = n]
BarrierDestroy == Call("barrier_destroy", "", "")
Create(t) == Call("create", t, "")
\* Its result is the value of the thread.
Join(t) == Call("join", t, "")
Cancel(t) == Call("cancel", t, "")
Detach(t) == Call("detach", t, "")
Exit == Call("exit", "", "")
Disable == Call("setcancelstate", "disable", "")
Enable == Call("setcancelstate", "enable", "")
Async == Call("setcanceltype", "", "")
Push(handler) == Call("push", handler, "")
\* Pop the last handler, and run it or not.
Pop(execute) == Call("pop", IF execute THEN "run" ELSE "drop", "")
Once(init) == Call("once", init, "")
\* nanosleep and sleep.
Sleep == Call("sleep", "", "")
SetSpecific(key, x) == Call("setspecific", key, x)
CheckSpecific(key, x) == Call("checkspecific", key, x)
RdLock == Call("rdlock", "", "")
WrLock == Call("wrlock", "", "")
TryRdLock == Call("tryrdlock", "", "")
TryWrLock == Call("trywrlock", "", "")
RwUnlock == Call("rwunlock", "", "")
ShmOpen == Call("shm_open", "", "")
TlsAdd(x, v) == [Call("tls_add", x, "") EXCEPT !.than = v]
TlsCheck(x, v) == Want(Call("tls_check", x, ""), v)
DlOpen(scope, handle) == Save(Call("dlopen", scope, ""), handle)
DlSym(handle) == Call("dlsym", handle, "")
CallObject == Call("call_f", "", "")
DlClose == Call("dlclose", "", "")
SemCreate(s, n) == [Call("sem_open", s, "creat|excl") EXCEPT !.than = n]
SemOpen(s) == Call("sem_open", s, "")
SemClose(s) == Call("sem_close", s, "")
SemUnlink(s) == Call("sem_unlink", s, "")
=============================================================================
