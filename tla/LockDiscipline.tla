--------------------------- MODULE LockDiscipline ---------------------------
(***************************************************************************)
(* What can be read off the text of a test about its mutex, its condition  *)
(* variable and its barrier.  Each routine locks and unlocks straight on,  *)
(* and so its text tells before which of its calls it holds the mutex,     *)
(* whatever the others do.                                                 *)
(***************************************************************************)
EXTENDS ThreadDiscipline

AllCalls(p) == UNION {CallsIn(p[r]) : r \in DOMAIN p}
Created(p) == {c.obj : c \in {d \in CallsIn(p["main"]) : d.op = "create"}}
Cancellable(p) == {c.obj : c \in {d \in AllCalls(p) : d.op = "cancel"}}
Handlers(p) == {c.obj : c \in {d \in AllCalls(p) : d.op = "push"}}

\* What main() makes of the mutex, and whether it does so first of all.
InitTypes(p) == {c.arg : c \in {d \in CallsIn(p["main"]) : d.op = "mutex_init"}}
InitFirst(p) == 1 \in DOMAIN p["main"] /\ p["main"][1].op = "mutex_init"

\* The mutex notices an unlock by a thread that does not own it.
Tolerant(p) == InitFirst(p) /\ "normal" \notin InitTypes(p)
\* The mutex is let go when its owner ends.
Robust(p) == InitFirst(p) /\ InitTypes(p) \subseteq {"robust"}

\* Cleanup handlers unlock the mutex.
Closing(p) == \E h \in Handlers(p) : \E c \in CallsIn(p[h]) : c.op = "unlock"

\* A routine is before each of its calls in one of these modes: it does not hold
\* the mutex, it does, or it does and has pushed a handler that unlocks it.
Modes == {"free", "held", "guarded"}
\* The mode that a call leads to, or "same" if it changes nothing.
Sets(p, c) ==
  CASE c.op \in {"lock", "timedlock"} -> "held"
    [] c.op = "unlock" -> "free"
    [] c.op = "push" /\ Closing(p) -> "guarded"
    [] c.op = "pop" /\ Closing(p) -> "free"
    [] OTHER -> "same"
NextMode(p, c, m) == IF Sets(p, c) = "same" THEN m ELSE Sets(p, c)

\* A routine that begins calls s in mode m is in mode n before its call i.
InMode(p, s, m, i, n) ==
  \/ n = m /\ \A k \in 1..(i - 1) : Sets(p, s[k]) = "same"
  \/ \E j \in 1..(i - 1) : /\ Sets(p, s[j]) = n /\ n # "same"
                           /\ \A k \in (j + 1)..(i - 1) : Sets(p, s[k]) = "same"

\* The variables that are used in routines that hold the mutex only.
Uses(c) == CallWrites(c) \cup CallReads(c)
StartMode(p, r) == IF Closing(p) /\ r \in Handlers(p) THEN "held" ELSE "free"
Guarded(p) ==
  {x \in Variables : ~Tolerant(p) /\ \A r \in DOMAIN p : \A i \in DOMAIN p[r] :
     /\ x \in Uses(p[r][i]) => ~InMode(p, p[r], StartMode(p, r), i, "free")
     /\ x \notin Kept(p[r][i])}

\* Thread t may make call c in mode m.
Allowed(p, t, c, m) ==
  /\ c.op \in {"mutex_init", "mutex_destroy", "leave"} => t = "main" /\ m = "free"
  /\ c.op \in {"cond_destroy", "barrier_destroy"} => t = "main"
  /\ c.op \in {"lock", "timedlock"} => m = "free"
  /\ c.op = "unlock" => m = "held" \/ Tolerant(p)
  /\ c.op \in CondWaits => m # "free"
  /\ c.op = "push" /\ Closing(p) => m = "held"
  /\ c.op = "pop" /\ Closing(p) => m = "guarded" /\ c.obj = "run"
  /\ c.op \in CancelPoints /\ t \in Cancellable(p) => m # "held"
  /\ c.op = "exit" => m # "held" \/ t = "main"
  /\ c.op = "setcanceltype" => m = "free"
  /\ Uses(c) \cap Guarded(p) # {} => m # "free"

\* From where calls are jumped over, or the thread may be cancelled at any
\* time, the mode stays what it is.
Settled(p, s) ==
  \A i \in DOMAIN s : s[i].op \in {"skip", "setcanceltype"} =>
    \A j \in DOMAIN s : j > i => Sets(p, s[j]) = "same"

\* Thread t may go on with calls s in mode m; a worker lets go of the mutex.
Fine(p, t, s, m) ==
  /\ \A i \in DOMAIN s : \A n \in Modes : InMode(p, s, m, i, n) => Allowed(p, t, s[i], n)
  /\ Settled(p, s)
  /\ t = "main" \/ Robust(p) \/ \A n \in Modes : InMode(p, s, m, Len(s) + 1, n) => n = "free"

\* The calls that a cleanup handler does not make.
Involved == {"mutex_init", "mutex_destroy", "leave", "cond_destroy", "barrier_destroy",
             "barrier_wait", "lock", "timedlock", "push", "pop", "exit", "setcanceltype", "skip"}
            \cup CancelPoints

\* The routines use the mutex as its types allow.
LocksWell(p) ==
  /\ MainAlone(p)
  /\ IF Tolerant(p) THEN ~Closing(p) /\ \A c \in AllCalls(p) : c.op \notin CondWaits
     ELSE "robust" \notin InitTypes(p) /\ \A c \in AllCalls(p) : c.op # "timedlock"
  /\ \A t \in {"main"} \cup Created(p) : Fine(p, t, p[t], "free")
  /\ \A h \in Handlers(p) :
       /\ \A c \in CallsIn(p[h]) : c.op \notin Involved
       /\ Closing(p) => \A t \in Created(p) : Fine(p, t, p[h], "held")

\* Calls s come to the barrier, at most once.
Meets(s) == \E c \in CallsIn(s) : c.op = "barrier_wait"
AtMostOne(s) ==
  \A i, j \in DOMAIN s : s[i].op = "barrier_wait" /\ s[j].op = "barrier_wait" => i = j

\* The threads that come to the barrier.
Meeting(p) == {t \in {"main"} \cup Created(p) : Meets(p[t])}
\* If main() destroys the barrier, all have met at it before, once.
MeetsOnce(p) ==
  LET main == p["main"]
  IN (\E c \in CallsIn(main) : c.op = "barrier_destroy") =>
       /\ \A c \in CallsIn(main) : c.op # "skip"
       /\ \A i, j \in DOMAIN main :
            main[i].op = "create" /\ main[j].op = "create" /\ main[i].obj = main[j].obj => i = j
       /\ \A t \in Meeting(p) : AtMostOne(p[t])
       /\ \A c \in AllCalls(p) : c.op = "barrier_wait" => Cardinality(Meeting(p)) <= c.than
       /\ \A j \in DOMAIN main : main[j].op = "barrier_destroy" =>
            \E i \in 1..(j - 1) : main[i].op = "barrier_wait"

\* Nothing in the text of the test can lead to a misuse of its objects.
Careful(p) == LocksWell(p) /\ DisciplinedBut(p, Variables) /\ MeetsOnce(p)

-----------------------------------------------------------------------------
(* What a careful test keeps to while it runs with a correct library. *)

\* A thread that waits has let go of the mutex and will hold it again.
Waits(t) == th[t].state \in {"waiting"} \cup LeavingWait
Holds(t) == mutex.owner = t \/ Waits(t)

\* A thread t of program p that is as x, and holds the mutex or not, is in mode m.
Fits(p, t, x, holds, m) ==
  /\ Fine(p, t, x.calls, m)
  /\ holds => m # "free"
  /\ m # "free" => holds \/ Tolerant(p)
  /\ m = "guarded" <=> Closing(p) /\ x.handlers # <<>>
  /\ Closing(p) => Len(x.handlers) <= 1
  /\ x.async => m = "free" /\ \A i \in DOMAIN x.calls : Sets(p, x.calls[i]) = "same"
  /\ x.pending \/ x.state = "cancelled" => t \in Cancellable(p)
  /\ CallsIn(x.handlers) \subseteq Handlers(p)
ModesKept ==
  \A t \in Threads : Working(t) =>
    \E m \in Modes : Fits(Programs[test], t, th[t], Holds(t), m)

\* The mutex has the type it was given; main() or a worker that uses it owns it.
MutexKept ==
  LET p == Programs[test]
  IN /\ mutex.owner # NoOne =>
          /\ mutex.count = 1 /\ th[mutex.owner].state \in {"running", "barrier"}
          /\ mutex.owner # "main" =>
               \E c \in FamilyCalls(p, mutex.owner) : c.op \in MutexUses
     /\ \/ mutex.type \in InitTypes(p)
        \/ /\ mutex.type = "normal"
           /\ InitFirst(p) => Workers = {} /\ (Done = 0 \/ Done = Len(Main))
     /\ Tolerant(p) \/ mutex.mark = "sound"

\* Who has still to come to the barrier.
Comes(t) == Meets(th[t].calls)
MeetingKept ==
  (\E k \in (Done + 1)..Len(Main) : Main[k].op = "barrier_destroy") =>
    /\ \A t \in Threads : Alive(t) => AtMostOne(th[t].calls)
    /\ \A t \in Threads \ {"main"} : th[t].state # "unborn" =>
         \A k \in (Done + 1)..Len(Main) : Main[k].op = "create" => Main[k].obj # t
    /\ \/ Comes("main")
       \/ /\ \A t \in Threads : Alive(t) => ~Comes(t)
          /\ \A k \in (Done + 1)..Len(Main) :
               Main[k].op = "create" => Main[k].obj \notin Meeting(Programs[test])

CareKept ==
  bug = "none" /\ ~exited /\ Careful(Programs[test]) => ModesKept /\ MutexKept /\ MeetingKept
NeverMisused == bug = "none" /\ Careful(Programs[test]) => ~misused
=============================================================================
