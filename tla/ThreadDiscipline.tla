-------------------------- MODULE ThreadDiscipline --------------------------
(***************************************************************************)
(* What can be read off the text of a test about its threads.  main() is   *)
(* straight on but for a few ifs, it alone creates threads, and so the     *)
(* order of its creations, its own calls and its joins tells, whatever the *)
(* scheduler does, which parts of the test can run at the same time.       *)
(***************************************************************************)
EXTENDS PosixThreads

\* The routines that thread w runs: its own and the cleanup handlers they push.
Family(p, w) ==
  {r \in DOMAIN p :
     \A R \in SUBSET DOMAIN p :
       /\ w \in R
       /\ \A q \in R : \A c \in CallsIn(p[q]) : c.op = "push" => c.obj \in R
       => r \in R}
FamilyCalls(p, w) == UNION {CallsIn(p[r]) : r \in Family(p, w)}

\* The mutex and the condition variable are shared like variables: what makes
\* or destroys one changes it, what uses it relies on it; and every worker
\* relies on the frame that they are in.
Objects == {"the mutex", "the condition variable", "the frame"}
MutexUses == {"lock", "timedlock", "unlock", "consistent"} \cup CondWaits
Changes(c) ==
  CallWrites(c) \cup (IF c.op \in {"mutex_init", "mutex_destroy"} THEN {"the mutex"} ELSE {})
                \cup (IF c.op = "cond_destroy" THEN {"the condition variable"} ELSE {})
                \cup (IF c.op = "leave" THEN {"the frame"} ELSE {})
Relies(c) ==
  CallReads(c) \cup (IF c.op \in MutexUses THEN {"the mutex"} ELSE {})
               \cup (IF c.op \in {"signal", "broadcast"} \cup CondWaits
                        THEN {"the condition variable"} ELSE {})

\* What the destructors of thread w may write, what it ever changes, its
\* destructors included, and what it changes or relies on.
Kept(c) == IF c.op = "setspecific" THEN {c.arg} \ {"nowhere"} ELSE {}
AllKept(p, w) == UNION {Kept(c) : c \in FamilyCalls(p, w)}
AllWrites(p, w) == AllKept(p, w) \cup UNION {Changes(c) : c \in FamilyCalls(p, w)}
AllUses(p, w) ==
  AllWrites(p, w) \cup {"the frame"} \cup UNION {Relies(c) : c \in FamilyCalls(p, w)}

\* Threads v and w must not run at the same time; what is in G is left aside.
Clash(p, G, v, w) ==
  \/ (AllWrites(p, v) \cap AllUses(p, w)) \ G # {}
  \/ (AllUses(p, v) \cap AllWrites(p, w)) \ G # {}

\* main() must not make call c while thread w runs.
Conflicts(p, G, c, w) ==
  \/ (Changes(c) \cap AllUses(p, w)) \ G # {}
  \/ (Relies(c) \cap AllWrites(p, w)) \ G # {}
  \/ c.op = "create" /\ (c.obj = w \/ Clash(p, G, c.obj, w))

IsJoin(c, w) == c.op = "join" /\ c.obj = w
\* Where the jump of call q leads over.
Jumps(main, q, j) == main[q].op = "skip" /\ q + main[q].jump >= j

\* After its call i, main() cannot come to its call k without having joined w.
JoinedBefore(main, w, i, k) ==
  \E j \in (i + 1)..(k - 1) :
    /\ IsJoin(main[j], w)
    /\ \A q \in (i + 1)..(j - 1) : Jumps(main, q, j) => Jumps(main, q, k)

\* main() alone creates threads, and it uses no cleanup handlers.
MainAlone(p) ==
  /\ \A c \in CallsIn(p["main"]) : c.op \notin {"push", "pop", "once"}
  /\ \A c \in CallsIn(p["main"]) : c.op = "create" =>
       c.obj # "main" /\ \A d \in FamilyCalls(p, c.obj) : d.op \notin {"create", "once"}

\* main() joins a thread before it does what must not happen while that runs,
\* whatever happens to what is in G.
DisciplinedBut(p, G) ==
  LET main == p["main"]
  IN /\ MainAlone(p)
     /\ \A i \in DOMAIN main : main[i].op = "create" =>
          \A k \in (i + 1)..Len(main) :
            Conflicts(p, G, main[k], main[i].obj) => JoinedBefore(main, main[i].obj, i, k)
\* So it is for the variables.
Disciplined(p) == DisciplinedBut(p, Objects)

\* After its call i, main() cannot end without having joined w.
AlwaysJoined(main, w, i) ==
  \E j \in (i + 1)..Len(main) :
    IsJoin(main[j], w) /\ \A q \in (i + 1)..(j - 1) : ~Jumps(main, q, j)

\* main() joins all threads, is not cancelled and ends by returning; and no
\* routine makes a call that may crash.
Tidy(p) ==
  LET main == p["main"]
  IN /\ MainAlone(p)
     /\ \A c \in CallsIn(main) : c.op # "exit"
     /\ \A i \in DOMAIN main : main[i].op = "create" => AlwaysJoined(main, main[i].obj, i)
     /\ \A r \in DOMAIN p : \A c \in CallsIn(p[r]) :
          c.op \notin {"sem_open", "call_f"} /\ (c.op = "cancel" => c.obj # "main")

-----------------------------------------------------------------------------
(* What a disciplined test keeps to while it runs. *)

Main == Programs[test]["main"]
Alive(t) == th[t].state \notin {"unborn", "joined"}
Workers == {w \in Threads \ {"main"} : Alive(w)}

\* How many calls main() has made or jumped over.
Done == Len(Main) - Len(th["main"].calls)

\* A thread that blocks does so in a call that blocks.
Blocks == {"waiting", "barrier"} \cup LeavingWait
BlocksIn(state, c) ==
  IF state = "barrier" THEN c.op = "barrier_wait" ELSE c.op \in CondWaits
BlockedInWait ==
  \A t \in Threads : th[t].state \in Blocks => BlocksIn(th[t].state, Now(t))

\* main() has the end of its text before it.
MainInPlace ==
  /\ th["main"].handlers = <<>>
  /\ Len(th["main"].calls) <= Len(Main)
  /\ \A k \in DOMAIN th["main"].calls : th["main"].calls[k] = Main[Done + k]

\* A worker was made by main(), and runs its own routines.
InRoutines(w) ==
  /\ CallsIn(th[w].calls) \subseteq FamilyCalls(Programs[test], w) \cup {Pop(TRUE)}
  /\ CallsIn(th[w].handlers) \subseteq Family(Programs[test], w)
  /\ \A k \in Keys : th[w].specific[k] \in AllKept(Programs[test], w) \cup {"nowhere"}
MadeByMain(w) == \E c \in CallsIn(Main) : c.op = "create" /\ c.obj = w
WorkersInPlace == \A w \in Workers : MadeByMain(w) /\ InRoutines(w)

\* main() joins a worker before it comes to what conflicts with it.
JoinsAhead(G) ==
  \A w \in Workers : \A k \in (Done + 1)..Len(Main) :
    Conflicts(Programs[test], G, Main[k], w) => JoinedBefore(Main, w, Done, k)

\* Workers that run together do not clash.
WorkersApart(G) ==
  \A v, w \in Workers : v # w => ~Clash(Programs[test], G, v, w)

\* main() will come to a join of every worker, and is not stopped before it.
AllWillBeJoined ==
  /\ \A w \in Workers : AlwaysJoined(Main, w, Done)
  /\ ~th["main"].pending /\ th["main"].state # "cancelled" /\ ~opened.named
  /\ exited => Done = Len(Main)

InPlace == MainAlone(Programs[test]) => MainInPlace /\ WorkersInPlace
DisciplineKept ==
  \A G \in SUBSET (Variables \cup Objects) :
    DisciplinedBut(Programs[test], G) => JoinsAhead(G) /\ WorkersApart(G)
TidinessKept == Tidy(Programs[test]) => AllWillBeJoined
=============================================================================
