----------------------------- MODULE CondSmasher -----------------------------
(***************************************************************************)
(* src/regression/pthread_cond-smasher.c: main leads the clients through   *)
(* Phases rounds of a barrier.  Round i has its own mutex mut[i]; clients  *)
(* wait on cond_client, main on cond_main, both with a timed wait.         *)
(*                                                                         *)
(* The mutexes and condition variables are POSIX's: a wait releases the    *)
(* mutex and blocks in one step, and has to lock the mutex again before it *)
(* returns; it may be woken by nothing, and may time out.  A faulty        *)
(* library, which the test exists to detect, loses wakeups and fails to    *)
(* create threads.  Errors that lock, unlock, signal, broadcast and join   *)
(* return (lines 95-96, 110-111, 153-154, 158-159, 170-171), after which   *)
(* the test goes on with t_status 1, are left out.                         *)
(***************************************************************************)
EXTENDS Integers, FiniteSets

CONSTANTS
  Threads,    \* the clients: `threads' of them
  Phases,     \* `phases'
  Main,       \* the main thread
  NoOne,      \* the owner of an unlocked mutex
  Spurious    \* may a condition wait be woken by nothing?

ASSUME ThreadsAssumption ==
  /\ IsFiniteSet(Threads) /\ Threads # {}
  /\ Main \notin Threads /\ NoOne \notin Threads \cup {Main}
ASSUME PhasesAssumption == Phases \in Nat \ {0}
ASSUME SwitchAssumption == Spurious \in BOOLEAN

\* What the test runs on: a correct library with which no wait lasts 500 ms,
\* one with which a wait may take as long as that, or a broken one.
Platforms == {"sound", "slow", "faulty"}

VARIABLES
  platform,  \* the one the test runs on
  phase,     \* the global of that name
  inside,    \* inside[i]: how many clients have entered round i
  owner,     \* owner[i]: the thread that has locked mut[i]
  idx,       \* idx[t]: the loop variable i of client t
  pc,        \* where client t is in client()
  mpc,       \* where main is in main()
  tStatus,   \* t_status
  exited     \* has the process exited?

vars == <<platform, phase, inside, owner, idx, pc, mpc, tStatus, exited>>

Rounds == 0..Phases-1
N == Cardinality(Threads)

\* A client in one of these has entered its round but does not run: it is
\* blocked on cond_client, or has left it and needs mut[idx] to return.
Blocked == {"waiting", "woken", "timedout"}
\* A client in one of these has locked the mutex of its round.
Holding == {"enter", "check", "unlock"}

TypeOK ==
  /\ platform \in Platforms
  /\ phase \in 0..Phases
  /\ inside \in [Rounds -> Nat]
  /\ owner \in [Rounds -> Threads \cup {Main, NoOne}]
  /\ idx \in [Threads -> 0..Phases]
  /\ pc \in [Threads -> {"unborn", "lock", "done"} \cup Holding \cup Blocked]
  /\ mpc \in {"start", "create", "test", "waiting", "woken", "timedout",
              "locknext", "broadcast", "advance", "unlock", "join", "destroy"}
  /\ \A t \in Threads : idx[t] = Phases <=> pc[t] = "done"
  /\ mpc \in {"start", "create", "join", "destroy", "unlock"} \/ phase < Phases
  /\ tStatus \in {0, 1}
  /\ exited \in BOOLEAN

Init ==
  /\ platform \in Platforms
  /\ phase = 0
  /\ inside = [i \in Rounds |-> 0]
  /\ owner = [i \in Rounds |-> NoOne]
  /\ idx = [t \in Threads |-> 0]
  /\ pc = [t \in Threads |-> "unborn"]
  /\ mpc = "start"
  /\ tStatus = 0
  /\ exited = FALSE

-----------------------------------------------------------------------------
\* The process runs and a thread has reached a point of its program.
ClientAt(t, p) == ~exited /\ pc[t] = p
MainAt(p) == ~exited /\ mpc = p

(* The condition variables. *)

\* pthread_cond_broadcast(&cond_client): every client that is blocked on it
\* is woken, except those that a faulty library forgets.
Broadcast(p) ==
  \E lost \in IF platform = "faulty" THEN SUBSET Threads ELSE {{}} :
    p = [t \in Threads |->
           IF pc[t] = "waiting" /\ t \notin lost THEN "woken" ELSE pc[t]]

\* pthread_cond_signal(&cond_main): only main ever blocks on it.
SignalMain ==
  \/ mpc' = IF mpc = "waiting" THEN "woken" ELSE mpc
  \/ platform = "faulty" /\ UNCHANGED mpc

\* A thread leaves a condition variable by itself.
WakesUp(at) ==
  \/ Spurious /\ at = "woken"
  \/ platform # "sound" /\ at = "timedout"

ClientWakes(t, at) ==
  /\ ClientAt(t, "waiting") /\ WakesUp(at)
  /\ pc' = [pc EXCEPT ![t] = at]
  /\ UNCHANGED <<platform, phase, inside, owner, idx, mpc, tStatus, exited>>

MainWakes(at) ==
  /\ MainAt("waiting") /\ WakesUp(at)
  /\ mpc' = at
  /\ UNCHANGED <<platform, phase, inside, owner, idx, pc, tStatus, exited>>

\* t_error, then the process exits with t_status (lines 104-105, 140-141).
FailAndExit == tStatus' = 1 /\ exited' = TRUE

-----------------------------------------------------------------------------
(* A client. *)

\* Line 89.
Lock(t) ==
  /\ ClientAt(t, "lock") /\ owner[idx[t]] = NoOne
  /\ owner' = [owner EXCEPT ![idx[t]] = t]
  /\ pc' = [pc EXCEPT ![t] = "enter"]
  /\ UNCHANGED <<platform, phase, inside, idx, mpc, tStatus, exited>>

\* Mutant: the last client forgets to signal main.
EnterNoSignal(t) ==
  /\ ClientAt(t, "enter")
  /\ inside' = [inside EXCEPT ![idx[t]] = @ + 1]
  /\ pc' = [pc EXCEPT ![t] = "check"]
  /\ UNCHANGED <<platform, phase, owner, idx, mpc, tStatus, exited>>

\* Lines 90-97: the last client to enter a round signals main.
Enter(t) ==
  /\ ClientAt(t, "enter")
  /\ inside' = [inside EXCEPT ![idx[t]] = @ + 1]
  /\ IF inside[idx[t]] + 1 = N THEN SignalMain ELSE UNCHANGED mpc
  /\ pc' = [pc EXCEPT ![t] = "check"]
  /\ UNCHANGED <<platform, phase, owner, idx, tStatus, exited>>

\* Mutant: the client does not wait, as if i and phase always differed.
CheckNoWait(t) ==
  /\ ClientAt(t, "check")
  /\ pc' = [pc EXCEPT ![t] = "unlock"]
  /\ UNCHANGED <<platform, phase, inside, owner, idx, mpc, tStatus, exited>>

\* Lines 98-101: a client whose round is the current one waits.
Check(t) ==
  /\ ClientAt(t, "check")
  /\ IF idx[t] = phase
       THEN /\ pc' = [pc EXCEPT ![t] = "waiting"]
            /\ owner' = [owner EXCEPT ![idx[t]] = NoOne]
       ELSE pc' = [pc EXCEPT ![t] = "unlock"] /\ UNCHANGED owner
  /\ UNCHANGED <<platform, phase, inside, idx, mpc, tStatus, exited>>

\* Lines 101-106: the wait returns with the mutex locked; a wait that timed
\* out ends the process, whatever phase is by now.
Relock(t) ==
  /\ (ClientAt(t, "woken") \/ ClientAt(t, "timedout")) /\ owner[idx[t]] = NoOne
  /\ owner' = [owner EXCEPT ![idx[t]] = t]
  /\ pc' = [pc EXCEPT ![t] = "check"]
  /\ IF pc[t] = "timedout" THEN FailAndExit ELSE UNCHANGED <<tStatus, exited>>
  /\ UNCHANGED <<platform, phase, inside, idx, mpc>>

\* Mutant: the loop runs while i <= phases.
UnlockOneMore(t) ==
  /\ ClientAt(t, "unlock")
  /\ owner' = [owner EXCEPT ![idx[t]] = NoOne]
  /\ idx' = [idx EXCEPT ![t] = @ + 1]
  /\ pc' = [pc EXCEPT ![t] = "lock"]
  /\ UNCHANGED <<platform, phase, inside, mpc, tStatus, exited>>

\* Line 108, and line 87 of the next round or line 113.
Unlock(t) ==
  /\ ClientAt(t, "unlock")
  /\ owner' = [owner EXCEPT ![idx[t]] = NoOne]
  /\ idx' = [idx EXCEPT ![t] = @ + 1]
  /\ pc' = [pc EXCEPT ![t] = IF idx[t] + 1 = Phases THEN "done" ELSE "lock"]
  /\ UNCHANGED <<platform, phase, inside, mpc, tStatus, exited>>

-----------------------------------------------------------------------------
(* main. *)

\* Lines 121-126.
Start ==
  /\ MainAt("start")
  /\ owner' = [owner EXCEPT ![0] = Main]
  /\ mpc' = "create"
  /\ UNCHANGED <<platform, phase, inside, idx, pc, tStatus, exited>>

\* Lines 128-131: the result of pthread_create is not looked at.
Create(t) ==
  /\ MainAt("create") /\ pc[t] = "unborn"
  /\ pc' = [pc EXCEPT ![t] = "lock"]
  /\ UNCHANGED <<platform, phase, inside, owner, idx, mpc, tStatus, exited>>

Created ==
  /\ MainAt("create")
  /\ platform = "faulty" \/ \A t \in Threads : pc[t] # "unborn"
  /\ mpc' = "test"
  /\ UNCHANGED <<platform, phase, inside, owner, idx, pc, tStatus, exited>>

\* Lines 133-137 and 147: main waits until all clients are inside.
MainTest ==
  /\ MainAt("test")
  /\ IF inside[phase] < N
       THEN mpc' = "waiting" /\ owner' = [owner EXCEPT ![phase] = NoOne]
       ELSE /\ mpc' = IF phase < Phases-1 THEN "locknext" ELSE "broadcast"
            /\ UNCHANGED owner
  /\ UNCHANGED <<platform, phase, inside, idx, pc, tStatus, exited>>

\* Mutant: main does not test inside[phase] again after a wait.
MainRelockNoLoop ==
  /\ (MainAt("woken") \/ MainAt("timedout")) /\ owner[phase] = NoOne
  /\ owner' = [owner EXCEPT ![phase] = Main]
  /\ mpc' = IF phase < Phases-1 THEN "locknext" ELSE "broadcast"
  /\ IF mpc = "timedout" THEN FailAndExit ELSE UNCHANGED <<tStatus, exited>>
  /\ UNCHANGED <<platform, phase, inside, idx, pc>>

\* Mutant: main waits again after a wait that timed out.
MainRelockRetry ==
  /\ (MainAt("woken") \/ MainAt("timedout")) /\ owner[phase] = NoOne
  /\ owner' = [owner EXCEPT ![phase] = Main]
  /\ mpc' = "test"
  /\ UNCHANGED <<platform, phase, inside, idx, pc, tStatus, exited>>

\* Mutant: main returns t_status after a timeout without a t_error.
MainRelockSilent ==
  /\ (MainAt("woken") \/ MainAt("timedout")) /\ owner[phase] = NoOne
  /\ owner' = [owner EXCEPT ![phase] = Main]
  /\ mpc' = "test"
  /\ exited' = (mpc = "timedout")
  /\ UNCHANGED <<platform, phase, inside, idx, pc, tStatus>>

\* Lines 137-143.
MainRelock ==
  /\ (MainAt("woken") \/ MainAt("timedout")) /\ owner[phase] = NoOne
  /\ owner' = [owner EXCEPT ![phase] = Main]
  /\ mpc' = "test"
  /\ IF mpc = "timedout" THEN FailAndExit ELSE UNCHANGED <<tStatus, exited>>
  /\ UNCHANGED <<platform, phase, inside, idx, pc>>

\* Mutant: main does not lock the next mutex.
LockNextNot ==
  /\ MainAt("locknext")
  /\ mpc' = "broadcast"
  /\ UNCHANGED <<platform, phase, inside, owner, idx, pc, tStatus, exited>>

\* Line 148.
LockNext ==
  /\ MainAt("locknext") /\ owner[phase+1] = NoOne
  /\ owner' = [owner EXCEPT ![phase+1] = Main]
  /\ mpc' = "broadcast"
  /\ UNCHANGED <<platform, phase, inside, idx, pc, tStatus, exited>>

\* Line 151.
BroadcastClients ==
  /\ MainAt("broadcast")
  /\ Broadcast(pc')
  /\ mpc' = "advance"
  /\ UNCHANGED <<platform, phase, inside, owner, idx, tStatus, exited>>

\* Line 155.
Advance ==
  /\ MainAt("advance")
  /\ phase' = phase + 1
  /\ mpc' = "unlock"
  /\ UNCHANGED <<platform, inside, owner, idx, pc, tStatus, exited>>

\* Line 156, and line 133 of the next round.
MainUnlock ==
  /\ MainAt("unlock")
  /\ owner' = [owner EXCEPT ![phase-1] = NoOne]
  /\ mpc' = IF phase < Phases THEN "test" ELSE "join"
  /\ UNCHANGED <<platform, phase, inside, idx, pc, tStatus, exited>>

\* Lines 166-172.
Join ==
  /\ MainAt("join") /\ \A t \in Threads : pc[t] = "done"
  /\ mpc' = "destroy"
  /\ UNCHANGED <<platform, phase, inside, owner, idx, pc, tStatus, exited>>

\* Lines 176-184: destroy everything and return t_status.
Destroy ==
  /\ MainAt("destroy")
  /\ exited' = TRUE
  /\ UNCHANGED <<platform, phase, inside, owner, idx, pc, mpc, tStatus>>

-----------------------------------------------------------------------------

Client(t) == Lock(t) \/ Enter(t) \/ Check(t) \/ Relock(t) \/ Unlock(t)
MainStep == \/ Start \/ (\E t \in Threads : Create(t)) \/ Created \/ MainTest
            \/ MainRelock \/ LockNext \/ BroadcastClients \/ Advance
            \/ MainUnlock \/ Join \/ Destroy
Wakeup == \E at \in {"woken", "timedout"} :
            MainWakes(at) \/ \E t \in Threads : ClientWakes(t, at)

Exited == exited /\ UNCHANGED vars

Next == MainStep \/ Wakeup \/ (\E t \in Threads : Client(t)) \/ Exited

Safe == Init /\ [][Next]_vars

\* Every thread is scheduled, and gets a mutex that is free again and again;
\* a wait that never ends otherwise times out.
Fairness ==
  /\ SF_vars(MainStep)
  /\ \A t \in Threads : SF_vars(Client(t)) /\ WF_vars(ClientWakes(t, "timedout"))
  /\ WF_vars(MainWakes("timedout"))

Spec == Safe /\ Fairness

-----------------------------------------------------------------------------
(* Properties. *)

Past(t) == pc[t] \in {"check", "unlock"} \cup Blocked
Arrived(t) == IF Past(t) THEN idx[t] + 1 ELSE idx[t]

\* "now we know that everybody is waiting inside" (lines 144-146): when main
\* is about to open a round every client has entered it and is off the CPU.
EverybodyInside ==
  mpc \in {"locknext", "broadcast", "advance"} =>
    \A t \in Threads : idx[t] = phase /\ pc[t] \in Blocked

\* "nobody can enter the next phase without our permission" (lines 145-146):
\* nobody has entered the next round when main lets go of the old one.
NobodyEarly == mpc = "unlock" /\ phase < Phases => inside[phase] = 0

\* A round is opened by main, when all are there, and by nobody else.
ByPermission == EverybodyInside /\ NobodyEarly

\* A condition variable is used with one mutex at a time, which POSIX asks
\* for: the clients that are blocked on cond_client are in the same round.
OneMutex ==
  platform # "faulty" => \A t, u \in Threads :
               pc[t] = "waiting" /\ pc[u] = "waiting" => idx[t] = idx[u]

\* main writes phase (line 155) at no time when a client may read it (line
\* 98), and reads inside[phase] (line 134) at no time when a client may write
\* it (line 90), though every client locks the mutex of its own round only.
NoDataRace ==
  /\ mpc = "advance" => \A t \in Threads : pc[t] # "check"
  /\ mpc = "test" => \A t \in Threads : idx[t] = phase => pc[t] # "enter"

\* Nothing is done that POSIX leaves undefined.
DefinedUse == OneMutex /\ NoDataRace

\* The test cannot pass by accident: it reports success only if all clients
\* went through all rounds, also with a library that loses wakeups.
SuccessIsReal ==
  exited /\ tStatus = 0 =>
    phase = Phases /\ \A t \in Threads : idx[t] = Phases

\* A thread is woken by nothing.
WokenByNothing == MainWakes("woken") \/ \E t \in Threads : ClientWakes(t, "woken")

\* "the test deadlocks with a broken cond var implementation so cond_waits
\* were changed to cond_timedwaits" (lines 3-4): the process always exits,
\* unless spurious wakeups start the timeout again for ever.
AlwaysExits == <>[][~WokenByNothing]_vars => <>exited

Barrier == INSTANCE PhaseBarrier WITH
  arrived <- [t \in Threads |-> Arrived(t)], opened <- phase

\* The clients and main implement a barrier, whatever wakes them up.
ImplementsBarrier == Barrier!Safe

\* With a correct library the barrier makes progress, and the test passes when
\* no wait lasts 500 ms.
Passes == platform = "sound" => Barrier!Live /\ <>(exited /\ tStatus = 0)
=============================================================================
