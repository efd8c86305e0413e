-------------------------- MODULE CondSmasherProofs --------------------------
(***************************************************************************)
(* Proofs about CondSmasher for any finite set of clients, any number of   *)
(* phases, with and without spurious wakeups, timeouts and a faulty        *)
(* library.  The inductive invariant IInv adds to the type invariant what  *)
(* the counters count (Counted), who has locked which mutex (Owned,        *)
(* MainOwned) and how far a client may be from main (InStep).              *)
(***************************************************************************)
EXTENDS CondSmasher, TLAPS, FiniteSetTheorems

Entered(i) == {t \in Threads : Arrived(t) > i}

\* inside[i] is the number of clients that have entered round i.
Counted == \A i \in Rounds : inside[i] = Cardinality(Entered(i))

\* A client has locked a mutex exactly at the points of the program where it
\* is between lock, or the return of a wait, and unlock, or the next wait.
Owned == \A t \in Threads : \A i \in Rounds :
           owner[i] = t <=> idx[t] = i /\ pc[t] \in Holding

\* The mutexes main has locked.
MainHolds(i) ==
  \/ mpc \in {"create", "test", "locknext", "broadcast", "advance"} /\ i = phase
  \/ mpc \in {"broadcast", "advance"} /\ i = phase + 1
  \/ mpc = "unlock" /\ i \in {phase - 1, phase}
MainOwned == \A i \in Rounds : owner[i] = Main <=> MainHolds(i)

\* How far a client may be from main.
InStep ==
  \A t \in Threads :
    /\ idx[t] <= phase
    /\ Arrived(t) \in {phase, phase + 1}
    /\ pc[t] = "unlock" => idx[t] < phase
    /\ mpc = "unlock" => Arrived(t) = phase
    /\ pc[t] = "unborn" => idx[t] = 0
    /\ mpc = "start" => pc[t] = "unborn"
    /\ platform # "faulty" /\ pc[t] = "waiting" => idx[t] = phase /\ mpc # "advance"

MainInStep ==
  /\ mpc \in {"start", "create"} => phase = 0
  /\ mpc = "unlock" => phase > 0
  /\ mpc = "locknext" => phase < Phases - 1

IInv == /\ TypeOK /\ Counted /\ Owned /\ MainOwned /\ InStep /\ MainInStep
        /\ EverybodyInside

-----------------------------------------------------------------------------
(* Lemmas about the state and about steps that move nobody. *)

\* The type of the quantities the invariant compares (Arrived, inside, N).
LEMMA CountTypes ==
  ASSUME TypeOK
  PROVE  /\ N \in Nat
         /\ \A t \in Threads : Arrived(t) \in Nat
         /\ \A i : IsFiniteSet(Entered(i))
<1>1. N \in Nat
  BY FS_CardinalityType, ThreadsAssumption DEF N
<1>2. \A t \in Threads : Arrived(t) \in Nat
  BY PhasesAssumption DEF TypeOK, Arrived
<1>3. \A i : IsFiniteSet(Entered(i))
  <2> TAKE i
  <2> Entered(i) \in SUBSET Threads
    BY DEF Entered
  <2> QED BY FS_Subset, ThreadsAssumption
<1> QED BY <1>1, <1>2, <1>3

\* A counter that has reached `threads' has counted every client.
LEMMA FullRound ==
  ASSUME TypeOK, Counted, NEW i \in Rounds, ~(inside[i] < N)
  PROVE  \A t \in Threads : Arrived(t) > i
<1>1. Entered(i) \in SUBSET Threads
  BY DEF Entered
<1>2. inside[i] = Cardinality(Entered(i))
  BY DEF Counted
<1>3. Cardinality(Entered(i)) <= Cardinality(Threads)
  BY <1>1, FS_Subset, ThreadsAssumption
<1>4. Cardinality(Entered(i)) \in Nat /\ N \in Nat
  BY CountTypes, FS_CardinalityType
<1>5. Cardinality(Entered(i)) = Cardinality(Threads)
  BY <1>2, <1>3, <1>4 DEF N
<1>6. Entered(i) = Threads
  BY <1>1, <1>5, FS_Subset, ThreadsAssumption
<1> QED BY <1>6 DEF Entered

\* Counters and clients that do not move keep the counters right.
LEMMA CountedStays ==
  ASSUME Counted, inside' = inside,
         \A t \in Threads : Arrived(t)' = Arrived(t)
  PROVE  Counted'
<1>1. \A i : Entered(i)' = Entered(i)
  BY DEF Entered
<1> QED BY <1>1 DEF Counted, Rounds

-----------------------------------------------------------------------------
(* The invariant holds initially. *)

LEMMA InitIInv == Init => IInv
<1> SUFFICES ASSUME Init PROVE IInv
  OBVIOUS
<1> USE PhasesAssumption
<1>1. TypeOK
  <2>1. /\ phase \in 0..Phases
        /\ idx \in [Threads -> 0..Phases]
        /\ inside \in [Rounds -> Nat]
        /\ owner \in [Rounds -> Threads \cup {Main, NoOne}]
    BY DEF Init
  <2>2. pc \in [Threads -> {"unborn", "lock", "done"} \cup Holding \cup Blocked]
    BY DEF Init
  <2>3. \A t \in Threads : idx[t] # Phases /\ pc[t] # "done"
    BY DEF Init
  <2> QED BY <2>1, <2>2, <2>3 DEF Init, TypeOK
<1>2. \A t \in Threads : Arrived(t) = 0
  BY DEF Init, Arrived, Past, Blocked
<1>3. Counted
  <2> SUFFICES ASSUME NEW i \in Rounds PROVE inside[i] = Cardinality(Entered(i))
    BY DEF Counted
  <2>1. Entered(i) = {}
    BY <1>2 DEF Entered, Rounds
  <2> QED BY <2>1, FS_EmptySet DEF Init
<1>4. Owned /\ MainOwned
  BY ThreadsAssumption DEF Init, Owned, MainOwned, MainHolds, Holding
<1>5. InStep
  BY <1>2 DEF Init, InStep
<1>6. MainInStep /\ EverybodyInside
  BY DEF Init, MainInStep, EverybodyInside
<1> QED BY <1>1, <1>3, <1>4, <1>5, <1>6 DEF IInv

-----------------------------------------------------------------------------
(* Every step of a client preserves it. *)

\* A client locks the mutex of its round.
LEMMA LockIInv ==
  ASSUME IInv, NEW t \in Threads, Lock(t)
  PROVE  IInv'
<1> USE PhasesAssumption, ThreadsAssumption DEF IInv, ClientAt, Lock
<1>1. TypeOK'
  BY DEF TypeOK, Rounds, Holding, Blocked
<1>2. \A u \in Threads : Arrived(u)' = Arrived(u)
  BY DEF TypeOK, Arrived, Past, Blocked
<1>3. Counted'
  BY <1>2, CountedStays
<1>4. Owned'
  BY DEF TypeOK, Owned, Rounds, Holding, Blocked, InStep, MainOwned, MainHolds
<1>5. MainOwned'
  BY DEF TypeOK, MainOwned, MainHolds, Rounds, Owned, Holding
<1>6. InStep'
  BY <1>2 DEF TypeOK, InStep, Blocked, Holding, EverybodyInside
<1>7. MainInStep'
  BY DEF TypeOK, MainInStep, Rounds
<1>8. EverybodyInside'
  BY DEF TypeOK, EverybodyInside, Blocked, Holding, Owned, MainOwned, MainHolds, Rounds, InStep
<1> QED BY <1>1, <1>3, <1>4, <1>5, <1>6, <1>7, <1>8

\* A client enters its round and counts itself.
LEMMA EnterIInv ==
  ASSUME IInv, NEW t \in Threads, Enter(t)
  PROVE  IInv'
<1> USE PhasesAssumption, ThreadsAssumption DEF IInv, ClientAt, Enter, SignalMain
<1> DEFINE i == idx[t]
<1>1. i \in Rounds /\ owner[i] = t /\ i <= phase /\ i \in Nat
  BY DEF TypeOK, Rounds, Owned, Holding, InStep
<1>2. TypeOK'
  BY <1>1 DEF TypeOK, Rounds, Holding, Blocked
<1>3. /\ Arrived(t) = i /\ Arrived(t)' = i + 1
      /\ \A u \in Threads \ {t} : Arrived(u)' = Arrived(u)
  BY <1>1 DEF TypeOK, Arrived, Past, Blocked
<1>4. Counted'
  <2> SUFFICES ASSUME NEW j \in Rounds
               PROVE  inside'[j] = Cardinality(Entered(j)')
    BY DEF Counted, Rounds
  <2>1. inside[j] = Cardinality(Entered(j))
    BY DEF Counted
  <2>2. CASE j = i
    <3>1. t \notin Entered(i) /\ Entered(i)' = Entered(i) \cup {t}
      BY <1>1, <1>3, CountTypes DEF Entered
    <3>2. Cardinality(Entered(i)') = Cardinality(Entered(i)) + 1
      BY <3>1, FS_AddElement, CountTypes
    <3> QED BY <2>1, <2>2, <3>2 DEF TypeOK
  <2>3. CASE j # i
    <3>1. Entered(j)' = Entered(j)
      BY <1>1, <1>3, <2>3, CountTypes DEF Entered, Rounds
    <3> QED BY <2>1, <2>3, <3>1 DEF TypeOK
  <2> QED BY <2>2, <2>3
<1>5. Owned'
  BY DEF TypeOK, Owned, Rounds, Holding
<1>6. mpc' = mpc \/ (mpc = "waiting" /\ mpc' = "woken")
  OBVIOUS
<1>7. MainOwned'
  BY <1>6 DEF MainOwned, MainHolds, Rounds
<1>8. mpc \notin {"locknext", "broadcast", "advance", "unlock", "start"}
  <2>1. mpc \notin {"locknext", "broadcast", "advance"}
    BY DEF EverybodyInside, Blocked
  <2>2. mpc # "unlock"
    BY <1>1, <1>3 DEF InStep, MainOwned, MainHolds
  <2>3. mpc # "start"
    BY DEF InStep
  <2> QED BY <2>1, <2>2, <2>3
<1>9. InStep'
  BY <1>1, <1>3, <1>6, <1>8 DEF TypeOK, InStep
<1>10. MainInStep'
  BY <1>6 DEF MainInStep
<1>11. EverybodyInside'
  BY <1>6, <1>8 DEF EverybodyInside
<1> QED BY <1>2, <1>4, <1>5, <1>7, <1>9, <1>10, <1>11

\* A client that waits or leaves has looked at phase.
LEMMA CheckIInv ==
  ASSUME IInv, NEW t \in Threads, Check(t)
  PROVE  IInv'
<1> USE PhasesAssumption, ThreadsAssumption DEF IInv, ClientAt, Check
<1>1. TypeOK'
  BY DEF TypeOK, Rounds, Holding, Blocked
<1>2. \A u \in Threads : Arrived(u)' = Arrived(u)
  BY DEF TypeOK, Arrived, Past, Blocked
<1>3. Counted'
  BY <1>2, CountedStays
<1>4. Owned'
  BY DEF TypeOK, Owned, Rounds, Holding, Blocked, InStep, MainOwned, MainHolds
<1>5. MainOwned'
  BY DEF TypeOK, MainOwned, MainHolds, Rounds, Owned, Holding
<1>6. InStep'
  BY <1>2 DEF TypeOK, InStep, Blocked, Holding, EverybodyInside
<1>7. MainInStep'
  BY DEF TypeOK, MainInStep, Rounds
<1>8. EverybodyInside'
  BY DEF TypeOK, EverybodyInside, Blocked, Holding, Owned, MainOwned, MainHolds, Rounds, InStep
<1> QED BY <1>1, <1>3, <1>4, <1>5, <1>6, <1>7, <1>8

\* A wait of a client returns.
LEMMA RelockIInv ==
  ASSUME IInv, NEW t \in Threads, Relock(t)
  PROVE  IInv'
<1> USE PhasesAssumption, ThreadsAssumption DEF IInv, ClientAt, FailAndExit, Relock
<1>1. TypeOK'
  BY DEF TypeOK, Rounds, Holding, Blocked
<1>2. \A u \in Threads : Arrived(u)' = Arrived(u)
  BY DEF TypeOK, Arrived, Past, Blocked
<1>3. Counted'
  BY <1>2, CountedStays
<1>4. Owned'
  BY DEF TypeOK, Owned, Rounds, Holding, Blocked, InStep, MainOwned, MainHolds
<1>5. MainOwned'
  BY DEF TypeOK, MainOwned, MainHolds, Rounds, Owned, Holding
<1>6. InStep'
  BY <1>2 DEF TypeOK, InStep, Blocked, Holding, EverybodyInside
<1>7. MainInStep'
  BY DEF TypeOK, MainInStep, Rounds
<1>8. EverybodyInside'
  BY DEF TypeOK, EverybodyInside, Blocked, Holding, Owned, MainOwned, MainHolds, Rounds, InStep
<1> QED BY <1>1, <1>3, <1>4, <1>5, <1>6, <1>7, <1>8

\* A client leaves its round.
LEMMA UnlockIInv ==
  ASSUME IInv, NEW t \in Threads, Unlock(t)
  PROVE  IInv'
<1> USE PhasesAssumption, ThreadsAssumption DEF IInv, ClientAt, Unlock
<1>1. TypeOK'
  BY DEF TypeOK, Rounds, Holding, Blocked
<1>2. \A u \in Threads : Arrived(u)' = Arrived(u)
  BY DEF TypeOK, Arrived, Past, Blocked
<1>3. Counted'
  BY <1>2, CountedStays
<1>4. Owned'
  BY DEF TypeOK, Owned, Rounds, Holding, Blocked, InStep, MainOwned, MainHolds
<1>5. MainOwned'
  BY DEF TypeOK, MainOwned, MainHolds, Rounds, Owned, Holding
<1>6. InStep'
  BY <1>2 DEF TypeOK, InStep, Blocked, Holding, EverybodyInside
<1>7. MainInStep'
  BY DEF TypeOK, MainInStep, Rounds
<1>8. EverybodyInside'
  BY DEF TypeOK, EverybodyInside, Blocked, Holding, Owned, MainOwned, MainHolds, Rounds, InStep
<1> QED BY <1>1, <1>3, <1>4, <1>5, <1>6, <1>7, <1>8

\* A client leaves the condition variable by itself.
LEMMA ClientWakesIInv ==
  ASSUME IInv, NEW t \in Threads, NEW at \in {"woken", "timedout"},
         ClientWakes(t, at)
  PROVE  IInv'
<1> USE PhasesAssumption, ThreadsAssumption DEF IInv, ClientAt, WakesUp, ClientWakes
<1>1. TypeOK'
  BY DEF TypeOK, Rounds, Holding, Blocked
<1>2. \A u \in Threads : Arrived(u)' = Arrived(u)
  BY DEF TypeOK, Arrived, Past, Blocked
<1>3. Counted'
  BY <1>2, CountedStays
<1>4. Owned'
  BY DEF TypeOK, Owned, Rounds, Holding, Blocked, InStep, MainOwned, MainHolds
<1>5. MainOwned'
  BY DEF TypeOK, MainOwned, MainHolds, Rounds, Owned, Holding
<1>6. InStep'
  BY <1>2 DEF TypeOK, InStep, Blocked, Holding, EverybodyInside
<1>7. MainInStep'
  BY DEF TypeOK, MainInStep, Rounds
<1>8. EverybodyInside'
  BY DEF TypeOK, EverybodyInside, Blocked, Holding, Owned, MainOwned, MainHolds, Rounds, InStep
<1> QED BY <1>1, <1>3, <1>4, <1>5, <1>6, <1>7, <1>8

-----------------------------------------------------------------------------
(* Every step of main preserves it. *)

\* main locks the first mutex.
LEMMA StartIInv ==
  ASSUME IInv, Start
  PROVE  IInv'
<1> USE PhasesAssumption, ThreadsAssumption DEF IInv, MainAt, Start
<1>1. TypeOK'
  BY DEF TypeOK, Rounds, Holding, Blocked
<1>2. \A u \in Threads : Arrived(u)' = Arrived(u)
  BY DEF TypeOK, Arrived, Past, Blocked
<1>3. Counted'
  BY <1>2, CountedStays
<1>4. Owned'
  BY DEF TypeOK, Owned, Rounds, Holding, Blocked, InStep, MainOwned, MainHolds
<1>5. MainOwned'
  BY DEF TypeOK, MainOwned, MainHolds, Rounds, MainInStep
<1>6. InStep'
  BY <1>2 DEF TypeOK, InStep, Blocked, Holding, EverybodyInside
<1>7. MainInStep'
  BY DEF TypeOK, MainInStep, Rounds
<1>8. EverybodyInside'
  BY DEF TypeOK, EverybodyInside, Blocked, Holding, Owned, MainOwned, MainHolds, Rounds, InStep
<1> QED BY <1>1, <1>3, <1>4, <1>5, <1>6, <1>7, <1>8

\* All clients are created.
LEMMA CreatedIInv ==
  ASSUME IInv, Created
  PROVE  IInv'
<1> USE PhasesAssumption, ThreadsAssumption DEF IInv, MainAt, Created
<1>1. TypeOK'
  BY DEF TypeOK, Rounds, Holding, Blocked, MainInStep
<1>2. \A u \in Threads : Arrived(u)' = Arrived(u)
  BY DEF TypeOK, Arrived, Past, Blocked
<1>3. Counted'
  BY <1>2, CountedStays
<1>4. Owned'
  BY DEF TypeOK, Owned, Rounds, Holding, Blocked, InStep, MainOwned, MainHolds
<1>5. MainOwned'
  BY DEF TypeOK, MainOwned, MainHolds, Rounds, Owned, Holding
<1>6. InStep'
  BY <1>2 DEF TypeOK, InStep, Blocked, Holding, EverybodyInside
<1>7. MainInStep'
  BY DEF TypeOK, MainInStep, Rounds
<1>8. EverybodyInside'
  BY DEF TypeOK, EverybodyInside, Blocked, Holding, Owned, MainOwned, MainHolds, Rounds, InStep
<1> QED BY <1>1, <1>3, <1>4, <1>5, <1>6, <1>7, <1>8

\* main waits, or knows that every client is inside.
LEMMA MainTestIInv ==
  ASSUME IInv, MainTest
  PROVE  IInv'
<1> USE PhasesAssumption, ThreadsAssumption DEF IInv, MainAt, MainTest
<1>1. TypeOK'
  BY DEF TypeOK, Rounds, Holding, Blocked
<1>2. \A u \in Threads : Arrived(u)' = Arrived(u)
  BY DEF TypeOK, Arrived, Past, Blocked
<1>3. Counted'
  BY <1>2, CountedStays
<1>4. Owned'
  BY DEF TypeOK, Owned, Rounds, Holding, Blocked, InStep, MainOwned, MainHolds
<1>5. MainOwned'
  BY DEF TypeOK, MainOwned, MainHolds, Rounds, Owned, Holding
<1>6. InStep'
  BY <1>2 DEF TypeOK, InStep, Blocked, Holding, EverybodyInside
<1>7. MainInStep'
  BY DEF TypeOK, MainInStep, Rounds
<1>8. EverybodyInside'
  <2> SUFFICES ASSUME mpc' \in {"locknext", "broadcast", "advance"},
                      NEW t \in Threads
               PROVE  idx[t] = phase /\ pc[t] \in Blocked
    BY DEF EverybodyInside
  <2>1. phase \in Rounds /\ ~(inside[phase] < N) /\ phase \in Nat
    BY DEF TypeOK, Rounds
  <2>2. Arrived(t) > phase
    BY <2>1, FullRound
  <2>3. idx[t] = phase /\ Past(t)
    BY <2>1, <2>2 DEF TypeOK, InStep, Arrived
  <2>4. owner[phase] = Main
    BY <2>1 DEF MainOwned, MainHolds
  <2>5. pc[t] \notin Holding
    BY <2>1, <2>3, <2>4 DEF Owned
  <2> QED BY <2>3, <2>5 DEF Past, Holding
<1> QED BY <1>1, <1>3, <1>4, <1>5, <1>6, <1>7, <1>8

\* The wait of main returns.
LEMMA MainRelockIInv ==
  ASSUME IInv, MainRelock
  PROVE  IInv'
<1> USE PhasesAssumption, ThreadsAssumption DEF IInv, MainAt, FailAndExit, MainRelock
<1>1. TypeOK'
  BY DEF TypeOK, Rounds, Holding, Blocked
<1>2. \A u \in Threads : Arrived(u)' = Arrived(u)
  BY DEF TypeOK, Arrived, Past, Blocked
<1>3. Counted'
  BY <1>2, CountedStays
<1>4. Owned'
  BY DEF TypeOK, Owned, Rounds, Holding, Blocked, InStep, MainOwned, MainHolds
<1>5. MainOwned'
  BY DEF TypeOK, MainOwned, MainHolds, Rounds, Owned, Holding
<1>6. InStep'
  BY <1>2 DEF TypeOK, InStep, Blocked, Holding, EverybodyInside
<1>7. MainInStep'
  BY DEF TypeOK, MainInStep, Rounds
<1>8. EverybodyInside'
  BY DEF TypeOK, EverybodyInside, Blocked, Holding, Owned, MainOwned, MainHolds, Rounds, InStep
<1> QED BY <1>1, <1>3, <1>4, <1>5, <1>6, <1>7, <1>8

\* main locks the mutex of the next round.
LEMMA LockNextIInv ==
  ASSUME IInv, LockNext
  PROVE  IInv'
<1> USE PhasesAssumption, ThreadsAssumption DEF IInv, MainAt, LockNext
<1>1. TypeOK'
  BY DEF TypeOK, Rounds, Holding, Blocked
<1>2. \A u \in Threads : Arrived(u)' = Arrived(u)
  BY DEF TypeOK, Arrived, Past, Blocked
<1>3. Counted'
  BY <1>2, CountedStays
<1>4. Owned'
  BY DEF TypeOK, Owned, Rounds, Holding, Blocked, InStep, MainOwned, MainHolds
<1>5. MainOwned'
  BY DEF TypeOK, MainOwned, MainHolds, Rounds, Owned, Holding
<1>6. InStep'
  BY <1>2 DEF TypeOK, InStep, Blocked, Holding, EverybodyInside
<1>7. MainInStep'
  BY DEF TypeOK, MainInStep, Rounds
<1>8. EverybodyInside'
  BY DEF TypeOK, EverybodyInside, Blocked, Holding, Owned, MainOwned, MainHolds, Rounds, InStep
<1> QED BY <1>1, <1>3, <1>4, <1>5, <1>6, <1>7, <1>8

\* main wakes the clients.
LEMMA BroadcastClientsIInv ==
  ASSUME IInv, BroadcastClients
  PROVE  IInv'
<1> USE PhasesAssumption, ThreadsAssumption DEF IInv, MainAt, Broadcast, BroadcastClients
<1>1. TypeOK'
  BY DEF TypeOK, Rounds, Holding, Blocked
<1>2. \A u \in Threads : Arrived(u)' = Arrived(u)
  BY DEF TypeOK, Arrived, Past, Blocked
<1>3. Counted'
  BY <1>2, CountedStays
<1>4. Owned'
  BY DEF TypeOK, Owned, Rounds, Holding, Blocked, InStep, MainOwned, MainHolds
<1>5. MainOwned'
  BY DEF TypeOK, MainOwned, MainHolds, Rounds, Owned, Holding
<1>6. InStep'
  BY <1>2 DEF TypeOK, InStep, Blocked, Holding, EverybodyInside
<1>7. MainInStep'
  BY DEF TypeOK, MainInStep, Rounds
<1>8. EverybodyInside'
  BY DEF TypeOK, EverybodyInside, Blocked, Holding, Owned, MainOwned, MainHolds, Rounds, InStep
<1> QED BY <1>1, <1>3, <1>4, <1>5, <1>6, <1>7, <1>8

\* main opens the round.
LEMMA AdvanceIInv ==
  ASSUME IInv, Advance
  PROVE  IInv'
<1> USE PhasesAssumption, ThreadsAssumption DEF IInv, MainAt, Advance
<1>1. TypeOK'
  BY DEF TypeOK, Rounds, Holding, Blocked
<1>2. \A u \in Threads : Arrived(u)' = Arrived(u)
  BY DEF TypeOK, Arrived, Past, Blocked
<1>3. Counted'
  BY <1>2, CountedStays
<1>4. Owned'
  BY DEF TypeOK, Owned, Rounds, Holding, Blocked, InStep, MainOwned, MainHolds
<1>5. MainOwned'
  BY DEF TypeOK, MainOwned, MainHolds, Rounds, Owned, Holding
<1>6. InStep'
  <2>1. \A u \in Threads : idx[u] = phase /\ pc[u] \in Blocked
    BY DEF EverybodyInside
  <2>2. phase \in Nat /\ \A u \in Threads : Arrived(u) = phase + 1
    BY <2>1 DEF Arrived, Past, TypeOK
  <2> QED BY <1>2, <2>1, <2>2 DEF InStep, Blocked
<1>7. MainInStep'
  BY DEF TypeOK, MainInStep, Rounds
<1>8. EverybodyInside'
  BY DEF TypeOK, EverybodyInside, Blocked, Holding, Owned, MainOwned, MainHolds, Rounds, InStep
<1> QED BY <1>1, <1>3, <1>4, <1>5, <1>6, <1>7, <1>8

\* main lets the clients go.
LEMMA MainUnlockIInv ==
  ASSUME IInv, MainUnlock
  PROVE  IInv'
<1> USE PhasesAssumption, ThreadsAssumption DEF IInv, MainAt, MainUnlock
<1>1. TypeOK'
  BY DEF TypeOK, Rounds, Holding, Blocked
<1>2. \A u \in Threads : Arrived(u)' = Arrived(u)
  BY DEF TypeOK, Arrived, Past, Blocked
<1>3. Counted'
  BY <1>2, CountedStays
<1>4. Owned'
  BY DEF TypeOK, Owned, Rounds, Holding, Blocked, InStep, MainOwned, MainHolds
<1>5. MainOwned'
  BY DEF TypeOK, MainOwned, MainHolds, Rounds, Owned, Holding
<1>6. InStep'
  BY <1>2 DEF TypeOK, InStep, Blocked, Holding, EverybodyInside
<1>7. MainInStep'
  BY DEF TypeOK, MainInStep, Rounds
<1>8. EverybodyInside'
  BY DEF TypeOK, EverybodyInside, Blocked, Holding, Owned, MainOwned, MainHolds, Rounds, InStep
<1> QED BY <1>1, <1>3, <1>4, <1>5, <1>6, <1>7, <1>8

\* main has joined the clients.
LEMMA JoinIInv ==
  ASSUME IInv, Join
  PROVE  IInv'
<1> USE PhasesAssumption, ThreadsAssumption DEF IInv, MainAt, Join
<1>1. TypeOK'
  BY DEF TypeOK, Rounds, Holding, Blocked
<1>2. \A u \in Threads : Arrived(u)' = Arrived(u)
  BY DEF TypeOK, Arrived, Past, Blocked
<1>3. Counted'
  BY <1>2, CountedStays
<1>4. Owned'
  BY DEF TypeOK, Owned, Rounds, Holding, Blocked, InStep, MainOwned, MainHolds
<1>5. MainOwned'
  BY DEF TypeOK, MainOwned, MainHolds, Rounds, Owned, Holding
<1>6. InStep'
  BY <1>2 DEF TypeOK, InStep, Blocked, Holding, EverybodyInside
<1>7. MainInStep'
  BY DEF TypeOK, MainInStep, Rounds
<1>8. EverybodyInside'
  BY DEF TypeOK, EverybodyInside, Blocked, Holding, Owned, MainOwned, MainHolds, Rounds, InStep
<1> QED BY <1>1, <1>3, <1>4, <1>5, <1>6, <1>7, <1>8

\* main returns.
LEMMA DestroyIInv ==
  ASSUME IInv, Destroy
  PROVE  IInv'
<1> USE PhasesAssumption, ThreadsAssumption DEF IInv, MainAt, Destroy
<1>1. TypeOK'
  BY DEF TypeOK, Rounds, Holding, Blocked
<1>2. \A u \in Threads : Arrived(u)' = Arrived(u)
  BY DEF TypeOK, Arrived, Past, Blocked
<1>3. Counted'
  BY <1>2, CountedStays
<1>4. Owned'
  BY DEF TypeOK, Owned, Rounds, Holding, Blocked, InStep, MainOwned, MainHolds
<1>5. MainOwned'
  BY DEF TypeOK, MainOwned, MainHolds, Rounds, Owned, Holding
<1>6. InStep'
  BY <1>2 DEF TypeOK, InStep, Blocked, Holding, EverybodyInside
<1>7. MainInStep'
  BY DEF TypeOK, MainInStep, Rounds
<1>8. EverybodyInside'
  BY DEF TypeOK, EverybodyInside, Blocked, Holding, Owned, MainOwned, MainHolds, Rounds, InStep
<1> QED BY <1>1, <1>3, <1>4, <1>5, <1>6, <1>7, <1>8

\* A client is created.
LEMMA CreateIInv ==
  ASSUME IInv, NEW t \in Threads, Create(t)
  PROVE  IInv'
<1> USE PhasesAssumption, ThreadsAssumption DEF IInv, MainAt, Create
<1>1. TypeOK'
  BY DEF TypeOK, Rounds, Holding, Blocked
<1>2. \A u \in Threads : Arrived(u)' = Arrived(u)
  BY DEF TypeOK, Arrived, Past, Blocked
<1>3. Counted'
  BY <1>2, CountedStays
<1>4. Owned'
  BY DEF TypeOK, Owned, Rounds, Holding, Blocked, InStep, MainOwned, MainHolds
<1>5. MainOwned'
  BY DEF TypeOK, MainOwned, MainHolds, Rounds, Owned, Holding
<1>6. InStep'
  BY <1>2 DEF TypeOK, InStep, Blocked, Holding, EverybodyInside
<1>7. MainInStep'
  BY DEF TypeOK, MainInStep, Rounds
<1>8. EverybodyInside'
  BY DEF TypeOK, EverybodyInside, Blocked, Holding, Owned, MainOwned, MainHolds, Rounds, InStep
<1> QED BY <1>1, <1>3, <1>4, <1>5, <1>6, <1>7, <1>8

\* main leaves the condition variable by itself.
LEMMA MainWakesIInv ==
  ASSUME IInv, NEW at \in {"woken", "timedout"}, MainWakes(at)
  PROVE  IInv'
<1> USE PhasesAssumption, ThreadsAssumption DEF IInv, MainAt, WakesUp, MainWakes
<1>1. TypeOK'
  BY DEF TypeOK, Rounds, Holding, Blocked
<1>2. \A u \in Threads : Arrived(u)' = Arrived(u)
  BY DEF TypeOK, Arrived, Past, Blocked
<1>3. Counted'
  BY <1>2, CountedStays
<1>4. Owned'
  BY DEF TypeOK, Owned, Rounds, Holding, Blocked, InStep, MainOwned, MainHolds
<1>5. MainOwned'
  BY DEF TypeOK, MainOwned, MainHolds, Rounds, Owned, Holding
<1>6. InStep'
  BY <1>2 DEF TypeOK, InStep, Blocked, Holding, EverybodyInside
<1>7. MainInStep'
  BY DEF TypeOK, MainInStep, Rounds
<1>8. EverybodyInside'
  BY DEF TypeOK, EverybodyInside, Blocked, Holding, Owned, MainOwned, MainHolds, Rounds, InStep
<1> QED BY <1>1, <1>3, <1>4, <1>5, <1>6, <1>7, <1>8

-----------------------------------------------------------------------------
(* The invariant is inductive, and implies the properties. *)

LEMMA StepIInv == IInv /\ [Next]_vars => IInv'
<1> SUFFICES ASSUME IInv, [Next]_vars PROVE IInv'
  OBVIOUS
<1>1. ASSUME NEW t \in Threads, Client(t) PROVE IInv'
  BY <1>1, LockIInv, EnterIInv, CheckIInv, RelockIInv, UnlockIInv DEF Client
<1>2. CASE MainStep
  BY <1>2, StartIInv, CreateIInv, CreatedIInv, MainTestIInv, MainRelockIInv,
     LockNextIInv, BroadcastClientsIInv, AdvanceIInv, MainUnlockIInv, JoinIInv,
     DestroyIInv DEF MainStep
<1>3. CASE Wakeup
  BY <1>3, ClientWakesIInv, MainWakesIInv DEF Wakeup
<1>4. ASSUME UNCHANGED vars PROVE IInv'
  <2> USE <1>4 DEF vars
  <2>1. TypeOK'
    BY DEF IInv, TypeOK, Rounds
  <2>2. \A t \in Threads : Arrived(t)' = Arrived(t)
    BY DEF Arrived, Past
  <2>3. Counted'
    BY <2>2, CountedStays DEF IInv
  <2>4. Owned' /\ MainOwned' /\ MainInStep' /\ EverybodyInside'
    BY DEF IInv, Owned, MainOwned, MainHolds, MainInStep, EverybodyInside, Rounds
  <2>5. InStep'
    BY <2>2 DEF IInv, InStep
  <2> QED BY <2>1, <2>3, <2>4, <2>5 DEF IInv
<1> QED BY <1>1, <1>2, <1>3, <1>4 DEF Next, Exited

\* The invariant holds in every reachable state.
THEOREM Invariance == Safe => []IInv
<1>1. IInv /\ [Next]_vars => IInv'
  BY StepIInv
<1> QED BY InitIInv, <1>1, PTL DEF Safe

\* Every variable keeps its type; no counter or index leaves its range.
THEOREM TypeCorrect == Safe => []TypeOK
<1>1. IInv => TypeOK
  BY DEF IInv
<1> QED BY Invariance, <1>1, PTL

\* When main is about to open a round every client waits inside it, for any
\* number of clients and rounds (comment on lines 144-146).
\* Nobody enters the next round before main lets go of the old one (comment
\* on lines 145-146).
THEOREM ByPermissionHolds == Safe => []ByPermission
<1>1. IInv => NobodyEarly
  <2> SUFFICES ASSUME IInv, mpc = "unlock", phase < Phases
               PROVE  inside[phase] = 0
    BY DEF NobodyEarly
  <2>1. phase \in Rounds /\ phase \in Nat
    BY PhasesAssumption DEF IInv, TypeOK, Rounds
  <2>2. Entered(phase) = {}
    BY <2>1 DEF IInv, InStep, Entered
  <2> QED BY <2>1, <2>2, FS_EmptySet DEF IInv, Counted
<1>2. IInv => ByPermission
  BY <1>1 DEF IInv, ByPermission
<1> QED BY Invariance, <1>2, PTL

\* cond_client is never used with two mutexes at a time, and phase and inside
\* are free of data races (lines 90, 98, 134 and 155).
THEOREM DefinedUseHolds == Safe => []DefinedUse
<1>1. IInv => OneMutex
  BY DEF IInv, InStep, OneMutex
<1>2. IInv => NoDataRace
  <2> SUFFICES ASSUME IInv PROVE NoDataRace
    OBVIOUS
  <2>1. mpc = "advance" => \A t \in Threads : pc[t] # "check"
    BY DEF IInv, EverybodyInside, Blocked
  <2>2. ASSUME mpc = "test", NEW t \in Threads, idx[t] = phase
        PROVE  pc[t] # "enter"
    <3>1. phase \in Rounds
      BY <2>2, PhasesAssumption DEF IInv, TypeOK, Rounds
    <3>2. owner[phase] = Main
      BY <2>2, <3>1 DEF IInv, MainOwned, MainHolds
    <3> QED BY <2>2, <3>1, <3>2, ThreadsAssumption DEF IInv, Owned, Holding
  <2> QED BY <2>1, <2>2 DEF NoDataRace
<1>3. IInv => DefinedUse
  BY <1>1, <1>2 DEF DefinedUse
<1> QED BY Invariance, <1>3, PTL

-----------------------------------------------------------------------------
(* The end of the process. *)

\* main joins the clients after the last round, and only the end of main is
\* an end without an error.
EndInv ==
  /\ mpc \in {"join", "destroy"} => phase = Phases
  /\ mpc = "destroy" => \A t \in Threads : pc[t] = "done"
  /\ exited /\ tStatus = 0 => mpc = "destroy"

\* The test reports success only after all clients went through all rounds,
\* also with a library that loses wakeups.
THEOREM SuccessIsRealHolds == Safe => []SuccessIsReal
<1>1. Init => EndInv
  BY DEF Init, EndInv
<1>2. TypeOK /\ EndInv /\ [Next]_vars => EndInv'
  <2> SUFFICES ASSUME TypeOK, EndInv, [Next]_vars PROVE EndInv'
    OBVIOUS
  <2> USE DEF EndInv, ClientAt, MainAt
  <2>1. ASSUME NEW t \in Threads, Client(t) PROVE EndInv'
    BY <2>1 DEF TypeOK, Client, Lock, Enter, Check, Relock, Unlock, SignalMain,
                FailAndExit
  <2>2. CASE MainStep
    BY <2>2, PhasesAssumption
       DEF TypeOK, MainStep, Start, Create, Created, MainTest, MainRelock,
           LockNext, BroadcastClients, Advance, MainUnlock, Join, Destroy,
           FailAndExit
  <2>3. CASE Wakeup
    BY <2>3 DEF Wakeup, ClientWakes, MainWakes
  <2>4. CASE UNCHANGED vars
    BY <2>4 DEF vars
  <2> QED BY <2>1, <2>2, <2>3, <2>4 DEF Next, Exited
<1>3. TypeOK /\ EndInv => SuccessIsReal
  BY DEF TypeOK, EndInv, SuccessIsReal
<1> QED BY <1>1, <1>2, <1>3, TypeCorrect, PTL DEF Safe

-----------------------------------------------------------------------------
(* The barrier. *)

\* A client that enters a round arrives at the barrier.
LEMMA EnterArrives ==
  ASSUME IInv, NEW t \in Threads, Enter(t)
  PROVE  Barrier!Arrive(t)
<1> USE PhasesAssumption DEF IInv, ClientAt, Enter
<1>1. Arrived(t) = phase /\ phase < Phases /\ idx[t] = phase
  BY DEF TypeOK, InStep, Arrived, Past, Blocked
<1>2. Arrived(t)' = phase + 1
  BY <1>1 DEF TypeOK, Arrived, Past
<1>3. \A u \in Threads \ {t} : Arrived(u)' = Arrived(u)
  BY DEF TypeOK, Arrived, Past, Blocked
<1> QED BY <1>1, <1>2, <1>3 DEF Barrier!Arrive

\* main opens the barrier when it advances phase.
LEMMA AdvanceOpens ==
  ASSUME IInv, Advance
  PROVE  Barrier!Open
<1> USE PhasesAssumption DEF IInv, MainAt, Advance
<1>1. phase < Phases
  BY DEF TypeOK
<1>2. \A t \in Threads : Arrived(t) = phase + 1
  BY DEF EverybodyInside, Arrived, Past
<1>3. \A t \in Threads : Arrived(t)' = Arrived(t)
  BY DEF Arrived, Past
<1> QED BY <1>1, <1>2, <1>3 DEF Barrier!Open

\* The barrier does not see any other step.
LEMMA OthersStutter ==
  ASSUME TypeOK, [Next]_vars, \A t \in Threads : ~Enter(t), ~Advance
  PROVE  UNCHANGED phase /\ \A t \in Threads : Arrived(t)' = Arrived(t)
<1> USE DEF ClientAt, MainAt, Arrived, Past, Blocked
<1>1. ASSUME NEW t \in Threads, Client(t)
      PROVE  UNCHANGED phase /\ \A u \in Threads : Arrived(u)' = Arrived(u)
  BY <1>1 DEF TypeOK, Client, Lock, Check, Relock, Unlock
<1>2. ASSUME MainStep
      PROVE  UNCHANGED phase /\ \A u \in Threads : Arrived(u)' = Arrived(u)
  <2>1. ASSUME BroadcastClients
        PROVE  UNCHANGED phase /\ \A u \in Threads : Arrived(u)' = Arrived(u)
    BY <2>1 DEF TypeOK, BroadcastClients, Broadcast
  <2> QED
    BY <1>2, <2>1 DEF TypeOK, MainStep, Start, Create, Created, MainTest,
       MainRelock, LockNext, MainUnlock, Join, Destroy
<1>3. ASSUME Wakeup
      PROVE  UNCHANGED phase /\ \A u \in Threads : Arrived(u)' = Arrived(u)
  BY <1>3 DEF TypeOK, Wakeup, ClientWakes, MainWakes
<1>4. ASSUME UNCHANGED vars
      PROVE  UNCHANGED phase /\ \A u \in Threads : Arrived(u)' = Arrived(u)
  BY <1>4 DEF vars
<1> QED BY <1>1, <1>2, <1>3, <1>4 DEF Next, Exited

\* The clients and main implement a barrier (PhaseBarrier), for any number of
\* clients and rounds, whatever wakes them up or times out.
THEOREM BarrierRefinement == Safe => ImplementsBarrier
<1>1. Init => Barrier!Init
  <2> SUFFICES ASSUME Init PROVE Barrier!Init
    OBVIOUS
  <2>1. \A t \in Threads : Arrived(t) = 0
    BY DEF Init, Arrived, Past, Blocked
  <2> QED BY <2>1 DEF Init, Barrier!Init
<1>2. IInv /\ [Next]_vars => [Barrier!Next]_Barrier!vars
  <2> SUFFICES ASSUME IInv, [Next]_vars PROVE [Barrier!Next]_Barrier!vars
    OBVIOUS
  <2>1. CASE \E t \in Threads : Enter(t)
    BY <2>1, EnterArrives DEF Barrier!Next
  <2>2. CASE Advance
    BY <2>2, AdvanceOpens DEF Barrier!Next
  <2>3. CASE (\A t \in Threads : ~Enter(t)) /\ ~Advance
    <3>1. UNCHANGED phase /\ \A t \in Threads : Arrived(t)' = Arrived(t)
      BY <2>3, OthersStutter DEF IInv
    <3> QED BY <3>1 DEF Barrier!vars
  <2> QED BY <2>1, <2>2, <2>3
<1> QED BY <1>1, <1>2, Invariance, PTL DEF Safe, Barrier!Safe, ImplementsBarrier

=============================================================================
