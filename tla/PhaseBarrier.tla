---------------------------- MODULE PhaseBarrier -----------------------------
(***************************************************************************)
(* A barrier that is used Phases times: what the clients and main of       *)
(* src/regression/pthread_cond-smasher.c build from one mutex per phase    *)
(* and two condition variables.                                            *)
(***************************************************************************)
EXTENDS Naturals

CONSTANTS Threads, Phases

VARIABLES
  arrived,   \* arrived[t]: how many phases thread t has entered
  opened     \* how many phases main has opened

vars == <<arrived, opened>>

TypeOK == arrived \in [Threads -> 0..Phases] /\ opened \in 0..Phases

Init == arrived = [t \in Threads |-> 0] /\ opened = 0

\* A thread enters the phase that is not open yet, never a later one.
Arrive(t) ==
  /\ opened < Phases
  /\ arrived[t] = opened
  /\ arrived' = [arrived EXCEPT ![t] = @ + 1]
  /\ UNCHANGED opened

\* The phase opens when every thread has entered it.
Open ==
  /\ opened < Phases
  /\ \A t \in Threads : arrived[t] = opened + 1
  /\ opened' = opened + 1
  /\ UNCHANGED arrived

Next == (\E t \in Threads : Arrive(t)) \/ Open

Safe == Init /\ [][Next]_vars

\* A barrier that also works: threads arrive and full phases open.
Live == WF_vars(Open) /\ \A t \in Threads : WF_vars(Arrive(t))

Spec == Safe /\ Live
=============================================================================
