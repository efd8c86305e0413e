------------------------------- MODULE MCBuild -------------------------------
(***************************************************************************)
(* Directories and sessions for Build.  Two tests show whether one         *)
(* interferes with the other, a static one the order of the two binaries,  *)
(* two sessions what one leaves to the next.                               *)
(***************************************************************************)
EXTENDS Build

Setup(tests, goals, jobs, harnessMayFail, canKill, maxSessions) ==
  [tests |-> tests, static |-> {"a"}, goals |-> goals, jobs |-> jobs,
   harnessMayFail |-> harnessMayFail, canKill |-> canKill,
   maxSessions |-> maxSessions]

\* Two jobs and edits; one job, a rerun, and sessions that are killed; a tree
\* that is cleaned up and built again.
Sessions == {Setup({"a", "b"}, {"all"}, 2, FALSE, FALSE, 2),
             Setup({"a"}, {"all", "dirrun"}, 1, FALSE, TRUE, 2),
             Setup({"a"}, {"all", "clean"}, 1, FALSE, FALSE, 3)}
\* `make run' on a built tree.
RunSessions == {Setup({"a"}, {"all", "run"}, 1, FALSE, FALSE, 2)}
\* runtest.exe cannot be built.
NoHarness == {Setup({"a", "b"}, {"all"}, 1, TRUE, FALSE, 1)}
=============================================================================
