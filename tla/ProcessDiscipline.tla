-------------------------- MODULE ProcessDiscipline --------------------------
(***************************************************************************)
(* What can be read off the text of a test that leaves nothing behind: it  *)
(* is main() that forks, it waits for each child before it forks again or  *)
(* can end, it removes the file it makes, and the System V object is       *)
(* removed by a child of which main() checks the exit status.              *)
(***************************************************************************)
EXTENDS Processes

\* Calls that may end a process although nothing has failed.
Leaving == {"_exit", "pthread_exit", "setlk_exit", "getlk_exit", "stop_child"}
MakesObject(c) == c.op = "get" /\ c.obj # "plain"
Removes(c) == c.op = "remove" /\ Failed \notin c.want
ChecksExit(c) == c.op = "check" /\ c.obj = "r" /\ 1 \notin c.want

UsesObject(p) == \E c \in CallsOf(p) : MakesObject(c)
WritesFile(p) == \E c \in CallsOf(p) : c.op \in {"mkstemp", "fwrite"}

\* After call i of s the process waits for a child, and does not end, fork or
\* unlink the file before.
Waited(s, i) ==
  \E j \in (i + 1)..Len(s) :
    /\ s[j].op = "wait"
    /\ \A k \in (i + 1)..(j - 1) : s[k].op \notin Leaving \cup {"fork", "unlink"}
Unlinked(s, i) == \E j \in (i + 1)..Len(s) : s[j].op = "unlink"
\* The exit status of the child that is waited for next is checked.
ExitChecked(s, i) ==
  \E j \in (i + 1)..(Len(s) - 1) :
    /\ s[j].op = "wait" /\ ChecksExit(s[j + 1])
    /\ \A k \in (i + 1)..(j - 1) : s[k].op \notin {"wait", "fork"}
\* A child will remove the object, or else main() will notice.
Removed(p, s, i) ==
  \E j \in (i + 1)..Len(s) :
    s[j].op = "fork" /\ (\E c \in CallsIn(p[s[j].obj]) : Removes(c)) /\ ExitChecked(s, j)

\* What main() has before it cleans up after itself.
CleansUp(p, s) ==
  \A i \in DOMAIN s :
    /\ s[i].op = "fork" => Waited(s, i) /\ (WritesFile(p) => Unlinked(s, i))
    /\ s[i].op = "mkstemp" => Unlinked(s, i)
    /\ MakesObject(s[i]) => Removed(p, s, i)
    /\ s[i].op # "fwrite"

\* A routine that is not main()'s leaves it to main() to make things.
Modest(s) == \A i \in DOMAIN s : s[i].op \notin {"fork", "mkstemp"} /\ ~MakesObject(s[i])
\* A thread ends without its process.
EndsAlone(s) ==
  /\ s # <<>> /\ s[Len(s)].op = "pthread_exit"
  /\ \A i \in DOMAIN s :
       s[i].op \notin {"_exit", "stop", "stop_child", "setlk_exit", "getlk_exit"}

\* Test t leaves nothing.
Tidy(t) ==
  LET p == Programs[t]
  IN /\ CleansUp(p, p["main"])
     /\ \A r \in DOMAIN p : r # "main" => Modest(p[r])
     /\ \A c \in CallsOf(p) :
          /\ c.op # "pthread_kill"
          /\ c.op \in {"fork", "create", "atexit"} => c.obj # "main"
          /\ c.op = "create" => EndsAlone(p[c.obj])
          /\ WritesFile(p) \/ UsesObject(p) => c.op \notin Leaving \cup {"create", "atexit"}
     /\ UsesObject(p) => Removed(p, p["main"], 0)
     /\ t \in Again => ~WritesFile(p)

-----------------------------------------------------------------------------
(* What a tidy test keeps to while it runs with a correct library. *)

Prog == Programs[test]
MainCalls == th[main].calls

\* The text that a thread has before it, and what its process has.
TextOK(a) ==
  /\ a # main => Modest(th[a].calls)
  /\ \A i \in DOMAIN th[a].signals : th[a].signals[i] # "fork"
  /\ th[a].state = "running" /\ th[a].process # a => EndsAlone(th[a].calls)
  /\ mem[a].atexit # "main"
  /\ mem[a].buffer => WritesFile(Prog)
\* A test that makes things has no threads and no handlers.
Simple(a) ==
  WritesFile(Prog) \/ UsesObject(Prog) =>
    (th[a].state # "none" => th[a].process = a) /\ mem[a].atexit = "none"
TextsOK ==
  /\ \A a \in Actors : TextOK(a) /\ Simple(a)
  /\ main # Nobody => CleansUp(Prog, MainCalls)
  /\ (file # "none" => WritesFile(Prog)) /\ (ipc.id # 0 => UsesObject(Prog))

\* main() has at most one child, for which it will wait, and nobody else has.
OneChild ==
  /\ \A a \in Actors :
       th[a].state # "none" => th[a].process = main \/ th[th[a].process].parent = main
  /\ \A b, c \in Children(main) : b = c
  /\ Children(main) # {} => Waited(MainCalls, 0)

\* main() will unlink the file that there is or that its child may write.
FileGoes ==
  /\ ~mem[main].buffer
  /\ WritesFile(Prog) /\ (file # "none" \/ Children(main) # {}) => Unlinked(MainCalls, 0)

\* The child that is to remove the object will do so or fail.
Accounts(b) ==
  \/ th[b].state = "zombie" /\ th[b].code = 1
  \/ th[b].state = "running" /\ (mem[b].status = 1 \/ \E c \in CallsIn(th[b].calls) : Removes(c))
\* The object that there is will be removed, or main() fails.
ObjectGoes ==
  ipc.id # 0 =>
    \/ Removed(Prog, MainCalls, 0)
    \/ ExitChecked(MainCalls, 0) /\ \E b \in Children(main) : Accounts(b)
    \/ MainCalls # <<>> /\ ChecksExit(Head(MainCalls)) /\ mem[main].var["r"] = 1
    \/ mem[main].status = 1

\* Nothing is left.
Clean == (\A a \in Actors : th[a].state = "none") /\ ipc.id = 0 /\ file = "none"

Tidiness ==
  bug = "none" /\ Tidy(test) =>
    /\ TextsOK
    /\ ~orphaned /\ main # Nobody => OneChild /\ FileGoes /\ ObjectGoes
    /\ ~orphaned /\ result = "pass" => Clean
=============================================================================
