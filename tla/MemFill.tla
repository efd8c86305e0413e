------------------------------- MODULE MemFill -------------------------------
(***************************************************************************)
(* t_vmfill and mmax of src/common/vmfill.c, t_memfill of memfill.c with   *)
(* t_setrlim, and the regression tests that run the library out of memory: *)
(* malloc-oom.c, pthread_create-oom.c, setenv-oom.c and malloc-brk-fail.c. *)
(*                                                                         *)
(* Sizes are counted in halves of a page, the finest difference that mmax  *)
(* makes, addresses in pages.  The kernel puts a mapping at any free place *)
(* that is large enough; a flaky one may also refuse it.  The library      *)
(* serves malloc from a reserve and gets a page by mmap when that is used  *)
(* up; brk always fails, for t_setrlim comes before the first malloc.      *)
(***************************************************************************)
EXTENDS Integers

CONSTANTS
  Pages,    \* the pages of the address space are 0..Pages-1
  Start,    \* SIZE_MAX/2 + 1
  Powers,   \* the powers of two from a page to Start
  Reserves  \* bound: what malloc may have in reserve at the start, in blocks

Page == 2
\* The blocks of a page, and of malloc(10000), malloc(50000), a thread, ...
PerPage == 2
Big == 2

ASSUME SizesAssumption ==
  /\ Pages \in Nat /\ Start \in Powers /\ Pages < Start
  /\ Powers \subseteq Nat
  /\ \A s \in Powers : s % 2 = 0 /\ (s = Page \/ (s > Page /\ s \div 2 \in Powers))
ASSUME ReservesAssumption == Reserves \subseteq Nat

Tests == {"malloc_oom", "pthread_create_oom", "setenv_oom", "malloc_brk_fail"}

VARIABLES
  test,     \* which test this is
  broken,   \* does the library have the bug the test is for?
  kernel,   \* "sound" or "flaky"
  free,     \* the pages that are not mapped
  reserve,  \* the blocks that malloc has left
  stocked,  \* (history) could the reserve at the start serve malloc(10000)?
  pc,       \* where the test is
  i, n,     \* of mmax
  start,    \* of t_vmfill
  m,        \* of t_vmfill
  count,    \* i of t_vmfill, the number of mappings
  first,    \* *p and *n of t_vmfill(&p, &n, 1): the first mapping
  ret,      \* what t_vmfill returned
  last,     \* (history) the size of the mapping made last
  status    \* t_status, or "crash"

search == <<i, n, start, m, count, first, ret, last>>
world == <<test, broken, kernel, stocked>>
vars == <<world, free, reserve, pc, search, status>>

PageRange(at, size) == at .. at + ((size + 1) \div 2) - 1
\* A mapping of this size fits somewhere.
Fits(size) == \E at \in 0..Pages - 1 : PageRange(at, size) \subseteq free
Refuses(size) == kernel = "flaky" \/ ~Fits(size)

TypeOK ==
  /\ test \in Tests /\ kernel \in {"sound", "flaky"} /\ {broken, stocked} \subseteq BOOLEAN
  /\ free \subseteq 0..Pages - 1
  /\ reserve \in Nat
  /\ pc \in {"probe", "map", "filled", "limit", "drain", "main", "again", "exit"}
  /\ start \in Powers /\ start <= Start
  /\ i \in Powers \cup {1} /\ i <= start
  /\ n \in i .. 2 * Start - i
  /\ m \in 0 .. 2 * Start - 2 /\ last \in 0 .. 2 * Start
  /\ count \in Nat
  /\ first \in [at : Nat, size : Nat]
  /\ ret \in Nat \cup {-1}
  /\ status \in {"0", "1", "crash"}

Init ==
  /\ test \in Tests /\ broken \in BOOLEAN /\ kernel \in {"sound", "flaky"}
  /\ free \in SUBSET (0..Pages - 1)
  /\ reserve \in Reserves /\ stocked = (reserve >= Big)
  /\ pc = "probe" /\ start = Start /\ i = Start /\ n = Start
  /\ m = 0 /\ count = 0 /\ first = [at |-> 0, size |-> 0] /\ ret = 0
  /\ last = 2 * Start /\ status = "0"
  /\ Fits(4)

-----------------------------------------------------------------------------
(* t_vmfill. *)

\* Mutant: the step is not halved before n is changed.
ProbeWholeStep ==
  /\ pc = "probe" /\ i >= Page
  /\ i' = i \div 2
  /\ \/ /\ Fits(n)
        /\ start' = IF n = i THEN n ELSE start
        /\ n' = n + i \div 2
     \/ /\ Refuses(n)
        /\ n' = n - i
        /\ UNCHANGED start
  /\ UNCHANGED <<world, free, reserve, pc, m, count, first, ret, last, status>>

\* One round of the loop in mmax: a mapping of n is tried and undone.
Probe ==
  /\ pc = "probe" /\ i >= Page
  /\ i' = i \div 2
  /\ \/ /\ Fits(n)
        /\ start' = IF n = i THEN n ELSE start
        /\ n' = n + i \div 2
     \/ /\ Refuses(n)
        /\ n' = n - i \div 2
        /\ UNCHANGED start
  /\ UNCHANGED <<world, free, reserve, pc, m, count, first, ret, last, status>>

\* Mutant: mmax rounds up.
FoundRoundedUp ==
  /\ pc = "probe" /\ i < Page
  /\ m' = n + (n % 2) /\ pc' = "map"
  /\ UNCHANGED <<world, free, reserve, i, n, start, count, first, ret, last, status>>

\* return n & -PAGE_SIZE;
Found ==
  /\ pc = "probe" /\ i < Page
  /\ m' = n - (n % 2) /\ pc' = "map"
  /\ UNCHANGED <<world, free, reserve, i, n, start, count, first, ret, last, status>>

\* Mutant: the mapping is undone as in mmax.
MapUndone ==
  /\ pc = "map" /\ m # 0
  /\ \/ \E at \in 0..Pages - 1 :
          /\ PageRange(at, m) \subseteq free
          /\ first' = IF count = 0 THEN [at |-> at, size |-> m] ELSE first
          /\ last' = m
          /\ i' = start /\ n' = start /\ pc' = "probe"
          /\ UNCHANGED <<free, count, ret>>
     \/ /\ Refuses(m)
        /\ ret' = -1 /\ pc' = "filled"
        /\ UNCHANGED <<free, first, count, last, i, n>>
  /\ UNCHANGED <<world, reserve, start, m, status>>

\* The mapping that fills a hole, after which mmax begins again.
Map ==
  /\ pc = "map" /\ m # 0
  /\ \/ \E at \in 0..Pages - 1 :
          /\ PageRange(at, m) \subseteq free
          /\ free' = free \ PageRange(at, m)
          /\ first' = IF count = 0 THEN [at |-> at, size |-> m] ELSE first
          /\ count' = count + 1 /\ last' = m
          /\ i' = start /\ n' = start /\ pc' = "probe"
          /\ UNCHANGED ret
     \/ /\ Refuses(m)
        /\ ret' = -1 /\ pc' = "filled"
        /\ UNCHANGED <<free, first, count, last, i, n>>
  /\ UNCHANGED <<world, reserve, start, m, status>>

\* No page is left.
Full ==
  /\ pc = "map" /\ m = 0
  /\ ret' = count /\ pc' = "filled"
  /\ UNCHANGED <<world, free, reserve, i, n, start, m, count, first, last, status>>

-----------------------------------------------------------------------------
(* t_memfill and main(). *)

\* What comes of t_vmfill: t_memfill reports an error and goes on,
\* malloc-brk-fail gives up.
CheckFilled ==
  /\ pc = "filled"
  /\ IF test = "malloc_brk_fail"
       THEN IF ret < 1 \/ first.size < 4
              THEN status' = "1" /\ pc' = "exit" ELSE pc' = "limit" /\ UNCHANGED status
       ELSE /\ status' = IF ret < 0 THEN "1" ELSE status
            /\ pc' = "limit"
  /\ UNCHANGED <<world, free, reserve, search>>

\* Mutant: the reserve is not used up.
LimitOnly ==
  /\ pc = "limit" /\ pc' = "main"
  /\ UNCHANGED <<world, free, reserve, search, status>>

\* t_setrlim(RLIMIT_DATA, 0), of which an error (setrlim.c lines 10-23) is left out.
Limit ==
  /\ pc = "limit"
  /\ pc' = IF test = "malloc_brk_fail" \/ ret < 0 THEN "main" ELSE "drain"
  /\ UNCHANGED <<world, free, reserve, search, status>>

\* malloc of some blocks, when these pages are free.
Malloc(blocks, available, ok) ==
  \/ /\ ok /\ reserve >= blocks
     /\ reserve' = reserve - blocks /\ free' = available
  \/ /\ ok /\ reserve < blocks /\ ~(broken /\ test = "malloc_brk_fail")
     /\ \E at \in available : free' = available \ {at}
     /\ reserve' = reserve + PerPage - blocks
  \/ /\ ~ok /\ reserve < blocks
     /\ \/ available = {} \/ kernel = "flaky"
        \/ broken /\ test = "malloc_brk_fail"
     /\ free' = available /\ UNCHANGED reserve

\* while (malloc(1));
Drain ==
  /\ pc = "drain"
  /\ \E ok \in BOOLEAN : Malloc(1, free, ok) /\ pc' = IF ok THEN "drain" ELSE "main"
  /\ UNCHANGED <<world, search, status>>

\* malloc, setenv or pthread_create has to fail, and to say why; the bug is
\* that it does not say so, or crashes.
MustFail ==
  /\ pc = "main" /\ test # "malloc_brk_fail"
  /\ \E ok \in BOOLEAN :
       /\ Malloc(Big, free, ok)
       /\ status' = IF broken /\ ~ok THEN IF test = "setenv_oom" THEN "crash" ELSE "1"
                    ELSE IF ok THEN "1" ELSE status
  /\ pc' = "exit"
  /\ UNCHANGED <<world, search>>

\* The first malloc(10000) of malloc-brk-fail.
FailsWhenFull ==
  /\ pc = "main" /\ test = "malloc_brk_fail"
  /\ \E ok \in BOOLEAN :
       Malloc(Big, free, ok) /\ status' = IF ok THEN "1" ELSE status
  /\ pc' = "again"
  /\ UNCHANGED <<world, search>>

\* munmap of the second 64k of the largest mapping, and the second malloc.
SucceedsAgain ==
  /\ pc = "again"
  /\ \E ok \in BOOLEAN :
       /\ Malloc(Big, free \cup {first.at + 1}, ok)
       /\ status' = IF ok THEN status ELSE "1"
  /\ pc' = "exit"
  /\ UNCHANGED <<world, search>>

Exited == pc = "exit" /\ UNCHANGED vars

Next == Probe \/ Found \/ Map \/ Full \/ CheckFilled \/ Limit \/ Drain \/ MustFail
        \/ FailsWhenFull \/ SucceedsAgain \/ Exited

Safe == Init /\ [][Next]_vars
\* The test is one thread; it goes on as long as it can.
Spec == Safe /\ WF_vars(Next)

-----------------------------------------------------------------------------
(* Properties. *)

\* "fills the virtual memory" and "in decreasing size order" (vmfill.c lines
\* 34-35): when the kernel refuses only what does not fit, mmax finds the
\* largest hole each time, its mapping never fails, and no page is left.
FillsAll ==
  kernel = "sound" =>
    /\ ret # -1
    /\ pc = "map" => m <= last /\ ~Fits(m + Page)
    /\ pc = "filled" => free = {}

\* The test tells a library with the bug from one without, whatever holes there
\* are and wherever mappings go, and a failure of t_vmfill is an error.  The
\* exception: malloc-brk-fail does not use up "libc reserves if any" (memfill.c
\* line 20) and fails with a library that can serve malloc(10000) from them.
RightVerdict ==
  pc = "exit" =>
    /\ kernel = "sound" /\ ~broken /\ ~(test = "malloc_brk_fail" /\ stocked) => status = "0"
    /\ kernel = "sound" /\ broken => status # "0"
    /\ ret = -1 => status # "0"

\* The search for holes, the filling and the draining come to an end.
Ends == <>(pc = "exit")
=============================================================================
