------------------------------- MODULE Choose --------------------------------
(***************************************************************************)
(* The random numbers of src/common/rand.c: t_randn and t_randint on words *)
(* up to Largest, t_randrange, and t_choose, which chooses k unique numbers*)
(* of [0, n) in one of four ways.  One action per round of a loop.         *)
(*                                                                         *)
(* The generator behind rand64 may return any word at any time.            *)
(***************************************************************************)
EXTENDS Integers, FiniteSets

CONSTANTS
  Largest,     \* word of the generator, -1 in the code (2^64 - 1)
  SmallN,      \* below it numbers are selected one by one (16)
  FewK,        \* below it numbers are picked and compared (8)
  Ratio,       \* n < Ratio * k is shuffled (5)
  MinLen,      \* length of the smallest hash table (16)
  Calls        \* the calls made, as records of a kind and two arguments

Words == 0..Largest
Call(kind, a, b) == [kind |-> kind, a |-> a, b |-> b]

ASSUME ChooseAssumption ==
  /\ Largest \in Nat /\ SmallN \in Nat /\ FewK \in Nat /\ Ratio \in Nat /\ MinLen \in Nat \ {0}
  /\ Calls \subseteq
       {Call("randint", a, b) : a \in Words, b \in Words}
       \cup {Call("choose", a, b) : a \in Words, b \in Words}
       \cup {Call("randrange", a, a) : a \in Words}
  /\ \A c \in Calls : c.kind = "randint" => c.a <= c.b

VARIABLES
  call,       \* what was called
  pc,         \* the loop that runs
  n, k, i,    \* variables of t_choose
  p,          \* the numbers chosen
  tab, len,   \* its table, cards left over or a hash table of some length
  np,         \* cards that shuffle2 has still to exchange
  first,      \* is p the first argument of shuffle2?
  slot, j, v, \* variables of insert
  ret         \* the result

vars == <<call, pc, n, k, i, p, tab, len, np, first, slot, j, v, ret>>
table == <<tab, len>>
insertion == <<slot, j, v>>
shuffling == <<np, first>>

NoNumber == -1
Array(size, x) == [y \in 0..size - 1 |-> x]

\* Mutant: one word too many is accepted.
Accepted_one_more(m) == {r \in Words : r <= Largest - (Largest % m)}

\* Random words from the largest multiple of m below Largest on are rejected.
Accepted(m) == {r \in Words : r < Largest - (Largest % m)}
\* What t_randn(m) may return.
Draws(m) == {r % m : r \in Accepted(m)}

\* What t_randint(a, b) may return, for every word of the generator that it
\* accepts; a range of all words wraps to 0.
RandInt(a, b) ==
  LET size == (b - a + 1) % (Largest + 1)
  IN IF size = 0 THEN [r \in Words |-> r]
     ELSE [r \in Accepted(size) |-> (a + (r % size)) % (Largest + 1)]

-----------------------------------------------------------------------------

Init ==
  /\ call \in Calls
  /\ pc = "called"
  /\ n = call.a /\ k = call.b /\ i = 0
  /\ p = Array(call.b, NoNumber) /\ tab = Array(0, 0) /\ len = 0
  /\ np = 0 /\ first = TRUE
  /\ slot = 0 /\ j = 0 /\ v = 0
  /\ ret = 0

Return(r) == pc' = "done" /\ ret' = r

TRandInt ==
  /\ pc = "called" /\ call.kind = "randint"
  /\ \E r \in DOMAIN RandInt(n, k) : Return(RandInt(n, k)[r])
  /\ UNCHANGED <<call, n, k, i, p, table, shuffling, insertion>>

\* p[0..] = 0, 1, ... before it is shuffled with nothing.
TRandRange ==
  /\ pc = "called" /\ call.kind = "randrange"
  /\ p' = [x \in 0..k - 1 |-> x]
  /\ np' = k /\ pc' = "shuffle"
  /\ UNCHANGED <<call, n, k, i, table, first, insertion, ret>>

ChooseTooMany ==
  /\ pc = "called" /\ call.kind = "choose" /\ n < k
  /\ Return(-1)
  /\ UNCHANGED <<call, n, k, i, p, table, shuffling, insertion>>

ChooseSmall ==
  /\ pc = "called" /\ call.kind = "choose" /\ n >= k
  /\ \/ n < SmallN /\ pc' = "select"
     \/ n >= SmallN /\ k < FewK /\ pc' = "pick"
  /\ UNCHANGED <<call, n, k, i, p, table, shuffling, insertion, ret>>

\* The conditions of the two ways that allocate a table.
IsLarge == pc = "called" /\ call.kind = "choose" /\ n >= k /\ n >= SmallN /\ k >= FewK

\* malloc, which may have nothing to allocate when n = k, or calloc fails.
MallocFails ==
  /\ \/ IsLarge /\ n < Ratio * k
     \/ pc = "size" /\ len >= 2 * k
  /\ Return(-1)
  /\ UNCHANGED <<call, n, k, i, p, table, shuffling, insertion>>

\* The smaller of p and the rest is what shuffle2 exchanges.  The second
\* condition of line 139 is left out: it asks whether a multiple of the size of a
\* number is less than the largest word, which it always is.
ChooseShuffled ==
  /\ IsLarge /\ n < Ratio * k
  /\ p' = [x \in 0..k - 1 |-> x]
  /\ tab' = [x \in 0..n - k - 1 |-> k + x]
  /\ first' = (k < n - k)
  /\ np' = IF k < n - k THEN k ELSE n - k
  /\ pc' = "shuffle"
  /\ UNCHANGED <<call, n, k, i, len, insertion, ret>>

ChooseHashed ==
  /\ IsLarge /\ n >= Ratio * k
  /\ len' = MinLen /\ pc' = "size"
  /\ UNCHANGED <<call, n, k, i, p, tab, shuffling, insertion, ret>>

-----------------------------------------------------------------------------
(* The loops. *)

Select ==
  /\ pc = "select" /\ k > 0
  /\ \E r \in Draws(n) :
       IF r < k THEN k' = k - 1 /\ p' = [p EXCEPT ![k - 1] = n - 1]
       ELSE UNCHANGED <<k, p>>
  /\ n' = n - 1
  /\ UNCHANGED <<call, pc, i, table, shuffling, insertion, ret>>

\* Mutant: the number is compared with itself as well.
Pick_itself ==
  /\ pc = "pick" /\ i < k
  /\ \E r \in Draws(n) :
       /\ p' = [p EXCEPT ![i] = r]
       /\ i' = IF \E x \in 0..i : p'[x] = r THEN i ELSE i + 1
  /\ UNCHANGED <<call, pc, n, k, table, shuffling, insertion, ret>>

Pick ==
  /\ pc = "pick" /\ i < k
  /\ \E r \in Draws(n) :
       /\ p' = [p EXCEPT ![i] = r]
       /\ i' = IF \E x \in 0..i - 1 : p[x] = r THEN i ELSE i + 1
  /\ UNCHANGED <<call, pc, n, k, table, shuffling, insertion, ret>>

\* Mutant: the card that makes place in a is lost.
Exchange_lost(a, b, nq, r) ==
  IF r < nq THEN <<[a EXCEPT ![np - 1] = b[r]], b>>
  ELSE <<[a EXCEPT ![np - 1] = a[r - nq], ![r - nq] = a[np - 1]], b>>

\* One round of shuffle2(a, b, np, nq): the last of np cards of a changes its
\* place with card r of both.
Exchange(a, b, nq, r) ==
  IF r < nq
    THEN <<[a EXCEPT ![np - 1] = b[r]], [b EXCEPT ![r] = a[np - 1]]>>
    ELSE <<[a EXCEPT ![np - 1] = a[r - nq], ![r - nq] = a[np - 1]], b>>

\* t_randrange has n = k, and nothing to exchange with.
Shuffle ==
  /\ pc = "shuffle" /\ np > 0
  /\ IF first
       THEN \E r \in Draws(n - k + np) :
              LET e == Exchange(p, tab, n - k, r) IN p' = e[1] /\ tab' = e[2]
       ELSE \E r \in Draws(k + np) :
              LET e == Exchange(tab, p, k, r) IN tab' = e[1] /\ p' = e[2]
  /\ np' = np - 1
  /\ UNCHANGED <<call, pc, n, k, i, len, first, insertion, ret>>

\* for (len = MinLen; len < 2*k; len *= 2);
Double ==
  /\ pc = "size" /\ len < 2 * k
  /\ len' = 2 * len
  /\ UNCHANGED <<call, pc, n, k, i, p, tab, shuffling, insertion, ret>>

Allocate ==
  /\ pc = "size" /\ len >= 2 * k
  /\ tab' = Array(len, 0)
  /\ pc' = "insert"
  /\ UNCHANGED <<call, n, k, i, p, len, shuffling, insertion, ret>>

\* insert(tab, len, t_randn(n) + 1) begins
Insert ==
  /\ pc = "insert" /\ i < k
  /\ \E r \in Draws(n) : v' = r + 1 /\ slot' = (r + 1) % len
  /\ j' = 1 /\ pc' = "probe"
  /\ UNCHANGED <<call, n, k, i, p, table, shuffling, ret>>

\* It finds the number, or puts it at an empty slot, or goes on.
Probe ==
  /\ pc = "probe"
  /\ IF tab[slot] \in {0, v}
       THEN /\ pc' = "insert"
            /\ i' = IF tab[slot] = 0 THEN i + 1 ELSE i
            /\ tab' = [tab EXCEPT ![slot] = v]
            /\ UNCHANGED <<slot, j>>
       ELSE /\ slot' = (slot + j) % len
            /\ j' = j + 1
            /\ UNCHANGED <<pc, i, tab>>
  /\ UNCHANGED <<call, n, k, p, len, shuffling, v, ret>>

\* From here on i is an index of the table, and j one of p.
CopyBegins ==
  /\ pc = "insert" /\ i = k
  /\ i' = 0 /\ j' = 0 /\ pc' = "copy"
  /\ UNCHANGED <<call, n, k, p, table, shuffling, slot, v, ret>>

\* Mutant: empty slots are copied as well.
Copy_empty ==
  /\ pc = "copy" /\ i < len
  /\ p' = [p EXCEPT ![j] = tab[i] - 1]
  /\ i' = i + 1 /\ j' = j + 1
  /\ UNCHANGED <<call, pc, n, k, table, shuffling, slot, v, ret>>

\* if (tab[i]) *p++ = tab[i]-1;
Copy ==
  /\ pc = "copy" /\ i < len
  /\ IF tab[i] # 0 THEN p' = [p EXCEPT ![j] = tab[i] - 1] /\ j' = j + 1
     ELSE UNCHANGED <<p, j>>
  /\ i' = i + 1
  /\ UNCHANGED <<call, pc, n, k, table, shuffling, slot, v, ret>>

LoopEnds ==
  /\ \/ pc = "select" /\ k = 0
     \/ pc = "pick" /\ i = k
     \/ pc = "shuffle" /\ np = 0
     \/ pc = "copy" /\ i = len
  /\ Return(0)
  /\ UNCHANGED <<call, n, k, i, p, table, shuffling, insertion>>

Next ==
  \/ TRandInt \/ TRandRange \/ ChooseTooMany \/ ChooseSmall \/ MallocFails
  \/ ChooseShuffled \/ ChooseHashed \/ Select \/ Pick \/ Shuffle \/ Double
  \/ Allocate \/ Insert \/ Probe \/ CopyBegins \/ Copy \/ LoopEnds

\* The generator runs through all its states, so that a number that has not
\* been chosen yet is drawn again and again.
Spec ==
  /\ Init /\ [][Next]_vars
  /\ WF_vars(Next)
  /\ SF_vars(Pick /\ i' # i)
  /\ SF_vars(Insert /\ \A x \in DOMAIN tab : tab[x] # v')

-----------------------------------------------------------------------------
(* Properties. *)

\* p++ stays in the array of the caller, and the slots inside of the table.
TypeOK ==
  /\ call \in Calls
  /\ pc \in {"called", "select", "pick", "shuffle", "size", "insert", "probe",
            "copy", "done"}
  /\ {n, k, i, len, np, slot, j, v} \subseteq Nat
  /\ p \in [0..call.b - 1 -> -1..Largest]
  /\ DOMAIN tab \subseteq Nat /\ \A s \in DOMAIN tab : tab[s] \in Nat
  /\ pc \in {"insert", "probe", "copy"} => DOMAIN tab = 0..len - 1
  /\ pc = "probe" => slot < len
  /\ pc = "copy" => j <= call.b
  /\ first \in BOOLEAN /\ ret \in -1..Largest

\* "choose k unique numbers from [0,n)" (rand.c line 109): whichever way it
\* goes, a successful t_choose leaves k different numbers below n in p, and
\* t_randrange leaves a permutation.
ChoosesUnique ==
  pc = "done" /\ ret = 0 /\ call.kind # "randint" =>
    /\ \A x \in 0..call.b - 1 : p[x] \in 0..call.a - 1
    /\ \A x, y \in 0..call.b - 1 : x # y => p[x] # p[y]

\* "uniform random in [0,n)" and "uniform on [a,b]" (rand.c lines 39 and 51):
\* as many words of the generator lead to one result as to any other.
Uniform ==
  LET from(x) == {r \in DOMAIN RandInt(call.a, call.b) : RandInt(call.a, call.b)[r] = x}
  IN pc = "called" /\ call.kind = "randint" =>
       /\ \A x \in call.a..call.b :
            Cardinality(from(x)) = Cardinality(from(call.a)) /\ from(x) # {}
       /\ \A r \in DOMAIN RandInt(call.a, call.b) :
            RandInt(call.a, call.b)[r] \in call.a..call.b

\* Every call returns: no retry goes on for ever.
Ends == <>(pc = "done")
=============================================================================
