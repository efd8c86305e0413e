---------------------------- MODULE MemFillProofs ----------------------------
(***************************************************************************)
(* For every size of the address space, every pattern of holes and every   *)
(* placement: mmax brackets the largest mapping between n - i and n + i,   *)
(* so t_vmfill fills the largest hole each time and leaves none.           *)
(***************************************************************************)
EXTENDS MemFill, TLAPS

\* Two sizes with page boundaries inside, or nothing, between them: whatever
\* is at most n - i fits and nothing from n + i on does.
Bracket ==
  /\ i \in Powers => n % 2 = 0
  /\ i = 1 => n % 2 = 1
  /\ n = i \/ Fits(n - i)
  /\ ~Fits(n + i)

\* What is known of the mapping that mmax has found.
Largest == (m = 0 \/ Fits(m)) /\ ~Fits(m + Page)

\* The second page of a large first mapping exists, and malloc-brk-fail goes on
\* only if its first mapping is large.
FirstInside ==
  /\ first.size >= 4 => first.at + 1 < Pages
  /\ test = "malloc_brk_fail" /\ pc \in {"limit", "drain", "main", "again"} => first.size >= 4
  /\ pc = "again" => test = "malloc_brk_fail"

IInv ==
  /\ TypeOK /\ FirstInside
  /\ m % 2 = 0 /\ last % 2 = 0
  /\ kernel = "sound" =>
       /\ ret # -1
       /\ pc \in {"probe", "map"} => ~Fits(2 * start) /\ ~Fits(last + Page)
       /\ pc = "probe" => Bracket
       /\ pc = "map" => Largest
       /\ pc = "filled" => free = {}

-----------------------------------------------------------------------------
(* What fits. *)

\* The range of a smaller size is a part of the range of a larger one.
LEMMA FitsSmaller ==
  ASSUME NEW a \in Nat, NEW b \in Nat, b <= a, Fits(a)
  PROVE  Fits(b)
<1>1. PICK at \in 0..Pages - 1 : PageRange(at, a) \subseteq free
  BY DEF Fits
<1>2. PageRange(at, b) \subseteq PageRange(at, a)
  BY SizesAssumption DEF PageRange
<1> QED
  BY <1>1, <1>2 DEF Fits

\* Nothing larger than the address space fits.
LEMMA TooLarge ==
  ASSUME TypeOK, NEW a \in Nat, a >= 2 * Start
  PROVE  ~Fits(a)
<1> SUFFICES ASSUME NEW at \in 0..Pages - 1, PageRange(at, a) \subseteq free
             PROVE  FALSE
  BY DEF Fits
<1>1. Start \in Nat /\ Pages \in Nat /\ Pages < Start
  BY SizesAssumption
<1>2. at + ((a + 1) \div 2) - 1 >= Pages
  BY <1>1
<1>3. at + ((a + 1) \div 2) - 1 \in PageRange(at, a)
  BY <1>1, <1>2 DEF PageRange
<1> QED
  BY <1>1, <1>2, <1>3 DEF TypeOK

\* If no page fits, none is left.
LEMMA NothingLeft == ASSUME TypeOK, ~Fits(Page) PROVE free = {}
<1> SUFFICES ASSUME NEW at \in free PROVE FALSE
  OBVIOUS
<1>1. at \in 0..Pages - 1
  BY DEF TypeOK
<1>2. PageRange(at, Page) = {at}
  BY <1>1, SizesAssumption DEF PageRange, Page
<1> QED
  BY <1>1, <1>2 DEF Fits

\* Where less is free, less fits.
LEMMA FitsLess ==
  ASSUME free' \subseteq free, NEW a, ~Fits(a)
  PROVE  ~Fits(a)'
BY DEF Fits

\* Half of a power is a power, or half a page.
LEMMA Halves ==
  ASSUME NEW s \in Powers
  PROVE  /\ s \in Nat /\ s >= Page /\ s % 2 = 0 /\ s = 2 * (s \div 2)
         /\ s \div 2 \in Nat /\ (s \div 2 \in Powers \/ s \div 2 = 1)
BY SizesAssumption DEF Page

-----------------------------------------------------------------------------
(* The invariant. *)

LEMMA InitIInv == Init => IInv
<1> SUFFICES ASSUME Init PROVE IInv
  OBVIOUS
<1>1. Start \in Powers /\ Start \in Nat /\ Start >= Page /\ Start % 2 = 0
  BY SizesAssumption, Halves
<1>2. TypeOK
  BY <1>1, ReservesAssumption DEF Init, TypeOK, Page
<1>3. ~Fits(2 * start) /\ ~Fits(last + Page) /\ ~Fits(n + i)
  BY <1>1, <1>2, TooLarge DEF Init, Page
<1>4. Bracket
  BY <1>1, <1>3 DEF Init, Bracket, Page
<1> QED
  BY <1>1, <1>2, <1>3, <1>4 DEF Init, IInv, FirstInside

LEMMA ProbeKeepsType ==
  ASSUME IInv, Probe
  PROVE  TypeOK' /\ i \in Powers /\ i' = i \div 2
<1>1. i \in Powers /\ i \in Nat /\ i >= Page /\ i = 2 * (i \div 2)
      /\ i \div 2 \in Nat /\ (i \div 2 \in Powers \/ i \div 2 = 1)
  BY Halves DEF IInv, TypeOK, Probe, Page
<1>2. start \in Nat /\ Start \in Nat
  BY SizesAssumption DEF IInv, TypeOK
<1>3. i' = i \div 2 /\ i' \in Powers \cup {1} /\ i' \in Nat /\ i = 2 * i' /\ i' >= 1
  BY <1>1 DEF Probe, Page
<1>4. n \in Nat /\ i <= n /\ n <= 2 * Start - i
  BY <1>1, <1>2 DEF IInv, TypeOK
<1>5. n' \in i' .. 2 * Start - i'
  <2>1. n' = n + i' \/ n' = n - i'
    BY <1>3 DEF Probe
  <2> QED
    BY <2>1, <1>2, <1>3, <1>4
<1>6. start' \in Powers /\ i' <= start' /\ start' <= Start
  <2>1. start' = i \/ start' = start
    BY DEF Probe
  <2> QED
    BY <2>1, <1>1, <1>2, <1>3 DEF IInv, TypeOK
<1> QED
  BY <1>1, <1>3, <1>5, <1>6 DEF IInv, TypeOK, Probe, world

\* The arithmetic of a bracket of width a around b that is halved.
LEMMA Halving ==
  ASSUME NEW a \in Nat, NEW h \in Nat, NEW b \in Nat,
         2 * h = a, h >= 1, a <= b, b % 2 = 0
  PROVE  /\ (b + h) - h = b /\ (b + h) + h = b + a /\ b + h # h
         /\ (b - h) + h = b /\ (b - h) - h = b - a /\ (b = a => b - h = h)
         /\ h % 2 = 0 => (b + h) % 2 = 0 /\ (b - h) % 2 = 0
         /\ h = 1 => (b + h) % 2 = 1 /\ (b - h) % 2 = 1
OBVIOUS

\* The bracket becomes half as wide (vmfill.c lines 20-28).
LEMMA ProbeHalves ==
  ASSUME IInv, Probe, kernel = "sound"
  PROVE  Bracket' /\ ~Fits(2 * start)'
<1> DEFINE h == i \div 2
<1>1. /\ i \in Powers /\ i \in Nat /\ i >= 2 /\ i % 2 = 0 /\ 2 * h = i /\ h \in Nat /\ h >= 1
      /\ i' = h /\ (h \in Powers \/ h = 1)
  BY ProbeKeepsType, Halves DEF Page
<1>2. free' = free /\ pc = "probe"
  BY DEF Probe
<1>3. n \in Nat /\ i <= n /\ n % 2 = 0 /\ (n = i \/ Fits(n - i)) /\ ~Fits(n + i)
  <2>1. Start \in Nat
    BY SizesAssumption
  <2>2. i <= n /\ n \in Nat
    BY <1>1, <2>1 DEF IInv, TypeOK
  <2> QED
    BY <1>1, <1>2, <2>2 DEF IInv, Bracket
<1>4. /\ Fits(n - i)' <=> Fits(n' - i')
      /\ Fits(n + i)' <=> Fits(n' + i')
      /\ Fits(2 * start)' <=> Fits(2 * start')
  BY <1>2 DEF Fits, PageRange
<1>5. h \in Powers => h % 2 = 0
  BY Halves
<1> HIDE DEF h
<1>6. /\ (n + h) - h = n /\ (n + h) + h = n + i /\ n + h # h
      /\ (n - h) + h = n /\ (n - h) - h = n - i /\ (n = i => n - h = h)
      /\ h \in Powers => (n + h) % 2 = 0 /\ (n - h) % 2 = 0
      /\ h = 1 => (n + h) % 2 = 1 /\ (n - h) % 2 = 1
  BY <1>1, <1>3, <1>5, Halving
<1>7. CASE Fits(n) /\ n' = n + h /\ start' = IF n = i THEN n ELSE start
  <2>1. ~Fits(2 * start')
    <3>1. CASE n = i
      <4>1. start' = i /\ n + i = 2 * i
        BY <3>1, <1>1, <1>7
      <4> QED
        BY <4>1, <1>3
    <3>2. CASE n # i
      BY <3>2, <1>2, <1>7 DEF IInv
    <3> QED
      BY <3>1, <3>2
  <2>2. (i' \in Powers => n' % 2 = 0) /\ (i' = 1 => n' % 2 = 1)
    BY <1>1, <1>6, <1>7
  <2>3. Fits(n' - i') /\ ~Fits(n' + i')
    BY <1>1, <1>3, <1>6, <1>7
  <2> QED
    BY <2>1, <2>2, <2>3, <1>4 DEF Bracket
<1>8. CASE Refuses(n) /\ n' = n - h /\ start' = start
  <2>1. ~Fits(2 * start')
    BY <1>2, <1>8 DEF IInv
  <2>2. (i' \in Powers => n' % 2 = 0) /\ (i' = 1 => n' % 2 = 1)
    BY <1>1, <1>6, <1>8
  <2>3. (n' = i' \/ Fits(n' - i')) /\ ~Fits(n' + i')
    BY <1>1, <1>3, <1>6, <1>8 DEF Refuses
  <2> QED
    BY <2>1, <2>2, <2>3, <1>4 DEF Bracket
<1> QED
  BY <1>7, <1>8 DEF Probe, h

\* What mmax returns fits, and one page more does not (vmfill.c line 29).
LEMMA FoundIsLargest ==
  ASSUME IInv, Found
  PROVE  TypeOK' /\ m' % 2 = 0 /\ (kernel = "sound" => Largest')
<1>1. i = 1 /\ Start \in Nat /\ n \in 1 .. 2 * Start - 1 /\ n \in Nat
  <2>1. i \notin Powers
    BY Halves DEF Found, IInv, TypeOK, Page
  <2> QED
    BY <2>1, SizesAssumption DEF IInv, TypeOK
<1>2. m' = n - (n % 2) /\ m' % 2 = 0 /\ m' \in 0 .. 2 * Start - 2
  BY <1>1 DEF Found
<1>3. TypeOK'
  BY <1>2 DEF IInv, TypeOK, Found, world
<1>4. ASSUME kernel = "sound" PROVE Largest'
  <2>1. n % 2 = 1 /\ (n = 1 \/ Fits(n - 1)) /\ ~Fits(n + 1)
    BY <1>1, <1>4 DEF IInv, Found, Bracket
  <2>2. m' = n - 1 /\ m' + Page = n + 1
    BY <2>1, <1>1, <1>2 DEF Page
  <2>3. \A a : Fits(a)' <=> Fits(a)
    BY DEF Fits, Found
  <2> QED
    BY <2>1, <2>2, <2>3, <1>1 DEF Largest
<1> QED
  BY <1>2, <1>3, <1>4

\* Of two even sizes the one that fits is not larger than the other, when a
\* page more than the other does not fit.
LEMMA Decreasing ==
  ASSUME NEW a \in Nat, NEW b \in Nat, a % 2 = 0, b % 2 = 0,
         a = 0 \/ Fits(a), ~Fits(b + Page)
  PROVE  a <= b
<1> SUFFICES ASSUME a > b PROVE FALSE
  OBVIOUS
<1>1. a >= b + Page /\ b + Page \in Nat /\ a # 0
  BY DEF Page
<1> QED
  BY <1>1, FitsSmaller

\* A mapping of the largest hole: less is free, the sizes decrease, and mmax
\* begins again from a power that is still large enough (vmfill.c lines 44-50).
LEMMA MapKeeps == ASSUME IInv, Map PROVE IInv'
<1>1. m \in Nat /\ m % 2 = 0 /\ Start \in Nat /\ m <= 2 * Start - 2
  BY SizesAssumption DEF IInv, TypeOK
<1>2. free' \subseteq free /\ UNCHANGED <<start, m, kernel>>
  BY DEF Map, world
<1>3. kernel = "sound" => Fits(m) /\ ~Fits(m + Page)
  BY DEF IInv, Map, Largest
<1>4. CASE last' = m /\ i' = start /\ n' = start /\ pc' = "probe" /\ ret' = ret
           /\ count' = count + 1
           /\ first' \in [at : Nat, size : Nat]
           /\ (first'.size >= 4 => first'.at + 1 < Pages)
  <2>1. start \in Powers /\ start \in Nat /\ start >= 2 /\ start % 2 = 0 /\ start <= Start
    BY Halves, SizesAssumption DEF IInv, TypeOK, Page
  <2>2. TypeOK'
    BY <1>1, <1>2, <1>4, <2>1 DEF IInv, TypeOK, Map, world
  <2>3. ASSUME kernel = "sound"
        PROVE  ~Fits(2 * start)' /\ ~Fits(last + Page)' /\ Bracket'
    <3>1. ~Fits(2 * start)' /\ ~Fits(m + Page)'
      BY <1>2, <1>3, <2>3 DEF IInv, Map, Fits, PageRange
    <3>2. ~Fits(last + Page)'
      BY <3>1, <1>2, <1>4 DEF Fits, PageRange
    <3>3. n' + i' = 2 * start /\ n' = i' /\ n' % 2 = 0 /\ i' # 1
      BY <2>1, <1>4
    <3>4. ~Fits(n + i)'
      BY <3>1, <3>3, <1>2 DEF Fits, PageRange
    <3> QED
      BY <3>1, <3>2, <3>3, <3>4 DEF Bracket
  <2> QED
    BY <1>1, <1>2, <1>4, <2>2, <2>3 DEF IInv, FirstInside
<1>5. CASE ret' = -1 /\ pc' = "filled" /\ Refuses(m) /\ UNCHANGED <<free, first, count, last, i, n>>
  <2>1. kernel # "sound"
    BY <1>3, <1>5 DEF Refuses
  <2>2. TypeOK'
    BY <1>5 DEF IInv, TypeOK, Map, world
  <2> QED
    BY <1>1, <1>2, <1>5, <2>1, <2>2 DEF IInv, FirstInside
<1> QED
  <2>1. ASSUME NEW at \in 0..Pages - 1, PageRange(at, m) \subseteq free,
               first' = IF count = 0 THEN [at |-> at, size |-> m] ELSE first
        PROVE  /\ first' \in [at : Nat, size : Nat]
               /\ first'.size >= 4 => first'.at + 1 < Pages
    <3>1. at \in Nat /\ Pages \in Nat
      BY SizesAssumption
    <3>2. ASSUME m >= 4 PROVE at + 1 < Pages
      <4>1. at + 1 \in PageRange(at, m)
        BY <1>1, <3>1, <3>2 DEF PageRange
      <4> QED
        BY <2>1, <3>1, <4>1 DEF IInv, TypeOK
    <3> QED
      BY <2>1, <1>1, <3>1, <3>2 DEF IInv, TypeOK, FirstInside
  <2> QED
    BY <1>4, <1>5, <2>1 DEF Map

\* malloc gives back no page.
LEMMA MallocTakes ==
  ASSUME TypeOK, NEW blocks \in 1..Big, NEW available, NEW ok \in BOOLEAN,
         Malloc(blocks, available, ok)
  PROVE  free' \subseteq available /\ reserve' \in Nat
<1>1. reserve' \in {reserve, reserve - blocks, reserve + PerPage - blocks}
  BY DEF Malloc
<1>2. reserve >= blocks \/ reserve' # reserve - blocks \/ reserve' = reserve + PerPage - blocks
  BY DEF Malloc, TypeOK, PerPage, Big
<1> QED
  BY <1>1, <1>2 DEF Malloc, TypeOK, PerPage, Big

LEMMA StepIInv == IInv /\ [Next]_vars => IInv'
<1> SUFFICES ASSUME IInv, [Next]_vars PROVE IInv'
  OBVIOUS
<1>1. CASE Probe
  <2>1. UNCHANGED <<kernel, m, last, ret, pc, free>> /\ pc = "probe"
    BY <1>1 DEF Probe, world
  <2>2. Fits(last + Page)' <=> Fits(last + Page)
    BY <2>1 DEF Fits, PageRange
  <2> QED
    BY <1>1, <2>1, <2>2, ProbeKeepsType, ProbeHalves DEF IInv, FirstInside, Probe, world
<1>2. CASE Found
  <2>1. UNCHANGED <<kernel, last, ret, free, start>> /\ pc = "probe" /\ pc' = "map"
    BY <1>2 DEF Found, world
  <2>2. (Fits(last + Page)' <=> Fits(last + Page)) /\ (Fits(2 * start)' <=> Fits(2 * start))
    BY <2>1 DEF Fits, PageRange
  <2> QED
    BY <1>2, <2>1, <2>2, FoundIsLargest DEF IInv, FirstInside, Found, world
<1>3. CASE Map
  BY <1>3, MapKeeps
<1>4. CASE Full
  <2>1. UNCHANGED <<kernel, last, m, free>> /\ pc' = "filled" /\ ret' = count /\ m = 0
    BY <1>4 DEF Full, world
  <2>2. TypeOK'
    BY <1>4 DEF Full, IInv, TypeOK, world
  <2>3. kernel = "sound" => free = {}
    BY <1>4, <2>1, NothingLeft DEF Full, IInv, Largest, Page
  <2>4. ret' # -1
    BY <2>1 DEF IInv, TypeOK
  <2> QED
    BY <1>4, <2>1, <2>2, <2>3, <2>4 DEF IInv, FirstInside, Full, world
<1>5. CASE CheckFilled \/ Limit
  <2>1. UNCHANGED <<world, search, free, reserve>> /\ pc' \in {"exit", "limit", "main", "drain"}
        /\ status' \in {"0", "1", "crash"}
    BY <1>5 DEF CheckFilled, Limit, IInv, TypeOK
  <2>2. FirstInside'
    BY <1>5 DEF CheckFilled, Limit, IInv, TypeOK, FirstInside, world, search
  <2> QED
    BY <2>1, <2>2 DEF IInv, TypeOK, world, search
<1>6. CASE Drain \/ MustFail \/ FailsWhenFull
  <2>1. free' \subseteq free /\ reserve' \in Nat
    BY <1>6, MallocTakes DEF IInv, Drain, MustFail, FailsWhenFull, Big
  <2>2. pc' \in {"drain", "main", "again", "exit"} /\ status' \in {"0", "1", "crash"}
    BY <1>6 DEF Drain, MustFail, FailsWhenFull, IInv, TypeOK
  <2>3. UNCHANGED <<world, search>>
    BY <1>6 DEF Drain, MustFail, FailsWhenFull
  <2>4. FirstInside'
    BY <1>6, <2>3 DEF Drain, MustFail, FailsWhenFull, IInv, FirstInside, world, search
  <2> QED
    BY <2>1, <2>2, <2>3, <2>4 DEF IInv, TypeOK, world, search
<1>7. CASE SucceedsAgain
  <2>1. free' \subseteq free \cup {first.at + 1} /\ reserve' \in Nat
    BY <1>7, MallocTakes DEF IInv, SucceedsAgain, Big
  <2>2. UNCHANGED <<world, search>> /\ pc' = "exit" /\ status' \in {"0", "1", "crash"}
    BY <1>7 DEF SucceedsAgain, IInv, TypeOK
  <2>3. first.at + 1 \in 0..Pages - 1
    BY <1>7, SizesAssumption DEF IInv, TypeOK, FirstInside, SucceedsAgain
  <2> QED
    BY <2>1, <2>2, <2>3 DEF IInv, TypeOK, FirstInside, world, search
<1>8. CASE UNCHANGED vars
  <2>1. (Fits(last + Page)' <=> Fits(last + Page)) /\ (Fits(2 * start)' <=> Fits(2 * start))
    BY <1>8 DEF Fits, PageRange, vars, search
  <2>2. (Bracket' <=> Bracket) /\ (Largest' <=> Largest)
    BY <1>8 DEF Fits, PageRange, vars, search, Bracket, Largest
  <2> QED
    BY <1>8, <2>1, <2>2 DEF IInv, TypeOK, FirstInside, vars, search, world
<1> QED
  BY <1>1, <1>2, <1>3, <1>4, <1>5, <1>6, <1>7, <1>8 DEF Next, Exited

\* The invariant holds in every reachable state.
THEOREM Invariance == Safe => []IInv
BY InitIInv, StepIInv, PTL DEF Safe

\* Every variable keeps its type; in particular n never wraps (vmfill.c 15-29).
THEOREM TypeCorrect == Safe => []TypeOK
<1>1. IInv => TypeOK
  BY DEF IInv
<1> QED
  BY <1>1, Invariance, PTL

\* For every address space and every placement: mmax finds the largest hole,
\* mapping it never fails, and t_vmfill leaves no page (vmfill.c 15-56).
THEOREM FillsAllHolds == Safe => []FillsAll
<1>1. IInv => FillsAll
  <2> SUFFICES ASSUME IInv, kernel = "sound", pc = "map" PROVE m <= last
    BY DEF IInv, FillsAll, Largest
  <2>1. m \in Nat /\ last \in Nat /\ Start \in Nat
    BY SizesAssumption DEF IInv, TypeOK
  <2> QED
    BY <2>1, Decreasing DEF IInv, Largest
<1> QED
  BY <1>1, Invariance, PTL

-----------------------------------------------------------------------------
(* The verdict. *)

\* What is known of t_status, of the reserve and of the first mapping.
VInv ==
  /\ pc \in {"probe", "map", "filled"} => status = "0"
  /\ pc = "drain" => test # "malloc_brk_fail"
  /\ count = 0 /\ pc \in {"probe", "map"} => Fits(4)
  /\ pc \in {"probe", "map", "filled"} => (ret # -1 \/ pc = "filled") /\ (stocked <=> reserve >= Big)
  /\ ret = -1 => status # "0" \/ pc = "filled"
  /\ kernel = "sound" =>
       /\ pc \notin {"exit", "again"} => status = "0"
       /\ pc \in {"probe", "map", "filled"} /\ count > 0 => first.size >= 4
       /\ pc = "filled" => count > 0 /\ ret = count
       /\ pc \in {"limit", "drain", "main"} => free = {}
       /\ test = "malloc_brk_fail" /\ pc \in {"limit", "main"} => (stocked <=> reserve >= Big)
       /\ test # "malloc_brk_fail" /\ pc = "main" => reserve = 0
       /\ pc = "again" =>
            /\ broken => status # "0" \/ reserve < Big
            /\ ~broken /\ ~stocked => status = "0"

LEMMA InitVInv == Init => VInv
<1> SUFFICES ASSUME Init PROVE VInv
  OBVIOUS
<1>1. stocked <=> reserve >= Big
  BY DEF Init
<1> QED
  BY <1>1 DEF Init, VInv

LEMMA StepVInv == IInv /\ VInv /\ [Next]_vars => VInv'
<1> SUFFICES ASSUME IInv, VInv, [Next]_vars PROVE VInv'
  OBVIOUS
<1>1. CASE Probe \/ Found
  <2>1. UNCHANGED <<world, free, reserve, count, first, ret, status>>
        /\ pc = "probe" /\ pc' \in {"probe", "map"}
    BY <1>1 DEF Probe, Found
  <2>2. Fits(4)' <=> Fits(4)
    BY <2>1 DEF Fits
  <2> QED
    BY <2>1, <2>2 DEF VInv, world
<1>2. CASE Map
  <2>1. count \in Nat /\ m \in Nat /\ m % 2 = 0
    BY SizesAssumption DEF IInv, TypeOK
  <2>2. UNCHANGED <<world, reserve, status>> /\ pc = "map"
    BY <1>2 DEF Map
  <2>3. ASSUME kernel = "sound", count = 0 PROVE m >= 4
    <3>1. Fits(4) /\ ~Fits(m + Page)
      BY <2>2, <2>3 DEF VInv, IInv, Largest
    <3> QED
      BY <2>1, <3>1, FitsSmaller DEF Page
  <2>4. CASE pc' = "probe" /\ count' = count + 1 /\ ret' = ret
             /\ first' \in {first, [at |-> first'.at, size |-> m]}
             /\ (count # 0 => first' = first) /\ (count = 0 => first'.size = m)
    BY <2>1, <2>2, <2>3, <2>4 DEF VInv, world
  <2>5. CASE pc' = "filled" /\ ret' = -1 /\ Refuses(m) /\ UNCHANGED <<free, first, count>>
    BY <2>2, <2>5, <1>2 DEF VInv, IInv, Largest, Refuses, Map, world
  <2> QED
    BY <1>2, <2>4, <2>5 DEF Map
<1>3. CASE Full
  <2>1. UNCHANGED <<world, reserve, status, free, count, first>> /\ pc = "map" /\ pc' = "filled"
        /\ ret' = count /\ m = 0
    BY <1>3 DEF Full
  <2>2. count \in Nat
    BY DEF IInv, TypeOK
  <2>3. kernel = "sound" => count > 0
    <3>1. CASE kernel = "sound" /\ count = 0
      <4>1. Fits(4) /\ ~Fits(2)
        BY <2>1, <3>1 DEF VInv, IInv, Largest, Page
      <4> QED
        BY <4>1, FitsSmaller
    <3> QED
      BY <2>2, <3>1
  <2> QED
    BY <2>1, <2>2, <2>3 DEF VInv, world
<1>4. CASE CheckFilled
  <2>1. UNCHANGED <<world, search, free, reserve>> /\ pc = "filled"
    BY <1>4 DEF CheckFilled
  <2>2. kernel = "sound" => ret >= 1 /\ first.size >= 4 /\ free = {}
    BY <2>1 DEF VInv, IInv, TypeOK
  <2>3. status = "0"
    BY <2>1 DEF VInv
  <2>4. first.size \in Nat /\ ret \in Nat \cup {-1}
    BY DEF IInv, TypeOK
  <2> QED
    BY <1>4, <2>1, <2>2, <2>3, <2>4 DEF VInv, CheckFilled, world, search
<1>5. CASE Limit
  BY <1>5 DEF Limit, VInv, IInv, TypeOK, world, search
<1>6. CASE Drain
  <2>1. UNCHANGED <<world, search, status>> /\ pc = "drain" /\ pc' \in {"drain", "main"}
    BY <1>6 DEF Drain
  <2>2. kernel = "sound" => free' = {}
    BY <1>6, <2>1 DEF Drain, Malloc, VInv
  <2>3. pc' = "main" => reserve' = reserve /\ reserve < 1
    BY <1>6 DEF Drain, Malloc
  <2>4. pc' = "main" => reserve' = 0
    BY <2>3 DEF IInv, TypeOK
  <2> QED
    BY <2>1, <2>2, <2>4 DEF VInv, world, search
<1>7. CASE MustFail
  BY <1>7 DEF MustFail, VInv, IInv, TypeOK, world, search
<1>8. CASE FailsWhenFull
  BY <1>8 DEF FailsWhenFull, Malloc, VInv, IInv, TypeOK, world, search
<1>9. CASE SucceedsAgain
  BY <1>9 DEF SucceedsAgain, VInv, IInv, TypeOK, world, search
<1>10. CASE UNCHANGED vars
  <2>1. Fits(4)' <=> Fits(4)
    BY <1>10 DEF Fits, vars
  <2> QED
    BY <1>10, <2>1 DEF VInv, vars, search, world
<1> QED
  BY <1>1, <1>2, <1>3, <1>4, <1>5, <1>6, <1>7, <1>8, <1>9, <1>10 DEF Next, Exited

\* malloc-oom, pthread_create-oom, setenv-oom and malloc-brk-fail tell a broken
\* library from a correct one, whatever holes the address space has, and a
\* failure of t_vmfill is never passed over (malloc-oom.c 9-18, memfill.c 7-22).
THEOREM RightVerdictHolds == Safe => []RightVerdict
<1>1. IInv /\ VInv /\ [Next]_vars /\ RightVerdict => RightVerdict'
  <2> SUFFICES ASSUME IInv, VInv, [Next]_vars, RightVerdict, pc' = "exit"
               PROVE  RightVerdict'
    BY DEF RightVerdict
  <2>1. CASE CheckFilled
    <3>1. test = "malloc_brk_fail" /\ (ret < 1 \/ first.size < 4) /\ status' = "1"
          /\ UNCHANGED <<world, search>>
      BY <2>1 DEF CheckFilled
    <3>2. kernel # "sound"
      BY <2>1, <3>1 DEF CheckFilled, VInv, IInv, TypeOK
    <3> QED
      BY <3>1, <3>2 DEF RightVerdict, world, search
  <2>2. CASE MustFail
    <3>1. UNCHANGED <<world, search>> /\ pc = "main" /\ test # "malloc_brk_fail"
      BY <2>2 DEF MustFail
    <3>2. PICK ok \in BOOLEAN : Malloc(Big, free, ok)
              /\ status' = IF broken /\ ~ok THEN IF test = "setenv_oom" THEN "crash" ELSE "1"
                           ELSE IF ok THEN "1" ELSE status
      BY <2>2 DEF MustFail
    <3>3. kernel = "sound" => ~ok /\ status = "0"
      BY <3>1, <3>2 DEF Malloc, VInv, Big
    <3> QED
      BY <3>1, <3>2, <3>3 DEF RightVerdict, VInv, world, search
  <2>3. CASE SucceedsAgain
    <3>1. UNCHANGED <<world, search>> /\ pc = "again"
      BY <2>3 DEF SucceedsAgain
    <3>2. PICK ok \in BOOLEAN : Malloc(Big, free \cup {first.at + 1}, ok)
              /\ status' = IF ok THEN status ELSE "1"
      BY <2>3 DEF SucceedsAgain
    <3>3. test = "malloc_brk_fail"
      BY <3>1 DEF IInv, FirstInside
    <3>4. ok => status' = status /\ (reserve >= Big \/ ~broken)
      BY <3>2, <3>3 DEF Malloc
    <3>5. ~ok => status' = "1" /\ (kernel # "sound" \/ broken)
      BY <3>2, <3>3 DEF Malloc
    <3>6. reserve \in Nat /\ Big \in Nat
      BY DEF IInv, TypeOK, Big
    <3> QED
      BY <3>1, <3>3, <3>4, <3>5, <3>6 DEF RightVerdict, VInv, IInv, TypeOK, world, search
  <2>4. CASE pc = "exit"
    <3>1. UNCHANGED vars
      BY <2>4 DEF Next, Probe, Found, Map, Full, CheckFilled, Limit, Drain, MustFail,
                  FailsWhenFull, SucceedsAgain, Exited
    <3> QED
      BY <3>1 DEF RightVerdict, vars, world, search
  <2>5. ~(Probe \/ Found \/ Map \/ Full \/ Limit \/ Drain \/ FailsWhenFull)
    BY DEF Probe, Found, Map, Full, Limit, Drain, FailsWhenFull
  <2> QED
    BY <2>1, <2>2, <2>3, <2>4, <2>5 DEF Next, Exited, vars
<1>2. Init => RightVerdict
  BY DEF Init, RightVerdict
<1>3. IInv /\ VInv /\ [Next]_vars => VInv'
  BY StepVInv
<1> QED
  BY <1>1, <1>2, <1>3, InitVInv, Invariance, PTL DEF Safe
=============================================================================
