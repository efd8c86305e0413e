---------------------------- MODULE ChooseProofs -----------------------------
(***************************************************************************)
(* Proofs about Choose for every size of words, every threshold and every  *)
(* call: t_choose and t_randrange leave different numbers below n in p,    *)
(* and t_randint draws every number of its range from as many words.       *)
(*                                                                         *)
(* The numbers of the hash table are different because a number is always  *)
(* looked for along the same slots: round g of insert looks at slot        *)
(* At(w, g), in closed form, and what has been stored stays.               *)
(***************************************************************************)
EXTENDS Choose, FiniteSetTheorems, FunctionTheorems, TLAPS

-----------------------------------------------------------------------------
(* The invariant. *)

\* The slot that round g of insert looks at for w in a table of l slots.
SlotAt(w, g, l) == (w + ((g * (g - 1)) \div 2)) % l
At(w, g) == SlotAt(w, g, len)

Different(f, S) == \A x, y \in S : x # y => f[x] # f[y]

\* a and b hold different cards below m.
Dealt(a, b, la, lb, m) ==
  /\ a \in [0..la - 1 -> 0..m - 1] /\ b \in [0..lb - 1 -> 0..m - 1]
  /\ Different(a, 0..la - 1) /\ Different(b, 0..lb - 1)
  /\ \A x \in 0..la - 1, y \in 0..lb - 1 : a[x] # b[y]

\* What was called and how far n and k, which only Select changes, are off.
Calling ==
  /\ pc = "called" =>
       n = call.a /\ k = call.b /\ i = 0 /\ tab = Array(0, 0) /\ first
  /\ pc \in {"select", "pick", "size", "insert", "probe", "copy"} =>
       call.kind = "choose"
  /\ pc = "shuffle" => call.kind \in {"choose", "randrange"}
  /\ pc \in {"pick", "shuffle", "size", "insert", "probe", "copy"} =>
       n = call.a /\ k = call.b /\ k <= n

Selecting ==
  pc = "select" =>
    /\ k <= n /\ n <= call.a /\ k <= call.b
    /\ \A x \in k..call.b - 1 : p[x] \in n..call.a - 1
    /\ Different(p, k..call.b - 1)

Picking ==
  pc = "pick" =>
    /\ i <= k
    /\ \A x \in 0..i - 1 : p[x] \in 0..n - 1
    /\ Different(p, 0..i - 1)

Shuffling ==
  pc = "shuffle" =>
    /\ np <= IF first THEN k ELSE n - k
    /\ Dealt(p, tab, k, n - k, n)

Filled == {s \in 0..len - 1 : tab[s] # 0}

\* A number is in the table after slots that are all filled.
Stored(s) ==
  \E m \in Nat \ {0} :
    /\ s = At(tab[s], m)
    /\ \A g \in 1..m - 1 : tab[At(tab[s], g)] # 0

Hashing ==
  /\ pc \in {"size", "insert", "probe", "copy"} => len > 0 /\ i <= len + k
  /\ pc = "size" => i = 0
  /\ pc \in {"insert", "probe", "copy"} =>
       /\ tab \in [0..len - 1 -> 0..n]
       /\ \A s, t \in 0..len - 1 : s # t /\ tab[s] # 0 => tab[s] # tab[t]
       /\ \A s \in Filled : Stored(s)
       /\ Cardinality(Filled) = IF pc = "copy" THEN k ELSE i
  /\ pc = "insert" => i <= k

Probing ==
  pc = "probe" =>
    /\ i < k /\ v \in 1..n /\ j \in Nat \ {0}
    /\ slot = At(v, j)
    /\ \A g \in 1..j - 1 : tab[At(v, g)] \notin {0, v}

Copying ==
  pc = "copy" =>
    /\ i <= len
    /\ j = Cardinality({s \in Filled : s < i})
    /\ \A x \in 0..j - 1 : \E s \in 0..i - 1 : tab[s] # 0 /\ p[x] = tab[s] - 1
    /\ Different(p, 0..j - 1)

Inv == /\ TypeOK /\ Calling /\ Selecting /\ Picking /\ Shuffling
       /\ Hashing /\ Probing /\ Copying /\ ChoosesUnique

-----------------------------------------------------------------------------
(* Lemmas. *)

\* t_randn(m) is below m.
LEMMA DrawsBelow ==
  ASSUME NEW m \in Nat \ {0}
  PROVE  \A r \in Draws(m) : r \in 0..m - 1
<1>1. Words \subseteq Nat
  BY ChooseAssumption DEF Words
<1>2. Accepted(m) \subseteq Nat
  BY <1>1 DEF Accepted
<1>3. \A r \in Nat : r % m \in 0..m - 1
  OBVIOUS
<1> QED
  BY <1>2, <1>3 DEF Draws

LEMMA DivMod ==
  ASSUME NEW x \in Nat, NEW l \in Nat \ {0}
  PROVE  /\ x \div l \in Nat /\ x % l \in Nat /\ x % l \in 0..l - 1
         /\ x = l * (x \div l) + (x % l)
<1> DEFINE q == x \div l
           r == x % l
<1>1. q \in Nat /\ r \in Nat /\ r \in 0..l - 1 /\ x = l * q + r
  BY SMTT(30)
<1> QED BY <1>1

LEMMA ModStep ==
  ASSUME NEW x \in Nat, NEW y \in Nat, NEW l \in Nat \ {0}
  PROVE  ((x % l) + y) % l = (x + y) % l
<1> DEFINE q == x \div l
           r == x % l
           z == r + y
           u == z \div l
           t == z % l
<1>1. q \in Nat /\ r \in Nat /\ r \in 0..l - 1 /\ x = l * q + r
  BY DivMod
<1>2. z \in Nat
  BY <1>1
<1>3. u \in Nat /\ t \in Nat /\ t \in 0..l - 1 /\ z = l * u + t
  <2> HIDE DEF z
  <2> QED BY <1>2, DivMod
<1>4. x + y = l * (q + u) + t
  <2>1. x + y = l * q + z
    BY <1>1 DEF z
  <2>2. l * (q + u) = l * q + l * u
    <3> HIDE DEF q, u
    <3> QED BY <1>1, <1>3, SMTT(30)
  <2> HIDE DEF q, r, z, u, t
  <2> QED BY <2>1, <2>2, <1>3, <1>1, <1>2
<1>5. \A w \in Nat : \A d \in 0..l - 1 : (l * w + d) % l = d
  BY SMTT(30)
<1>6. (x + y) % l = t
  <2>1. q + u \in Nat
    <3> HIDE DEF q, u
    <3> QED BY <1>1, <1>3
  <2> HIDE DEF q, u, t
  <2> QED BY <1>4, <1>5, <1>3, <2>1
<1> QED
  BY <1>6

\* How insert goes from one slot to the next.
LEMMA NextSlot ==
  ASSUME NEW w \in Nat, NEW g \in Nat \ {0}, NEW l \in Nat \ {0}
  PROVE  /\ SlotAt(w, 1, l) = w % l
         /\ SlotAt(w, g, l) \in 0..l - 1
         /\ (SlotAt(w, g, l) + g) % l = SlotAt(w, g + 1, l)
<1> DEFINE a == g * (g - 1)
           h == a \div 2
<1>1. a \in Nat
  BY SMTT(30)
<1>2. h \in Nat
  <2> HIDE DEF a
  <2> QED BY <1>1
<1>3. (g + 1) * ((g + 1) - 1) = a + 2 * g
  BY SMTT(30)
<1>4. (a + 2 * g) \div 2 = h + g
  <2> HIDE DEF a
  <2> QED BY <1>1
<1>5. SlotAt(w, g + 1, l) = (w + h + g) % l
  <2>1. w + (h + g) = w + h + g
    <3> HIDE DEF h
    <3> QED BY <1>2
  <2> QED BY <1>3, <1>4, <2>1 DEF SlotAt
<1>6. (((w + h) % l) + g) % l = ((w + h) + g) % l
  <2>1. w + h \in Nat
    <3> HIDE DEF h
    <3> QED BY <1>2
  <2> HIDE DEF h
  <2> QED BY <2>1, ModStep
<1>7. SlotAt(w, g, l) \in 0..l - 1
  <2>1. w + h \in Nat
    <3> HIDE DEF h
    <3> QED BY <1>2
  <2>2. \A x \in Nat : x % l \in 0..l - 1
    OBVIOUS
  <2> QED BY <2>1, <2>2 DEF SlotAt
<1>8. SlotAt(w, 1, l) = w % l
  <2>1. (1 * (1 - 1)) \div 2 = 0
    OBVIOUS
  <2> QED BY <2>1 DEF SlotAt
<1> QED
  BY <1>5, <1>6, <1>7, <1>8 DEF SlotAt

\* A round of shuffle2 only exchanges cards.
LEMMA ExchangeDeals ==
  ASSUME NEW la \in Nat, NEW lb \in Nat, NEW m \in Nat, NEW a, NEW b,
         Dealt(a, b, la, lb, m), np \in 1..la, NEW r \in 0..lb + np - 1
  PROVE  Dealt(Exchange(a, b, lb, r)[1], Exchange(a, b, lb, r)[2], la, lb, m)
<1>1. CASE r < lb
  <2>1. r \in 0..lb - 1 /\ np - 1 \in 0..la - 1
    BY <1>1
  <2> DEFINE a1 == [a EXCEPT ![np - 1] = b[r]]
             b1 == [b EXCEPT ![r] = a[np - 1]]
  <2>2. Exchange(a, b, lb, r)[1] = a1 /\ Exchange(a, b, lb, r)[2] = b1
    BY <1>1 DEF Exchange
  <2>3. a1 \in [0..la - 1 -> 0..m - 1] /\ b1 \in [0..lb - 1 -> 0..m - 1]
    BY <2>1 DEF Dealt
  <2>4. \A x \in 0..la - 1 : a1[x] = IF x = np - 1 THEN b[r] ELSE a[x]
    BY DEF Dealt
  <2>5. \A x \in 0..lb - 1 : b1[x] = IF x = r THEN a[np - 1] ELSE b[x]
    BY DEF Dealt
  <2> HIDE DEF a1, b1
  <2>a. /\ \A x, y \in 0..la - 1 : x # y => a[x] # a[y]
        /\ \A x, y \in 0..lb - 1 : x # y => b[x] # b[y]
        /\ \A x \in 0..la - 1, y \in 0..lb - 1 : a[x] # b[y]
    BY DEF Dealt, Different
  <2>b. Different(a1, 0..la - 1)
    BY <2>1, <2>4, <2>a DEF Different
  <2>c. Different(b1, 0..lb - 1)
    BY <2>1, <2>5, <2>a DEF Different
  <2>d. \A x \in 0..la - 1, y \in 0..lb - 1 : a1[x] # b1[y]
    BY <2>1, <2>4, <2>5, <2>a
  <2>6. Dealt(a1, b1, la, lb, m)
    BY <2>3, <2>b, <2>c, <2>d DEF Dealt
  <2> QED BY <2>2, <2>6
<1>2. CASE ~(r < lb)
  <2>1. r - lb \in 0..la - 1 /\ np - 1 \in 0..la - 1
    BY <1>2
  <2> DEFINE a1 == [a EXCEPT ![np - 1] = a[r - lb], ![r - lb] = a[np - 1]]
  <2>2. Exchange(a, b, lb, r)[1] = a1 /\ Exchange(a, b, lb, r)[2] = b
    BY <1>2 DEF Exchange
  <2>3. a1 \in [0..la - 1 -> 0..m - 1]
    BY <2>1 DEF Dealt
  <2>4. \A x \in 0..la - 1 : a1[x] = IF x = r - lb THEN a[np - 1]
                                     ELSE IF x = np - 1 THEN a[r - lb] ELSE a[x]
    BY <2>1 DEF Dealt
  <2> HIDE DEF a1
  <2>5. Dealt(a1, b, la, lb, m)
    BY <2>1, <2>3, <2>4 DEF Dealt, Different
  <2> QED BY <2>2, <2>5
<1> QED BY <1>1, <1>2

-----------------------------------------------------------------------------
(* The invariant is inductive. *)

LEMMA CallTypes ==
  ASSUME call \in Calls
  PROVE  /\ call.a \in Nat /\ call.b \in Nat /\ Largest \in Nat
         /\ call.a <= Largest /\ call.b <= Largest
         /\ call.kind \in {"randint", "choose", "randrange"}
         /\ call.kind = "randint" => call.a <= call.b
         /\ call.kind = "randrange" => call.a = call.b
<1>1. \/ call \in {Call("randint", a, b) : a \in Words, b \in Words}
      \/ call \in {Call("choose", a, b) : a \in Words, b \in Words}
      \/ call \in {Call("randrange", a, a) : a \in Words}
  BY ChooseAssumption
<1>2. call.kind = "randint" => call.a <= call.b
  BY ChooseAssumption
<1>3. Largest \in Nat
  BY ChooseAssumption
<1>4. CASE call \in {Call("randint", a, b) : a \in Words, b \in Words}
  BY <1>2, <1>3, <1>4 DEF Call, Words
<1>5. CASE call \in {Call("choose", a, b) : a \in Words, b \in Words}
  BY <1>3, <1>5 DEF Call, Words
<1>6. CASE call \in {Call("randrange", a, a) : a \in Words}
  BY <1>3, <1>6 DEF Call, Words
<1> QED
  BY <1>1, <1>4, <1>5, <1>6

LEMMA InitInv == Init => Inv
<1> SUFFICES ASSUME Init PROVE Inv
  OBVIOUS
<1> USE DEF Init
<1>1. call \in Calls /\ call.a \in Nat /\ call.b \in Nat /\ Largest \in Nat
  BY CallTypes
<1>2. p \in [0..call.b - 1 -> -1..Largest]
  BY <1>1 DEF Array, NoNumber
<1>3. tab = Array(0, 0) /\ DOMAIN tab = {}
  BY DEF Array
<1>4. TypeOK
  BY <1>1, <1>2, <1>3 DEF TypeOK
<1>5. Calling /\ Selecting /\ Picking /\ Shuffling /\ Hashing /\ Probing /\ Copying
  BY <1>1, <1>3
  DEF Calling, Selecting, Picking, Shuffling, Hashing, Probing, Copying
<1> QED
  BY <1>4, <1>5 DEF Inv, ChoosesUnique

\* What is left of the invariant when a step does not lead into a loop that
\* has one of its own.
LEMMA OtherLoops ==
  /\ pc' \notin {"select"} => Selecting'
  /\ pc' \notin {"pick"} => Picking'
  /\ pc' \notin {"shuffle"} => Shuffling'
  /\ pc' \notin {"size", "insert", "probe", "copy"} => Hashing'
  /\ pc' \notin {"probe"} => Probing'
  /\ pc' \notin {"copy"} => Copying'
  /\ pc' \notin {"done"} => ChoosesUnique'
BY DEF Selecting, Picking, Shuffling, Hashing, Probing, Copying, ChoosesUnique

LEMMA ReturnsInv ==
  ASSUME Inv, TRandInt \/ ChooseTooMany \/ MallocFails \/ LoopEnds
  PROVE  Inv'
<1> USE DEF Inv
<1>1. call \in Calls /\ call.a \in Nat /\ call.b \in Nat /\ Largest \in Nat
      /\ call.a <= Largest /\ call.b <= Largest
  BY CallTypes DEF TypeOK
<1>2. pc' = "done" /\ call' = call
  BY DEF TRandInt, ChooseTooMany, MallocFails, LoopEnds, Return
<1>3. ret' \in -1..Largest
  <2>1. CASE TRandInt
    <3>1. PICK r \in DOMAIN RandInt(n, k) : ret' = RandInt(n, k)[r]
      BY <2>1 DEF TRandInt, Return
    <3>2. Words \subseteq Nat /\ \A x \in Words : x \in -1..Largest
      BY <1>1 DEF Words
    <3>3. n \in Nat /\ k \in Nat
      BY DEF TypeOK
    <3> DEFINE size == (k - n + 1) % (Largest + 1)
    <3>4. CASE size = 0
      BY <3>1, <3>2, <3>4 DEF RandInt
    <3>5. CASE size # 0
      <4>1. size \in Nat \ {0}
        BY <3>3, <3>5, <1>1
      <4>2. r \in Nat /\ ret' = (n + (r % size)) % (Largest + 1)
        BY <3>1, <3>2, <3>5 DEF RandInt, Accepted
      <4> HIDE DEF size
      <4>3. n + (r % size) \in Nat
        BY <4>1, <4>2, <3>3
      <4>4. \A x \in Nat : x % (Largest + 1) \in -1..Largest
        BY <1>1
      <4> QED BY <4>2, <4>3, <4>4
    <3> QED BY <3>4, <3>5
  <2> QED BY <1>1, <2>1 DEF ChooseTooMany, MallocFails, LoopEnds, Return
<1>4. TypeOK'
  BY <1>2, <1>3 DEF TypeOK, TRandInt, ChooseTooMany, MallocFails, LoopEnds,
     Return, table, shuffling, insertion
<1>5. ChoosesUnique'
  <2>1. SUFFICES ASSUME ret' = 0, call.kind # "randint"
                 PROVE  /\ \A x \in 0..call.b - 1 : p[x] \in 0..call.a - 1
                        /\ \A x, y \in 0..call.b - 1 : x # y => p[x] # p[y]
    BY <1>2 DEF ChoosesUnique, TRandInt, ChooseTooMany, MallocFails, LoopEnds
  <2>2. LoopEnds
    BY <2>1 DEF TRandInt, ChooseTooMany, MallocFails, Return
  <2>3. CASE pc = "select" /\ k = 0
    BY <2>3, <1>1 DEF Selecting, Different, TypeOK
  <2>4. CASE pc = "pick" /\ i = k
    BY <2>4, <1>1 DEF Picking, Calling, Different
  <2>5. CASE pc = "shuffle" /\ np = 0
    BY <2>5, <1>1 DEF Shuffling, Calling, Dealt, Different
  <2>6. CASE pc = "copy" /\ i = len
    <3>1. Filled = {s \in Filled : s < i}
      BY <2>6 DEF Filled, TypeOK
    <3>2. j = k /\ k = call.b /\ n = call.a
      BY <2>6, <3>1 DEF Copying, Hashing, Calling
    <3>3. ASSUME NEW x \in 0..call.b - 1
          PROVE  p[x] \in 0..call.a - 1
      <4>1. PICK s \in 0..len - 1 : tab[s] # 0 /\ p[x] = tab[s] - 1
        BY <2>6, <3>2 DEF Copying
      <4>2. tab[s] \in 0..n
        BY <2>6 DEF Hashing
      <4> QED BY <4>1, <4>2, <3>2, <1>1
    <3>4. Different(p, 0..call.b - 1)
      BY <2>6, <3>2 DEF Copying
    <3> QED BY <3>3, <3>4 DEF Different
  <2> QED BY <2>2, <2>3, <2>4, <2>5, <2>6 DEF LoopEnds
<1> QED
  BY <1>2, <1>4, <1>5, OtherLoops DEF Calling

LEMMA CallsInv ==
  ASSUME Inv, TRandRange \/ ChooseSmall \/ ChooseShuffled \/ ChooseHashed
  PROVE  Inv'
<1> USE DEF Inv
<1>1. call \in Calls /\ call.a \in Nat /\ call.b \in Nat /\ Largest \in Nat
      /\ call.a <= Largest /\ call.b <= Largest
      /\ (call.kind = "randrange" => call.a = call.b)
  BY CallTypes DEF TypeOK
<1>2. pc = "called" /\ n = call.a /\ k = call.b /\ i = 0 /\ tab = Array(0, 0)
      /\ first
  BY DEF Calling, TRandRange, ChooseSmall, ChooseShuffled, ChooseHashed, IsLarge
<1>3. ASSUME TRandRange PROVE Inv'
  <2>1. pc' = "shuffle" /\ call.kind = "randrange" /\ n = k
    BY <1>1, <1>2, <1>3 DEF TRandRange
  <2>2. p' = [x \in 0..k - 1 |-> x] /\ np' = k /\ first' = first
        /\ UNCHANGED <<call, n, k, i, tab, len, slot, j, v, ret>>
    BY <1>3 DEF TRandRange, table, insertion
  <2>3. TypeOK'
    BY <1>1, <1>2, <2>1, <2>2 DEF TypeOK
  <2>4. np' <= IF first' THEN k' ELSE n' - k'
    BY <1>1, <1>2, <2>1, <2>2
  <2>5. p' \in [0..k - 1 -> 0..n - 1] /\ tab' \in [0..n - k - 1 -> 0..n - 1]
    BY <1>1, <1>2, <2>1, <2>2 DEF Array
  <2>6. Dealt(p', tab', k', n' - k', n')
    BY <1>1, <1>2, <2>1, <2>2, <2>5 DEF Dealt, Different
  <2>7. Shuffling'
    BY <2>4, <2>6 DEF Shuffling, Dealt, Different
  <2>8. Calling'
    <3>1. call' = call /\ n' = call.a /\ k' = call.b /\ k' <= n'
      BY <1>1, <1>2, <2>1, <2>2
    <3> QED BY <2>1, <3>1 DEF Calling
  <2> QED BY <2>1, <2>3, <2>7, <2>8, OtherLoops
<1>4. ASSUME ChooseSmall PROVE Inv'
  <2>1. pc' \in {"select", "pick"} /\ call.kind = "choose" /\ n >= k
    BY <1>4 DEF ChooseSmall
  <2>2. UNCHANGED <<call, n, k, i, p, tab, len, np, first, slot, j, v, ret>>
    BY <1>4 DEF ChooseSmall, table, shuffling, insertion
  <2>3. TypeOK'
    BY <2>1, <2>2 DEF TypeOK
  <2>4. Calling'
    BY <1>1, <1>2, <2>1, <2>2 DEF Calling
  <2>5. Selecting'
    BY <1>1, <1>2, <2>1, <2>2 DEF Selecting, Different
  <2>6. Picking'
    BY <1>1, <1>2, <2>1, <2>2 DEF Picking, Different
  <2> QED BY <2>1, <2>3, <2>4, <2>5, <2>6, OtherLoops
<1>5. ASSUME ChooseShuffled PROVE Inv'
  <2>1. pc' = "shuffle" /\ call.kind = "choose" /\ n >= k
    BY <1>5 DEF ChooseShuffled, IsLarge
  <2>2. /\ p' = [x \in 0..k - 1 |-> x] /\ tab' = [x \in 0..n - k - 1 |-> k + x]
        /\ first' = (k < n - k) /\ np' = IF k < n - k THEN k ELSE n - k
        /\ UNCHANGED <<call, n, k, i, len, slot, j, v, ret>>
    BY <1>5 DEF ChooseShuffled, insertion
  <2>a. p' \in [0..k - 1 -> 0..n - 1]
    BY <1>1, <1>2, <2>1, <2>2
  <2>b. tab' \in [0..n - k - 1 -> 0..n - 1]
    BY <1>1, <1>2, <2>1, <2>2
  <2>c. np' \in Nat /\ first' \in BOOLEAN
    BY <1>1, <1>2, <2>1, <2>2
  <2>d. p' \in [0..call.b - 1 -> -1..Largest]
    BY <1>1, <1>2, <2>a
  <2>g. DOMAIN tab' \subseteq Nat /\ \A s \in DOMAIN tab' : tab'[s] \in Nat
    BY <1>1, <1>2, <2>1, <2>b
  <2>3. TypeOK'
    BY <1>1, <1>2, <2>1, <2>2, <2>c, <2>d, <2>g DEF TypeOK
  <2>4. Calling'
    BY <1>1, <1>2, <2>1, <2>2 DEF Calling
  <2>5. np' <= IF first' THEN k' ELSE n' - k'
    BY <1>1, <1>2, <2>1, <2>2
  <2>e. \A x \in 0..k - 1 : p'[x] = x
    BY <2>2
  <2>f. \A x \in 0..n - k - 1 : tab'[x] = k + x
    BY <2>2
  <2>6. Dealt(p', tab', k', n' - k', n')
    BY <1>1, <1>2, <2>1, <2>2, <2>a, <2>b, <2>e, <2>f DEF Dealt, Different
  <2>7. Shuffling'
    BY <2>5, <2>6 DEF Shuffling, Dealt, Different
  <2> QED BY <2>1, <2>3, <2>4, <2>7, OtherLoops
<1>6. ASSUME ChooseHashed PROVE Inv'
  <2>1. pc' = "size" /\ call.kind = "choose" /\ n >= k
    BY <1>6 DEF ChooseHashed, IsLarge
  <2>2. len' = MinLen
        /\ UNCHANGED <<call, n, k, i, p, tab, np, first, slot, j, v, ret>>
    BY <1>6 DEF ChooseHashed, shuffling, insertion
  <2>3. MinLen \in Nat \ {0}
    BY ChooseAssumption
  <2>4. TypeOK'
    BY <2>1, <2>2, <2>3 DEF TypeOK
  <2>5. Calling' /\ Hashing'
    BY <1>1, <1>2, <2>1, <2>2, <2>3 DEF Calling, Hashing
  <2> QED BY <2>1, <2>4, <2>5, OtherLoops
<1> QED
  BY <1>3, <1>4, <1>5, <1>6

LEMMA SelectInv ==
  ASSUME Inv, Select
  PROVE  Inv'
<1> USE DEF Inv
<1>1. call \in Calls /\ call.a \in Nat /\ call.b \in Nat /\ Largest \in Nat
      /\ call.a <= Largest /\ call.b <= Largest
  BY CallTypes DEF TypeOK
<1>2. pc = "select" /\ k > 0 /\ n' = n - 1
      /\ UNCHANGED <<call, pc, i, tab, len, np, first, slot, j, v, ret>>
  BY DEF Select, table, shuffling, insertion
<1>3. k \in Nat /\ n \in Nat /\ k <= n /\ n <= call.a /\ k <= call.b
  BY <1>2 DEF TypeOK, Selecting
<1>4. PICK r \in Draws(n) :
        IF r < k THEN k' = k - 1 /\ p' = [p EXCEPT ![k - 1] = n - 1]
        ELSE UNCHANGED <<k, p>>
  BY DEF Select
<1>5. r \in 0..n - 1
  BY <1>2, <1>3, DrawsBelow
<1>6. p \in [0..call.b - 1 -> -1..Largest]
  BY DEF TypeOK
<1>7. p' \in [0..call.b - 1 -> -1..Largest]
  BY SMTT(30), <1>1, <1>3, <1>4, <1>6
<1>8. n' \in Nat /\ k' \in Nat /\ k' <= n' /\ k' <= call.b
  <2>1. CASE r < k
    BY <1>1, <1>2, <1>3, <1>4, <1>5, <2>1
  <2>2. CASE ~(r < k)
    BY <1>1, <1>2, <1>3, <1>4, <1>5, <2>2
  <2> QED BY <2>1, <2>2
<1>9. TypeOK'
  BY <1>2, <1>7, <1>8 DEF TypeOK
<1>10. \A x \in k'..call.b - 1 :
          p'[x] = IF x < k THEN n - 1 ELSE p[x]
  BY <1>1, <1>2, <1>3, <1>4, <1>6
<1>11. /\ \A x \in k..call.b - 1 : p[x] \in n..call.a - 1
       /\ \A x, y \in k..call.b - 1 : x # y => p[x] # p[y]
  BY <1>2 DEF Selecting, Different
<1>12. \A x \in k'..call.b - 1 : p'[x] \in n'..call.a - 1
  BY <1>1, <1>2, <1>3, <1>4, <1>10, <1>11
<1>13. \A x, y \in k'..call.b - 1 : x # y => p'[x] # p'[y]
  <2>1. \A x \in k'..call.b - 1 : x < k => x = k - 1
    BY <1>1, <1>3, <1>4
  <2>2. \A x \in k'..call.b - 1 : ~(x < k) => x \in k..call.b - 1
    BY <1>1, <1>3, <1>4
  <2> QED BY <1>1, <1>3, <1>8, <1>10, <1>11, <2>1, <2>2
<1>14. Selecting'
  BY <1>1, <1>2, <1>3, <1>8, <1>12, <1>13 DEF Selecting, Different
<1>15. Calling'
  BY <1>2 DEF Calling
<1> QED
  BY <1>2, <1>9, <1>14, <1>15, OtherLoops

LEMMA PickInv ==
  ASSUME Inv, Pick
  PROVE  Inv'
<1> USE DEF Inv
<1>1. call \in Calls /\ call.a \in Nat /\ call.b \in Nat /\ Largest \in Nat
      /\ call.a <= Largest /\ call.b <= Largest
  BY CallTypes DEF TypeOK
<1>2. pc = "pick" /\ i < k
      /\ UNCHANGED <<call, pc, n, k, tab, len, np, first, slot, j, v, ret>>
  BY DEF Pick, table, shuffling, insertion
<1>3. i \in Nat /\ n = call.a /\ k = call.b /\ k <= n
  BY <1>2 DEF TypeOK, Calling
<1>4. PICK r \in Draws(n) :
        /\ p' = [p EXCEPT ![i] = r]
        /\ i' = IF \E x \in 0..i - 1 : p[x] = r THEN i ELSE i + 1
  BY DEF Pick
<1>5. r \in 0..n - 1
  BY <1>1, <1>2, <1>3, DrawsBelow
<1>6. p \in [0..call.b - 1 -> -1..Largest]
  BY DEF TypeOK
<1>7. p' \in [0..call.b - 1 -> -1..Largest]
  <2>1. r \in -1..Largest
    BY <1>1, <1>3, <1>5
  <2> QED BY <1>4, <1>6, <2>1
<1>8. i' \in Nat /\ i' <= k
  BY <1>1, <1>2, <1>3, <1>4
<1>9. TypeOK'
  BY <1>2, <1>7, <1>8 DEF TypeOK
<1>10. \A x \in 0..i : p'[x] = IF x = i THEN r ELSE p[x]
  BY <1>1, <1>2, <1>3, <1>4, <1>6
<1>11. /\ \A x \in 0..i - 1 : p[x] \in 0..n - 1
       /\ \A x, y \in 0..i - 1 : x # y => p[x] # p[y]
  BY <1>2 DEF Picking, Different
<1>12. CASE \E x \in 0..i - 1 : p[x] = r
  <2>1. i' = i /\ \A x \in 0..i - 1 : p'[x] = p[x]
    BY <1>3, <1>4, <1>10, <1>12
  <2>2. Picking'
    BY <1>2, <1>8, <1>11, <2>1 DEF Picking, Different
  <2> QED BY <1>2, <1>9, <2>2, OtherLoops DEF Calling
<1>13. CASE ~\E x \in 0..i - 1 : p[x] = r
  <2>1. i' = i + 1
    BY <1>4, <1>13
  <2>2. \A x \in 0..i : x = i \/ x \in 0..i - 1
    BY <1>3
  <2>3. \A x \in 0..i : p'[x] \in 0..n - 1
    BY <1>5, <1>10, <1>11, <2>2
  <2>4. \A x, y \in 0..i : x # y => p'[x] # p'[y]
    BY <1>10, <1>11, <1>13, <2>2
  <2>5. 0..i' - 1 = 0..i
    BY <1>3, <2>1
  <2>6. Picking'
    BY <1>2, <1>8, <2>3, <2>4, <2>5 DEF Picking, Different
  <2> QED BY <1>2, <1>9, <2>6, OtherLoops DEF Calling
<1> QED
  BY <1>12, <1>13

LEMMA ShuffleInv ==
  ASSUME Inv, Shuffle
  PROVE  Inv'
<1> USE DEF Inv
<1>1. call \in Calls /\ call.a \in Nat /\ call.b \in Nat /\ Largest \in Nat
      /\ call.a <= Largest /\ call.b <= Largest
  BY CallTypes DEF TypeOK
<1>2. pc = "shuffle" /\ np > 0 /\ np' = np - 1
      /\ UNCHANGED <<call, pc, n, k, i, len, first, slot, j, v, ret>>
  BY DEF Shuffle, insertion
<1>3. np \in Nat /\ n = call.a /\ k = call.b /\ k <= n /\ n - k \in Nat
  BY <1>1, <1>2 DEF TypeOK, Calling
<1>4. np <= IF first THEN k ELSE n - k
  BY <1>2 DEF Shuffling
<1>5. Dealt(p, tab, k, n - k, n) /\ Dealt(tab, p, n - k, k, n)
  BY <1>2, <1>3 DEF Shuffling, Dealt
<1>6. Dealt(p', tab', k, n - k, n)
  <2>1. CASE first
    <3>1. PICK r \in Draws(n - k + np) :
            /\ p' = Exchange(p, tab, n - k, r)[1]
            /\ tab' = Exchange(p, tab, n - k, r)[2]
      BY <2>1 DEF Shuffle
    <3>2. n - k + np \in Nat \ {0} /\ np \in 1..k
      BY <1>1, <1>2, <1>3, <1>4, <2>1
    <3>3. r \in 0..n - k + np - 1
      <4> DEFINE m == n - k + np
      <4>1. m \in Nat \ {0} /\ r \in Draws(m)
        BY <3>1, <3>2
      <4> HIDE DEF m
      <4>2. r \in 0..m - 1
        BY <4>1, DrawsBelow
      <4> QED BY <1>1, <1>3, <4>2 DEF m
    <3> QED BY <1>1, <1>3, <1>5, <3>1, <3>2, <3>3, ExchangeDeals
  <2>2. CASE ~first
    <3>1. PICK r \in Draws(k + np) :
            /\ tab' = Exchange(tab, p, k, r)[1]
            /\ p' = Exchange(tab, p, k, r)[2]
      BY <2>2 DEF Shuffle
    <3>2. k + np \in Nat \ {0} /\ np \in 1..n - k
      BY <1>1, <1>2, <1>3, <1>4, <2>2
    <3>3. r \in 0..k + np - 1
      <4> DEFINE m == k + np
      <4>1. m \in Nat \ {0} /\ r \in Draws(m)
        BY <3>1, <3>2
      <4> HIDE DEF m
      <4>2. r \in 0..m - 1
        BY <4>1, DrawsBelow
      <4> QED BY <1>1, <1>3, <4>2 DEF m
    <3>4. Dealt(tab', p', n - k, k, n)
      BY <1>1, <1>3, <1>5, <3>1, <3>2, <3>3, ExchangeDeals
    <3> QED BY <3>4 DEF Dealt
  <2> QED BY <2>1, <2>2
<1>7. p' \in [0..k - 1 -> 0..n - 1] /\ tab' \in [0..n - k - 1 -> 0..n - 1]
  BY <1>6 DEF Dealt
<1>8. p' \in [0..call.b - 1 -> -1..Largest]
  BY <1>1, <1>3, <1>7
<1>9. DOMAIN tab' \subseteq Nat /\ \A s \in DOMAIN tab' : tab'[s] \in Nat
  BY <1>1, <1>3, <1>7
<1>10. np' \in Nat /\ np' <= IF first THEN k ELSE n - k
  BY <1>1, <1>2, <1>3, <1>4
<1>11. TypeOK'
  BY <1>2, <1>8, <1>9, <1>10 DEF TypeOK
<1>12. Shuffling'
  BY <1>2, <1>6, <1>10 DEF Shuffling, Dealt, Different
<1>13. Calling'
  BY <1>2 DEF Calling
<1> QED
  BY <1>2, <1>11, <1>12, <1>13, OtherLoops

\* The part of the invariant that only looks at the table stays when the
\* table does.
LEMMA SizeInv ==
  ASSUME Inv, Double \/ Allocate
  PROVE  Inv'
<1> USE DEF Inv
<1>1. call \in Calls /\ call.a \in Nat /\ call.b \in Nat
  BY CallTypes DEF TypeOK
<1>2. pc = "size" /\ UNCHANGED <<call, n, k, i, p, np, first, slot, j, v, ret>>
  BY DEF Double, Allocate, shuffling, insertion
<1>3. len \in Nat /\ len > 0 /\ i = 0 /\ n = call.a /\ k = call.b /\ k <= n
  BY <1>2 DEF TypeOK, Hashing, Calling
<1>4. ASSUME Double PROVE Inv'
  <2>1. pc' = "size" /\ len' = 2 * len /\ tab' = tab
    BY <1>2, <1>4 DEF Double
  <2>2. len' \in Nat /\ len' > 0 /\ i <= len' + k
    BY <1>1, <1>3, <2>1
  <2>3. TypeOK'
    BY <1>2, <2>1, <2>2 DEF TypeOK
  <2>4. Calling' /\ Hashing'
    BY <1>2, <1>3, <2>1, <2>2 DEF Calling, Hashing
  <2> QED BY <2>1, <2>3, <2>4, OtherLoops
<1>5. ASSUME Allocate PROVE Inv'
  <2>1. pc' = "insert" /\ tab' = Array(len, 0) /\ len' = len
    BY <1>5 DEF Allocate
  <2>2. tab' \in [0..len - 1 -> 0..n] /\ \A s \in 0..len - 1 : tab'[s] = 0
    BY <1>1, <1>3, <2>1 DEF Array
  <2>3. TypeOK'
    BY SMTT(30), <1>2, <1>3, <2>1, <2>2 DEF TypeOK
  <2>4. Filled' = {}
    BY <2>1, <2>2 DEF Filled
  <2>5. Cardinality(Filled') = 0
    BY <2>4, FS_EmptySet
  <2>6. Hashing'
    BY <1>1, <1>2, <1>3, <2>1, <2>2, <2>4, <2>5 DEF Hashing
  <2>7. Calling'
    BY <1>2, <2>1 DEF Calling
  <2> QED BY <2>1, <2>3, <2>6, <2>7, OtherLoops
<1> QED
  BY <1>4, <1>5

LEMMA InsertInv ==
  ASSUME Inv, Insert
  PROVE  Inv'
<1> USE DEF Inv
<1>1. call \in Calls /\ call.a \in Nat /\ call.b \in Nat
  BY CallTypes DEF TypeOK
<1>2. pc = "insert" /\ i < k /\ pc' = "probe" /\ j' = 1
      /\ UNCHANGED <<call, n, k, i, p, tab, len, np, first, ret>>
  BY DEF Insert, table, shuffling
<1>3. len \in Nat \ {0} /\ i \in Nat /\ n = call.a /\ k = call.b /\ k <= n
  BY <1>2 DEF TypeOK, Hashing, Calling
<1>4. PICK r \in Draws(n) : v' = r + 1 /\ slot' = (r + 1) % len
  BY DEF Insert
<1>5. r \in 0..n - 1 /\ v' \in 1..n /\ v' \in Nat
  <2>1. n \in Nat \ {0}
    BY <1>1, <1>2, <1>3
  <2>2. r \in 0..n - 1
    BY <2>1, DrawsBelow
  <2> QED BY <1>4, <2>1, <2>2
<1>6. slot' = v' % len /\ slot' = SlotAt(v', 1, len) /\ slot' \in 0..len - 1
  <2> DEFINE w == r + 1
  <2>1. w \in Nat /\ 1 \in Nat \ {0} /\ v' = w /\ slot' = w % len
    BY <1>4, <1>5
  <2> HIDE DEF w
  <2>2. SlotAt(w, 1, len) = w % len /\ SlotAt(w, 1, len) \in 0..len - 1
    BY <1>3, <2>1, NextSlot
  <2> QED BY <2>1, <2>2
<1>a. slot' \in Nat /\ slot' < len
  BY <1>3, <1>6
<1>7. TypeOK'
  BY <1>2, <1>3, <1>5, <1>a DEF TypeOK
<1>8. Probing'
  BY <1>2, <1>5, <1>6 DEF Probing, At
<1>9. Calling'
  BY <1>2 DEF Calling
<1>10. Filled' = Filled /\ \A s : Stored(s)' <=> Stored(s)
  BY <1>2 DEF Filled, Stored, At
<1>11. Hashing'
  BY <1>2, <1>10 DEF Hashing
<1> QED
  BY <1>2, <1>7, <1>8, <1>9, <1>11, OtherLoops

LEMMA ProbeInv ==
  ASSUME Inv, Probe
  PROVE  Inv'
<1> USE DEF Inv
<1>1. call \in Calls /\ call.a \in Nat /\ call.b \in Nat
  BY CallTypes DEF TypeOK
<1>2. pc = "probe" /\ UNCHANGED <<call, n, k, p, len, np, first, v, ret>>
  BY DEF Probe, shuffling
<1>3. len \in Nat \ {0} /\ i \in Nat /\ n = call.a /\ k = call.b /\ k <= n
  BY <1>2 DEF TypeOK, Hashing, Calling
<1>4. /\ i < k /\ v \in 1..n /\ v \in Nat /\ j \in Nat \ {0}
      /\ slot = At(v, j) /\ slot \in 0..len - 1
      /\ \A g \in 1..j - 1 : tab[At(v, g)] \notin {0, v}
  BY <1>2, <1>3, NextSlot DEF Probing, TypeOK, At
<1>5. /\ tab \in [0..len - 1 -> 0..n]
      /\ \A s, t \in 0..len - 1 : s # t /\ tab[s] # 0 => tab[s] # tab[t]
      /\ \A s \in Filled : Stored(s)
      /\ Cardinality(Filled) = i
  BY <1>2 DEF Hashing
\* The number is in the table already.
<1>6. CASE tab[slot] = v
  <2>1. pc' = "insert" /\ i' = i /\ tab' = [tab EXCEPT ![slot] = v]
        /\ UNCHANGED <<slot, j>>
    BY <1>4, <1>6 DEF Probe
  <2>2. tab' = tab
    BY <1>4, <1>5, <1>6, <2>1
  <2>3. TypeOK'
    BY <1>2, <2>1, <2>2 DEF TypeOK
  <2>4. Calling'
    BY <1>2, <2>1, <2>2 DEF Calling
  <2>5. Filled' = Filled /\ \A s : Stored(s)' <=> Stored(s)
    BY <1>2, <2>2 DEF Filled, Stored, At
  <2>a. i' <= len' + k' /\ i' <= k' /\ len' > 0
    BY <1>1, <1>2, <1>3, <1>4, <2>1
  <2>6. Hashing'
    BY ZenonT(30), <1>2, <1>5, <2>1, <2>2, <2>5, <2>a DEF Hashing
  <2> QED BY <2>1, <2>3, <2>4, <2>6, OtherLoops
\* The slot is taken by another number.
<1>7. CASE tab[slot] # v /\ tab[slot] # 0
  <2>1. pc' = "probe" /\ slot' = (slot + j) % len /\ j' = j + 1
        /\ UNCHANGED <<pc, i, tab>>
    BY <1>2, <1>7 DEF Probe
  <2>2. slot' = SlotAt(v, j + 1, len) /\ slot' \in 0..len - 1
    <3>1. j + 1 \in Nat \ {0}
      BY <1>4
    <3>2. slot' = SlotAt(v, j + 1, len)
      BY <1>3, <1>4, <2>1, NextSlot DEF At
    <3> QED BY <1>3, <1>4, <3>1, <3>2, NextSlot
  <2>a. slot' \in Nat /\ slot' < len /\ j' \in Nat
    BY <1>3, <1>4, <2>1, <2>2
  <2>3. TypeOK'
    BY <1>2, <2>1, <2>a DEF TypeOK
  <2>4. Calling'
    BY <1>2, <2>1 DEF Calling
  <2>5. Filled' = Filled /\ \A s : Stored(s)' <=> Stored(s)
    BY <1>2, <2>1 DEF Filled, Stored, At
  <2>6. Hashing'
    BY <1>2, <2>1, <2>5 DEF Hashing
  <2>7. \A g \in 1..j : g = j \/ g \in 1..j - 1
    BY <1>4
  <2>8. \A g \in 1..j : tab[SlotAt(v, g, len)] \notin {0, v}
    BY <1>4, <1>7, <2>7 DEF At
  <2>9. 1..j' - 1 = 1..j /\ j' \in Nat \ {0}
    BY <1>4, <2>1
  <2>10. Probing'
    BY <1>2, <1>4, <2>1, <2>2, <2>8, <2>9 DEF Probing, At
  <2> QED BY <2>1, <2>3, <2>4, <2>6, <2>10, OtherLoops
\* The number is put at an empty slot: it is nowhere else, as it would have
\* been met before, or this slot been filled.
<1>8. CASE tab[slot] = 0
  <2>1. pc' = "insert" /\ i' = i + 1 /\ tab' = [tab EXCEPT ![slot] = v]
        /\ UNCHANGED <<slot, j>>
    BY <1>8 DEF Probe
  <2>2. \A s \in 0..len - 1 : tab'[s] = IF s = slot THEN v ELSE tab[s]
    BY <1>4, <1>5, <2>1
  <2>3. tab' \in [0..len - 1 -> 0..n]
    BY <1>1, <1>3, <1>4, <1>5, <2>1
  <2>4. TypeOK'
    BY <1>1, <1>2, <1>3, <1>4, <2>1, <2>3 DEF TypeOK
  <2>5. Calling'
    BY <1>2, <2>1 DEF Calling
  <2>6. ASSUME NEW s \in 0..len - 1, tab[s] = v PROVE FALSE
    <3>1. PICK m \in Nat \ {0} :
            s = At(v, m) /\ \A g \in 1..m - 1 : tab[At(v, g)] # 0
      BY <1>4, <1>5, <2>6 DEF Filled, Stored
    <3>2. m \notin 1..j - 1
      BY <1>4, <2>6, <3>1
    <3>3. m # j
      BY <1>4, <1>8, <2>6, <3>1
    <3>4. j \in 1..m - 1
      BY <1>4, <3>2, <3>3
    <3> QED BY <1>4, <1>8, <3>1, <3>4
  <2>7. \A s, t \in 0..len - 1 : s # t /\ tab'[s] # 0 => tab'[s] # tab'[t]
    BY <1>4, <1>5, <2>2, <2>6
  <2>8. \A s \in 0..len - 1 : tab[s] # 0 => tab'[s] = tab[s] /\ tab'[s] # 0
    BY <1>8, <2>2
  <2>9. \A w \in Nat, g \in Nat \ {0} : SlotAt(w, g, len) \in 0..len - 1
    BY <1>3, NextSlot
  <2>10. ASSUME NEW s \in Filled' PROVE Stored(s)'
    <3>1. s \in 0..len - 1 /\ tab'[s] # 0
      BY <1>2 DEF Filled
    <3>2. CASE s = slot
      <4>1. \A g \in 1..j - 1 : tab'[SlotAt(v, g, len)] # 0
        <5>1. \A g \in 1..j - 1 : g \in Nat \ {0}
          BY <1>4
        <5>2. \A g \in 1..j - 1 : SlotAt(v, g, len) \in 0..len - 1
          BY <1>4, <2>9, <5>1
        <5>3. \A g \in 1..j - 1 : tab[SlotAt(v, g, len)] # 0
          BY <1>4 DEF At
        <5> QED BY <2>8, <5>2, <5>3
      <4>2. s = SlotAt(tab'[s], j, len) /\ tab'[s] = v
        BY <1>4, <2>2, <3>1, <3>2 DEF At
      <4> QED BY <1>2, <1>4, <4>1, <4>2 DEF Stored, At
    <3>3. CASE s # slot
      <4>1. tab'[s] = tab[s] /\ s \in Filled /\ tab[s] \in Nat
        BY <1>1, <1>3, <1>5, <2>2, <3>1, <3>3 DEF Filled
      <4>2. PICK m \in Nat \ {0} :
              s = At(tab[s], m) /\ \A g \in 1..m - 1 : tab[At(tab[s], g)] # 0
        BY <1>5, <4>1 DEF Stored
      <4>3. \A g \in 1..m - 1 : tab'[SlotAt(tab[s], g, len)] # 0
        <5>1. \A g \in 1..m - 1 : g \in Nat \ {0}
          BY <4>2
        <5>2. \A g \in 1..m - 1 : SlotAt(tab[s], g, len) \in 0..len - 1
          BY <2>9, <4>1, <5>1
        <5>3. \A g \in 1..m - 1 : tab[SlotAt(tab[s], g, len)] # 0
          BY <4>2 DEF At
        <5> QED BY <2>8, <5>2, <5>3
      <4> QED BY <1>2, <4>1, <4>2, <4>3 DEF Stored, At
    <3> QED BY <3>2, <3>3
  <2>11. Filled' = Filled \cup {slot} /\ slot \notin Filled
    BY <1>2, <1>4, <1>8, <2>2 DEF Filled
  <2>12. Cardinality(Filled') = i'
    <3>1. IsFiniteSet(0..len - 1)
      BY <1>3, FS_Interval
    <3>2. IsFiniteSet(Filled)
      BY <3>1, FS_Subset DEF Filled
    <3> QED BY <1>5, <2>1, <2>11, <3>2, FS_AddElement
  <2>13. Hashing'
    <3>1. i' <= len' + k' /\ i' <= k' /\ len' > 0
      BY <1>1, <1>2, <1>3, <1>4, <2>1
    <3> QED BY <1>2, <2>1, <2>3, <2>7, <2>10, <2>12, <3>1 DEF Hashing
  <2> QED BY <2>1, <2>4, <2>5, <2>13, OtherLoops
<1> QED
  BY <1>6, <1>7, <1>8

LEMMA CopyInv ==
  ASSUME Inv, CopyBegins \/ Copy
  PROVE  Inv'
<1> USE DEF Inv
<1>1. call \in Calls /\ call.a \in Nat /\ call.b \in Nat /\ Largest \in Nat
      /\ call.a <= Largest /\ call.b <= Largest
  BY CallTypes DEF TypeOK
<1>2. pc' = "copy" /\ pc \in {"insert", "copy"}
      /\ UNCHANGED <<call, n, k, tab, len, np, first, slot, v, ret>>
  BY DEF CopyBegins, Copy, table, shuffling
<1>3. len \in Nat \ {0} /\ i \in Nat /\ j \in Nat /\ n = call.a /\ k = call.b
      /\ k <= n
  BY <1>2 DEF TypeOK, Hashing, Calling
<1>4. /\ tab \in [0..len - 1 -> 0..n]
      /\ \A s, t \in 0..len - 1 : s # t /\ tab[s] # 0 => tab[s] # tab[t]
      /\ Cardinality(Filled) = IF pc = "copy" THEN k ELSE i
  BY <1>2 DEF Hashing
<1>5. IsFiniteSet(Filled) /\ Filled \subseteq 0..len - 1
  <2>1. IsFiniteSet(0..len - 1)
    BY <1>3, FS_Interval
  <2> QED BY <2>1, FS_Subset DEF Filled
<1>a. \A s \in Filled : s \in Int /\ 0 <= s
  BY <1>3, <1>5
<1>6. Cardinality(Filled) = k
  BY <1>2, <1>4 DEF CopyBegins, Copy
<1>7. Filled' = Filled /\ \A s : Stored(s)' <=> Stored(s)
  BY <1>2 DEF Filled, Stored, At
<1>8. Calling'
  BY <1>2 DEF Calling
<1>9. ASSUME i' \in Nat, i' <= len PROVE Hashing'
  <2>1. i' <= len + k
    BY <1>1, <1>3, <1>9
  <2> QED BY <1>2, <1>3, <1>6, <1>7, <2>1 DEF Hashing
<1>10. ASSUME CopyBegins PROVE Inv'
  <2>1. i' = 0 /\ j' = 0 /\ p' = p
    BY <1>10 DEF CopyBegins
  <2>2. TypeOK'
    BY <1>1, <1>2, <2>1 DEF TypeOK
  <2>3. {s \in Filled : s < 0} = {}
    BY <1>a
  <2>4. Cardinality({s \in Filled : s < 0}) = 0
    BY <2>3, FS_EmptySet
  <2>5. Copying'
    BY <1>3, <1>2, <1>7, <2>1, <2>4 DEF Copying, Different
  <2>6. Hashing'
    BY <1>3, <1>9, <2>1
  <2> QED BY <1>2, <1>8, <2>2, <2>5, <2>6, OtherLoops
<1>11. ASSUME Copy PROVE Inv'
  <2>1. pc = "copy" /\ i < len /\ i' = i + 1
    BY <1>11 DEF Copy
  <2>2. /\ j = Cardinality({s \in Filled : s < i})
        /\ \A x \in 0..j - 1 : \E s \in 0..i - 1 : tab[s] # 0 /\ p[x] = tab[s] - 1
        /\ \A x, y \in 0..j - 1 : x # y => p[x] # p[y]
    BY <2>1 DEF Copying, Different
  <2>3. Hashing'
    BY <1>3, <1>9, <2>1
  <2>4. p \in [0..call.b - 1 -> -1..Largest] /\ j <= call.b
    BY <2>1 DEF TypeOK
  <2> DEFINE Before == {s \in Filled : s < i}
             Now == {s \in Filled : s < i + 1}
  <2>5. IsFiniteSet(Before) /\ IsFiniteSet(Now)
    BY <1>5, FS_Subset
  <2>6. CASE tab[i] = 0
    <3>1. p' = p /\ j' = j
      BY <2>6, <1>11 DEF Copy
    <3>2. TypeOK'
      BY <1>2, <1>3, <2>1, <2>4, <3>1 DEF TypeOK
    <3>3. Now = Before
      BY <1>3, <1>5, <2>6 DEF Filled
    <3>4. 0..i - 1 \subseteq 0..i' - 1
      BY <1>3, <2>1
    <3>5. j' = Cardinality({s \in Filled : s < i'})
      BY <2>1, <2>2, <3>1, <3>3
    <3>6. i' <= len
      BY <1>3, <2>1
    <3>7. \A x \in 0..j' - 1 :
             \E s \in 0..i' - 1 : tab[s] # 0 /\ p'[x] = tab[s] - 1
      BY <2>2, <3>1, <3>4
    <3>8. Copying'
      BY <1>2, <1>7, <2>2, <3>1, <3>5, <3>6, <3>7 DEF Copying, Different
    <3> QED BY <1>2, <1>8, <2>3, <3>2, <3>8, OtherLoops
  <2>7. CASE tab[i] # 0
    <3>1. p' = [p EXCEPT ![j] = tab[i] - 1] /\ j' = j + 1
      BY <2>7, <1>11 DEF Copy
    <3>2. i \in Filled /\ i \in 0..len - 1 /\ tab[i] \in 1..n
      BY <1>1, <1>3, <1>4, <2>1, <2>7 DEF Filled
    <3>a. \A s \in Filled : s < i + 1 <=> (s < i \/ s = i)
      BY <1>3, <1>a
    <3>b. ~(i < i)
      BY <1>3
    <3>3. Now = Before \cup {i} /\ i \notin Before
      BY <3>2, <3>a, <3>b
    <3>4. Cardinality(Now) = j + 1
      BY <2>2, <2>5, <3>3, FS_AddElement
    <3>5. Cardinality(Now) <= k
      BY <1>5, <1>6, FS_Subset
    <3>6. j < k /\ j \in 0..call.b - 1
      BY <1>1, <1>3, <3>4, <3>5
    <3>7. tab[i] - 1 \in -1..Largest
      BY <1>1, <1>3, <3>2
    <3>8. p' \in [0..call.b - 1 -> -1..Largest]
      BY <2>4, <3>1, <3>7
    <3>9. TypeOK'
      BY <1>1, <1>2, <1>3, <2>1, <3>1, <3>6, <3>8 DEF TypeOK
    <3>10. \A x \in 0..j : p'[x] = IF x = j THEN tab[i] - 1 ELSE p[x]
      BY <1>1, <1>3, <2>4, <3>1, <3>6
    <3>11. \A x \in 0..j : x = j \/ x \in 0..j - 1
      BY <1>3
    <3>12. 0..j' - 1 = 0..j /\ 0..i' - 1 = 0..i /\ i' <= len
      BY <1>3, <2>1, <3>1
    <3>13. \A s \in 0..i - 1 : s \in 0..i /\ s \in 0..len - 1 /\ s # i
      BY <1>3, <2>1
    <3>14. \A x \in 0..j : \E s \in 0..i : tab[s] # 0 /\ p'[x] = tab[s] - 1
      <4>1. i \in 0..i
        BY <1>3
      <4> QED BY <2>2, <2>7, <3>10, <3>11, <3>13, <4>1
    <3>15. \A x \in 0..j - 1 : p[x] # tab[i] - 1
      <4>1. TAKE x \in 0..j - 1
      <4>2. PICK s \in 0..i - 1 : tab[s] # 0 /\ p[x] = tab[s] - 1
        BY <2>2
      <4>3. tab[s] # tab[i] /\ tab[s] \in Nat /\ tab[i] \in Nat
        BY <1>1, <1>3, <1>4, <3>2, <3>13, <4>2
      <4> QED BY <4>2, <4>3
    <3>16. \A x, y \in 0..j : x # y => p'[x] # p'[y]
      BY <2>2, <3>10, <3>11, <3>15
    <3>17. j' = Cardinality({s \in Filled : s < i'})
      BY <2>1, <3>1, <3>4
    <3>18. Copying'
      BY <1>2, <1>7, <3>12, <3>14, <3>16, <3>17 DEF Copying, Different
    <3> QED BY <1>2, <1>8, <2>3, <3>9, <3>18, OtherLoops
  <2> QED BY <2>6, <2>7
<1> QED
  BY <1>10, <1>11

LEMMA NextInv == Inv /\ [Next]_vars => Inv'
<1> SUFFICES ASSUME Inv, [Next]_vars PROVE Inv'
  OBVIOUS
<1>1. CASE TRandInt \/ ChooseTooMany \/ MallocFails \/ LoopEnds
  BY <1>1, ReturnsInv
<1>2. CASE TRandRange \/ ChooseSmall \/ ChooseShuffled \/ ChooseHashed
  BY <1>2, CallsInv
<1>3. CASE Select
  BY <1>3, SelectInv
<1>4. CASE Pick
  BY <1>4, PickInv
<1>5. CASE Shuffle
  BY <1>5, ShuffleInv
<1>6. CASE Double \/ Allocate
  BY <1>6, SizeInv
<1>7. CASE Insert
  BY <1>7, InsertInv
<1>8. CASE Probe
  BY <1>8, ProbeInv
<1>9. CASE CopyBegins \/ Copy
  BY <1>9, CopyInv
<1>10. CASE UNCHANGED vars
  <2>1. UNCHANGED <<call, pc, n, k, i, p, tab, len, np, first, slot, j, v, ret>>
    BY <1>10 DEF vars
  <2>2. TypeOK' /\ Calling'
    BY <2>1 DEF Inv, TypeOK, Calling
  <2>3. Selecting' /\ Picking' /\ Shuffling' /\ ChoosesUnique'
    BY <2>1 DEF Inv, Selecting, Picking, Shuffling, Dealt, Different, ChoosesUnique
  <2>4. Filled' = Filled /\ \A s : Stored(s)' <=> Stored(s)
    BY <2>1 DEF Filled, Stored, At
  <2>5. Hashing'
    BY <2>1, <2>4 DEF Inv, Hashing
  <2>6. Probing' /\ Copying'
    BY <2>1, <2>4 DEF Inv, Probing, At, Copying, Different
  <2> QED BY <2>2, <2>3, <2>5, <2>6 DEF Inv
<1> QED
  BY <1>1, <1>2, <1>3, <1>4, <1>5, <1>6, <1>7, <1>8, <1>9, <1>10 DEF Next

-----------------------------------------------------------------------------
(* The theorems. *)

THEOREM InvHolds == Spec => []Inv
<1> QED BY InitInv, NextInv, PTL DEF Spec

\* No index leaves the table or the array of the caller, for any call.
THEOREM TypeCorrect == Spec => []TypeOK
<1>1. Inv => TypeOK
  BY DEF Inv
<1> QED BY <1>1, InvHolds, PTL

\* "choose k unique numbers from [0,n)" (rand.c line 109), for every n and k,
\* every threshold between the ways to do it and whatever is drawn.
THEOREM ChoosesUniqueHolds == Spec => []ChoosesUnique
<1>1. Inv => ChoosesUnique
  BY DEF Inv
<1> QED BY <1>1, InvHolds, PTL

-----------------------------------------------------------------------------
(* t_randint. *)

\* As many words below a multiple of m leave one rest as any other.
LEMMA RestsEven ==
  ASSUME NEW m \in Nat \ {0}, NEW q \in Nat, NEW d \in 0..m - 1
  PROVE  Cardinality({r \in 0..m * q - 1 : r % m = d}) = q
<1> DEFINE S == {r \in 0..m * q - 1 : r % m = d}
           f == [t \in 0..q - 1 |-> m * t + d]
<1>1. \A t \in Nat : (m * t + d) % m = d /\ m * t + d \in Nat
  BY SMTT(30)
<1>2. \A t \in 0..q - 1 : m * t + d <= m * q - 1
  <2>1. TAKE t \in 0..q - 1
  <2>2. m * (q - t) >= m
    <3> DEFINE e == q - t - 1
    <3>1. e \in Nat /\ q - t = e + 1
      BY <2>1
    <3> HIDE DEF e
    <3>2. m * (e + 1) = m * e + m /\ m * e \in Nat
      BY <3>1, SMTT(30)
    <3>3. m * (e + 1) >= m
      <4> DEFINE me == m * e
      <4>1. me \in Nat /\ m * (e + 1) = me + m
        BY <3>2
      <4> HIDE DEF me
      <4> QED BY <4>1
    <3> QED BY <3>1, <3>3
  <2>3. m * (q - t) = m * q - m * t
    BY <2>1, SMTT(30)
  <2> DEFINE mq == m * q
             mt == m * t
  <2>4. mq \in Nat /\ mt \in Nat /\ mq - mt >= m
    <3>1. m * q \in Nat /\ m * t \in Nat
      BY <2>1, SMTT(30)
    <3> QED BY <2>2, <2>3, <3>1
  <2>5. mt + d <= mq - 1
    <3> HIDE DEF mq, mt
    <3> QED BY <2>4
  <2> QED BY <2>5
<1>3. f \in [0..q - 1 -> S]
  <2>1. ASSUME NEW t \in 0..q - 1 PROVE m * t + d \in S
    <3>1. t \in Nat /\ (m * t + d) % m = d /\ m * t + d \in Nat
          /\ m * t + d <= m * q - 1
      BY <1>1, <1>2, <2>1
    <3>2. m * t + d \in 0..m * q - 1
      <4> DEFINE mq == m * q
                 mt == m * t
      <4>1. mq \in Nat /\ mt + d \in Nat /\ mt + d <= mq - 1
        <5>1. m * q \in Nat
          BY SMTT(30)
        <5> QED BY <3>1, <5>1
      <4>2. mt + d \in 0..mq - 1
        <5> HIDE DEF mq, mt
        <5> QED BY <4>1
      <4> QED BY <4>2
    <3> QED BY <3>1, <3>2
  <2> QED BY <2>1
<1>4. \A t, u \in 0..q - 1 : f[t] = f[u] => t = u
  <2>1. TAKE t, u \in 0..q - 1
  <2>2. HAVE f[t] = f[u]
  <2>3. t \in Nat /\ u \in Nat /\ m * t + d = m * u + d
    BY <2>1, <2>2
  <2>4. m * t = m * u
    <3> DEFINE mu == m * u
               mt == m * t
    <3>1. mu \in Nat /\ mt \in Nat /\ mt + d = mu + d
      <4>1. m * u \in Nat /\ m * t \in Nat
        BY <2>3, SMTT(30)
      <4> QED BY <2>3, <4>1
    <3>2. mt = mu
      <4> HIDE DEF mu, mt
      <4> QED BY <3>1
    <3> QED BY <3>2
  <2>5. (m * t) \div m = t /\ (m * u) \div m = u
    BY <2>3, SMTT(30)
  <2> QED BY <2>4, <2>5
<1>5. \A r \in S : \E t \in 0..q - 1 : f[t] = r
  <2>1. TAKE r \in S
  <2> DEFINE t == r \div m
  <2>2. r \in Nat /\ r % m = d /\ r <= m * q - 1
    <3>1. m * q \in Nat
      BY SMTT(30)
    <3> QED BY <2>1, <3>1
  <2>3. t \in Nat /\ r = m * t + d
    BY <2>2, SMTT(30)
  <2>4. t < q
    <3>1. SUFFICES ASSUME ~(t < q) PROVE FALSE
      OBVIOUS
    <3> HIDE DEF t
    <3> DEFINE e == t - q
    <3>2. e \in Nat /\ t = q + e
      BY <2>3, <3>1
    <3> HIDE DEF e
    <3>3. m * (q + e) = m * q + m * e /\ m * e \in Nat /\ m * q \in Nat
      BY <3>2, SMTT(30)
    <3> DEFINE mq == m * q
               me == m * e
    <3>4. mq \in Nat /\ me \in Nat /\ r = mq + me + d /\ r <= mq - 1
      BY <2>2, <2>3, <3>2, <3>3
    <3> HIDE DEF mq, me
    <3> QED BY <3>4
  <2>5. t \in 0..q - 1 /\ f[t] = r
    <3>1. t \in 0..q - 1
      <4> HIDE DEF t
      <4> QED BY <2>3, <2>4
    <3> HIDE DEF t
    <3> QED BY <2>3, <3>1
  <2> QED BY <2>5
<1>6. ExistsBijection(0..q - 1, S)
  <2> HIDE DEF f, S
  <2>1. f \in Bijection(0..q - 1, S)
    BY <1>3, <1>4, <1>5, Fun_IsBij
  <2> QED BY <2>1 DEF ExistsBijection
<1>7. IsFiniteSet(0..q - 1) /\ Cardinality(0..q - 1) = q
  BY FS_Interval
<1> HIDE DEF S
<1>8. Cardinality(S) = q
  BY <1>6, <1>7, FS_Bijection
<1> QED
  BY <1>8 DEF S

\* The words that t_randint(a, b) makes x of.
From(a, b, x) == {r \in DOMAIN RandInt(a, b) : RandInt(a, b)[r] = x}

LEMMA AllWordsEven ==
  ASSUME NEW a \in Words, NEW b \in Words, a <= b, b - a + 1 = Largest + 1
  PROVE  \A x \in a..b : From(a, b, x) = {x} /\ RandInt(a, b)[x] \in a..b
<1>1. Largest \in Nat /\ a = 0 /\ b = Largest
  BY ChooseAssumption DEF Words
<1>2. (b - a + 1) % (Largest + 1) = 0
  <2> DEFINE m == Largest + 1
  <2>1. m \in Nat \ {0} /\ b - a + 1 = m
    BY <1>1
  <2> HIDE DEF m
  <2>2. m % m = 0
    BY <2>1, SMTT(30)
  <2> QED BY <2>1, <2>2 DEF m
<1>3. RandInt(a, b) = [r \in Words |-> r]
  BY <1>2 DEF RandInt
<1>4. Words = a..b
  BY <1>1 DEF Words
<1> QED
  BY <1>3, <1>4 DEF From

LEMMA RangeEven ==
  ASSUME NEW a \in Words, NEW b \in Words, a <= b, b - a + 1 # Largest + 1
  PROVE  /\ \A x \in a..b : Cardinality(From(a, b, x)) = Largest \div (b - a + 1)
         /\ Largest \div (b - a + 1) \in Nat \ {0}
         /\ \A r \in DOMAIN RandInt(a, b) : RandInt(a, b)[r] \in a..b
<1> DEFINE m == b - a + 1
           q == Largest \div m
<1>1. Largest \in Nat /\ a \in Nat /\ b \in Nat /\ b <= Largest
  BY ChooseAssumption DEF Words
<1>2. m \in Nat \ {0} /\ m <= Largest /\ a + (m - 1) = b
  BY <1>1
<1> HIDE DEF m
<1>3. m % (Largest + 1) = m
  BY <1>1, <1>2
<1>4. RandInt(a, b) = [r \in Accepted(m) |-> (a + (r % m)) % (Largest + 1)]
  BY <1>2, <1>3 DEF RandInt, m
<1>5. q \in Nat /\ Largest = m * q + (Largest % m) /\ Largest % m \in 0..m - 1
  BY <1>1, <1>2, DivMod
<1>6. q # 0
  <2>1. SUFFICES ASSUME q = 0 PROVE FALSE
    OBVIOUS
  <2>2. m * q = 0
    BY <1>2, <2>1
  <2> HIDE DEF q
  <2> QED BY <1>1, <1>2, <1>5, <2>2
<1>7. Accepted(m) = 0..m * q - 1
  <2> DEFINE mq == m * q
             rest == Largest % m
  <2>1. mq \in Nat /\ rest \in Nat /\ Largest = mq + rest
    <3>1. m * q \in Nat
      <4> HIDE DEF q
      <4> QED BY <1>2, <1>5, SMTT(30)
    <3>2. Largest % m \in Nat
      BY <1>2, <1>5
    <3>3. Largest = m * q + (Largest % m)
      BY <1>5
    <3> HIDE DEF q
    <3> QED BY <1>1, <1>2, <1>5, <3>1, <3>2, <3>3
  <2>2. {r \in 0..Largest : r < Largest - rest} = 0..mq - 1
    <3> HIDE DEF mq, rest
    <3> QED BY <1>1, <2>1
  <2> QED BY <2>2 DEF Accepted, Words
<1>8. \A r \in Accepted(m) : (a + (r % m)) % (Largest + 1) = a + (r % m)
                              /\ r % m \in 0..m - 1
  <2>1. TAKE r \in Accepted(m)
  <2>2. r \in Nat
    BY <1>1, <2>1 DEF Accepted, Words
  <2>3. r % m \in 0..m - 1
    BY <1>2, <2>2
  <2> DEFINE d == r % m
  <2>4. a + d \in 0..Largest
    <3> HIDE DEF d
    <3> QED BY <1>1, <1>2, <2>3 DEF d
  <2>5. (a + d) % (Largest + 1) = a + d
    <3> HIDE DEF d
    <3> QED BY <1>1, <2>4
  <2> QED BY <2>3, <2>5
<1>9. DOMAIN RandInt(a, b) = Accepted(m)
      /\ \A r \in Accepted(m) : RandInt(a, b)[r] = a + (r % m)
  BY <1>4, <1>8
<1>10. ASSUME NEW x \in a..b PROVE Cardinality(From(a, b, x)) = q
  <2> DEFINE d == x - a
  <2>1. d \in 0..m - 1 /\ x = a + d
    BY <1>1, <1>2
  <2> HIDE DEF d
  <2>2. \A r \in Accepted(m) : a + (r % m) = x <=> r % m = d
    BY <1>1, <1>2, <1>8, <2>1
  <2>3. From(a, b, x) = {r \in 0..m * q - 1 : r % m = d}
    BY <1>7, <1>9, <2>2 DEF From
  <2>4. Cardinality({r \in 0..m * q - 1 : r % m = d}) = q
    <3> HIDE DEF q
    <3> QED BY <1>2, <1>5, <2>1, RestsEven
  <2> QED BY <2>3, <2>4
<1>11. \A r \in Accepted(m) : a + (r % m) \in a..b
  BY <1>1, <1>2, <1>8
<1> QED
  BY <1>5, <1>6, <1>9, <1>10, <1>11 DEF m

\* "uniform on [a,b]" (rand.c line 51): for every size of words and every
\* range, all words included, t_randint makes each number of the range of the
\* same number of words, not none, and no number outside of it.
THEOREM UniformHolds == Spec => []Uniform
<1>1. call \in Calls => Uniform
  <2>1. SUFFICES ASSUME call \in Calls, call.kind = "randint" PROVE Uniform
    BY DEF Uniform
  <2>2. call.a \in Words /\ call.b \in Words /\ call.a <= call.b
        /\ call.a \in Nat /\ call.b \in Nat
    BY <2>1, CallTypes DEF Words
  <2> DEFINE a == call.a
             b == call.b
  <2> HIDE DEF a, b
  <2>3. /\ \A x \in a..b : Cardinality(From(a, b, x)) = Cardinality(From(a, b, a))
                            /\ From(a, b, x) # {}
        /\ \A r \in DOMAIN RandInt(a, b) : RandInt(a, b)[r] \in a..b
    <3>1. a \in Words /\ b \in Words /\ a <= b /\ a \in a..b
      BY <2>2 DEF a, b
    <3>2. CASE b - a + 1 = Largest + 1
      <4>1. \A x \in a..b : From(a, b, x) = {x} /\ RandInt(a, b)[x] \in a..b
        BY <3>1, <3>2, AllWordsEven
      <4>2. \A x : Cardinality({x}) = 1
        <5>1. TAKE x
        <5>2. {x} = {} \cup {x} /\ x \notin {}
          OBVIOUS
        <5>3. IsFiniteSet({}) /\ Cardinality({}) = 0
          BY FS_EmptySet
        <5>4. Cardinality({} \cup {x}) =
                IF x \in {} THEN Cardinality({}) ELSE Cardinality({}) + 1
          BY <5>3, FS_AddElement
        <5>5. Cardinality({} \cup {x}) = 1
          BY <5>2, <5>3, <5>4
        <5> QED BY <5>2, <5>5
      <4>3. \A r \in DOMAIN RandInt(a, b) : r \in a..b
        <5>1. \A r \in DOMAIN RandInt(a, b) : r \in Words
          BY DEF RandInt, Accepted
        <5> QED BY <3>1, <3>2, <5>1, ChooseAssumption DEF Words
      <4> QED BY <3>1, <4>1, <4>2, <4>3
    <3>3. CASE b - a + 1 # Largest + 1
      <4> DEFINE q == Largest \div (b - a + 1)
      <4>1. /\ \A x \in a..b : Cardinality(From(a, b, x)) = q
            /\ q \in Nat \ {0}
            /\ \A r \in DOMAIN RandInt(a, b) : RandInt(a, b)[r] \in a..b
        BY <3>1, <3>3, RangeEven
      <4> HIDE DEF q
      <4>2. Cardinality({}) = 0
        BY FS_EmptySet
      <4>3. \A x \in a..b : From(a, b, x) # {}
        BY <4>1, <4>2
      <4> QED BY <3>1, <4>1, <4>3
    <3> QED BY <3>2, <3>3
  <2> QED BY <2>3 DEF Uniform, From, a, b
<1>2. Inv => call \in Calls
  BY DEF Inv, TypeOK
<1> QED BY <1>1, <1>2, InvHolds, PTL
=============================================================================
