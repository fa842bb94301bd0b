--------------------------- MODULE PageTableProofs ---------------------------
(***************************************************************************)
(* Proofs about PageTable: for any pool, any number of tasks and any       *)
(* addresses, a table belongs to one space, no page of the cache is lost,  *)
(* and the trees implement one function per space.                         *)
(***************************************************************************)
EXTENDS PageTable, FiniteSetTheorems, SequenceTheorems, WellFoundedInduction, TLAPS

USE DEF Ends

-----------------------------------------------------------------------------
(* Induction over the natural numbers, for sets.                            *)

(* A set of natural numbers has a least element.                            *)
LEMMA LeastElement ==
  ASSUME NEW T, T \subseteq Nat, T # {}
  PROVE  \E n \in T : \A k \in T : n <= k
<1> DEFINE Less == {ss \in Nat \X Nat : ss[1] < ss[2]}
<1>1. IsWellFoundedOn(Less, Nat)
  BY NatLessThanWellFounded DEF OpToRel
<1>2. PICK x \in T : \A y \in T : ~(<<y, x>> \in Less)
  BY <1>1, WFMin
<1>3. ASSUME NEW k \in T PROVE x <= k
  <2>1. ~(<<k, x>> \in Less) /\ x \in Nat /\ k \in Nat
    BY <1>2
  <2>2. QED
    BY <2>1
<1>4. QED
  BY <1>3

(* A set that holds 0 and with a number the next one holds them all.        *)
LEMMA SetInduction ==
  ASSUME NEW S, 0 \in S, \A n \in Nat : n \in S => n + 1 \in S
  PROVE  \A n \in Nat : n \in S
<1>1. SUFFICES ASSUME Nat \ S # {} PROVE FALSE
  OBVIOUS
<1>2. PICK n \in Nat \ S : \A k \in Nat \ S : n <= k
  BY <1>1, LeastElement
<1>3. n # 0 /\ n - 1 \in Nat
  BY <1>2
<1>4. n - 1 \in S
  BY <1>2, <1>3
<1>5. QED
  BY <1>2, <1>3, <1>4

(* g computes the first n steps of a recursion.                            *)
Computes(g, v0, step, n) ==
  /\ g \in [0..n -> Nat] /\ g[0] = v0
  /\ \A k \in 1..n : g[k] = step[k][g[k - 1]]

(* A computation and a longer one agree.                                    *)
LEMMA ComputesUnique ==
  ASSUME NEW v0, NEW step, NEW n \in Nat, NEW g, NEW h,
         Computes(g, v0, step, n), Computes(h, v0, step, n + 1)
  PROVE  g[n] = h[n]
<1> DEFINE S == {k \in Nat : k <= n => g[k] = h[k]}
<1>1. 0 \in S
  BY DEF Computes
<1>2. ASSUME NEW k \in Nat, k \in S PROVE k + 1 \in S
  <2>1. CASE k + 1 <= n
    <3>1. k + 1 \in 1..n /\ k + 1 \in 1..(n + 1) /\ (k + 1) - 1 = k
      BY <2>1
    <3>2. g[k] = h[k]
      BY <2>1, <1>2
    <3>3. g[k + 1] = h[k + 1]
      BY <3>1, <3>2 DEF Computes
    <3>4. QED
      BY <3>3
  <2>2. CASE ~(k + 1 <= n)
    BY <2>2
  <2>3. QED
    BY <2>1, <2>2
<1>3. \A k \in Nat : k \in S
  <2> HIDE DEF S
  <2> QED BY <1>1, <1>2, SetInduction
<1>4. QED
  BY <1>3

(* A recursion defines a function.                                          *)
LEMMA RecursionDefines ==
  ASSUME NEW v0 \in Nat, NEW step \in [Nat -> [Nat -> Nat]]
  PROVE  \E f \in [Nat -> Nat] : f[0] = v0 /\ \A n \in Nat : f[n + 1] = step[n + 1][f[n]]
<1> DEFINE S == {n \in Nat : \E g : Computes(g, v0, step, n)}
<1>1. 0 \in S
  <2> DEFINE g0 == [k \in 0..0 |-> v0]
  <2>1. Computes(g0, v0, step, 0)
    BY DEF Computes
  <2> QED BY <2>1
<1>2. ASSUME NEW n \in Nat, n \in S PROVE n + 1 \in S
  <2>1. PICK g : Computes(g, v0, step, n)
    BY <1>2
  <2> DEFINE h == [k \in 0..(n + 1) |-> IF k <= n THEN g[k] ELSE step[n + 1][g[n]]]
  <2>2. g \in [0..n -> Nat] /\ g[0] = v0 /\ \A k \in 1..n : g[k] = step[k][g[k - 1]]
    BY <2>1 DEF Computes
  <2>3. g[n] \in Nat /\ step[n + 1] \in [Nat -> Nat] /\ step[n + 1][g[n]] \in Nat
    <3>1. n \in 0..n /\ n + 1 \in Nat
      OBVIOUS
    <3>2. g[n] \in Nat /\ step[n + 1] \in [Nat -> Nat]
      BY <3>1, <2>2
    <3> QED BY <3>2
  <2>4. h \in [0..(n + 1) -> Nat] /\ h[0] = v0
    <3>1. ASSUME NEW k \in 0..(n + 1) PROVE (IF k <= n THEN g[k] ELSE step[n + 1][g[n]]) \in Nat
      <4>1. CASE k <= n
        <5>1. k \in 0..n
          BY <4>1
        <5> QED BY <5>1, <4>1, <2>2
      <4>2. CASE ~(k <= n)
        BY <4>2, <2>3
      <4> QED BY <4>1, <4>2
    <3>2. 0 \in 0..(n + 1) /\ 0 <= n
      OBVIOUS
    <3> QED BY <3>1, <3>2, <2>2
  <2>5. ASSUME NEW k \in 1..(n + 1) PROVE h[k] = step[k][h[k - 1]]
    <3>1. k - 1 \in 0..n /\ h[k - 1] = g[k - 1]
      BY <2>5
    <3>2. CASE k <= n
      <4>1. k \in 1..n /\ h[k] = g[k]
        BY <3>2
      <4> HIDE DEF h
      <4> QED BY <3>1, <4>1, <2>2
    <3>3. CASE k = n + 1
      <4>1. h[n + 1] = step[n + 1][g[n]] /\ h[n] = g[n]
        OBVIOUS
      <4>2. (n + 1) - 1 = n
        OBVIOUS
      <4> QED BY <4>1, <4>2, <3>3
    <3>4. QED
      BY <3>2, <3>3
  <2>6. Computes(h, v0, step, n + 1)
    <3> HIDE DEF h
    <3> QED BY <2>4, <2>5 DEF Computes
  <2> QED BY <2>6
<1>3. \A n \in Nat : n \in S
  <2> HIDE DEF S
  <2> QED BY <1>1, <1>2, SetInduction
<1> DEFINE G(n) == CHOOSE g : Computes(g, v0, step, n)
           f == [n \in Nat |-> G(n)[n]]
<1>4. \A n \in Nat : Computes(G(n), v0, step, n)
  BY <1>3
<1> HIDE DEF G
<1>5. f \in [Nat -> Nat]
  <2>1. ASSUME NEW n \in Nat PROVE G(n)[n] \in Nat
    BY <1>4 DEF Computes
  <2> QED BY <2>1
<1>6. f[0] = v0
  BY <1>4 DEF Computes
<1>7. ASSUME NEW n \in Nat PROVE f[n + 1] = step[n + 1][f[n]]
  <2>1. Computes(G(n), v0, step, n) /\ Computes(G(n + 1), v0, step, n + 1)
    BY <1>4
  <2>2. G(n)[n] = G(n + 1)[n]
    BY <2>1, ComputesUnique
  <2>3. G(n + 1)[n + 1] = step[n + 1][G(n + 1)[(n + 1) - 1]]
    BY <2>1 DEF Computes
  <2>4. (n + 1) - 1 = n /\ f[n + 1] = G(n + 1)[n + 1] /\ f[n] = G(n)[n]
    OBVIOUS
  <2> HIDE DEF f
  <2> QED BY <2>2, <2>3, <2>4
<1>8. QED
  <2> HIDE DEF f
  <2> QED BY <1>5, <1>6, <1>7

-----------------------------------------------------------------------------
(* Pages of frames and of pools                                             *)

(* A frame of the next order has twice the pages.                           *)
LEMMA PagesOfRec ==
  /\ PagesOf \in [Nat -> Nat] /\ PagesOf[0] = 1
  /\ \A o \in Nat : PagesOf[o + 1] = 2 * PagesOf[o]
<1> DEFINE step == [n \in Nat |-> [v \in Nat |-> 2 * v]]
<1>1. step \in [Nat -> [Nat -> Nat]]
  OBVIOUS
<1>2. PICK f \in [Nat -> Nat] : f[0] = 1 /\ \A n \in Nat : f[n + 1] = step[n + 1][f[n]]
  <2>1. 1 \in Nat
    OBVIOUS
  <2> HIDE DEF step
  <2> QED BY <1>1, <2>1, RecursionDefines, Zenon
<1>3. ASSUME NEW n \in Nat PROVE f[n + 1] = 2 * f[n]
  <2>1. f[n + 1] = step[n + 1][f[n]] /\ f[n] \in Nat
    BY <1>2
  <2>2. step[n + 1][f[n]] = 2 * f[n]
    BY <2>1
  <2> QED BY <2>1, <2>2
<1>4. \A n \in Nat : f[n] = IF n = 0 THEN 1 ELSE 2 * f[n - 1]
  <2>1. ASSUME NEW n \in Nat, n # 0 PROVE f[n] = 2 * f[n - 1]
    <3>1. n - 1 \in Nat /\ (n - 1) + 1 = n
      BY <2>1
    <3> QED BY <3>1, <1>3
  <2> QED BY <2>1, <1>2
<1>5. f = [n \in Nat |-> IF n = 0 THEN 1 ELSE 2 * f[n - 1]]
  BY <1>2, <1>4
<1>6. PagesOf = [n \in Nat |-> IF n = 0 THEN 1 ELSE 2 * PagesOf[n - 1]]
  BY <1>5 DEF PagesOf
<1> DEFINE S == {n \in Nat : PagesOf[n] = f[n]}
<1>7. 0 \in S
  BY <1>6, <1>2
<1>8. ASSUME NEW n \in Nat, n \in S PROVE n + 1 \in S
  <2>1. PagesOf[n + 1] = 2 * PagesOf[(n + 1) - 1]
    BY <1>6
  <2>2. (n + 1) - 1 = n
    OBVIOUS
  <2> QED BY <2>1, <2>2, <1>3, <1>8
<1>9. \A n \in Nat : n \in S
  <2> HIDE DEF S
  <2> QED BY <1>7, <1>8, SetInduction
<1>10. PagesOf = f
  BY <1>2, <1>6, <1>9
<1> QED BY <1>2, <1>3, <1>10

(* What PagesBelow computes: the sums of the pages of frames               *)
LEMMA PagesBelowRec ==
  ASSUME NEW q \in Seq(Nat)
  PROVE  /\ PagesBelow(q) \in [0..Len(q) -> Nat] /\ PagesBelow(q)[0] = 0
         /\ \A n \in 1..Len(q) : PagesBelow(q)[n] = PagesBelow(q)[n - 1] + PagesOf[q[n]]
<1> DEFINE step == [n \in Nat |-> [v \in Nat |-> IF n \in 1..Len(q) THEN v + PagesOf[q[n]] ELSE v]]
           Eq(g) == g = [n \in 0..Len(q) |-> IF n = 0 THEN 0 ELSE g[n - 1] + PagesOf[q[n]]]
<1>0. Len(q) \in Nat /\ \A n \in 1..Len(q) : q[n] \in Nat /\ PagesOf[q[n]] \in Nat
  <2>1. Len(q) \in Nat /\ \A n \in 1..Len(q) : q[n] \in Nat
    OBVIOUS
  <2> HIDE DEF step, Eq
  <2> QED BY <2>1, PagesOfRec
<1>1. step \in [Nat -> [Nat -> Nat]]
  <2>1. ASSUME NEW n \in Nat, NEW v \in Nat
        PROVE  (IF n \in 1..Len(q) THEN v + PagesOf[q[n]] ELSE v) \in Nat
    <3>1. CASE n \in 1..Len(q)
      <4>1. PagesOf[q[n]] \in Nat
        BY <3>1, <1>0
      <4> QED BY <4>1, <3>1
    <3>2. CASE n \notin 1..Len(q)
      BY <3>2
    <3> QED BY <3>1, <3>2
  <2> QED BY <2>1
<1>2. PICK f \in [Nat -> Nat] : f[0] = 0 /\ \A n \in Nat : f[n + 1] = step[n + 1][f[n]]
  <2>1. 0 \in Nat
    OBVIOUS
  <2> HIDE DEF step
  <2> QED BY <1>1, <2>1, RecursionDefines, Zenon
<1> DEFINE g == [n \in 0..Len(q) |-> f[n]]
<1>3. ASSUME NEW n \in 1..Len(q) PROVE f[n] = f[n - 1] + PagesOf[q[n]]
  <2>0. n - 1 \in Nat /\ (n - 1) + 1 = n /\ n \in Nat
    BY <1>0
  <2>1. f[n - 1] \in Nat
    BY <2>0
  <2>2. f[n] = step[n][f[n - 1]]
    <3> HIDE DEF step
    <3>1. f[(n - 1) + 1] = step[(n - 1) + 1][f[n - 1]]
      BY <2>0, <1>2
    <3> QED BY <3>1, <2>0
  <2>3. step[n][f[n - 1]] = f[n - 1] + PagesOf[q[n]]
    BY <2>0, <2>1
  <2> QED BY <2>2, <2>3
<1>4. Eq(g)
  <2>1. ASSUME NEW n \in 0..Len(q)
        PROVE  f[n] = IF n = 0 THEN 0 ELSE g[n - 1] + PagesOf[q[n]]
    <3>1. CASE n = 0
      BY <3>1, <1>2
    <3>2. CASE n # 0
      <4>1. n \in 1..Len(q) /\ n - 1 \in 0..Len(q)
        BY <3>2
      <4>2. g[n - 1] = f[n - 1]
        BY <4>1
      <4> QED BY <4>1, <4>2, <1>3, <3>2
    <3> QED BY <3>1, <3>2
  <2> QED BY <2>1
<1>5. Eq(PagesBelow(q))
  <2>1. PagesBelow(q) = CHOOSE h : Eq(h)
    BY DEF PagesBelow
  <2> HIDE DEF Eq, g
  <2> QED BY <2>1, <1>4
<1> DEFINE S == {n \in Nat : n <= Len(q) => PagesBelow(q)[n] \in Nat}
<1>6. 0 \in S
  BY <1>5
<1>7. ASSUME NEW n \in Nat, n \in S PROVE n + 1 \in S
  <2>1. CASE n + 1 <= Len(q)
    <3>0. n + 1 \in 0..Len(q) /\ n + 1 # 0
      BY <2>1
    <3>1. PagesBelow(q)[n + 1] = PagesBelow(q)[(n + 1) - 1] + PagesOf[q[n + 1]]
      BY <1>5, <3>0
    <3>2. (n + 1) - 1 = n /\ PagesOf[q[n + 1]] \in Nat /\ PagesBelow(q)[n] \in Nat
      <4>1. n + 1 \in 1..Len(q) /\ n <= Len(q)
        BY <1>0, <2>1
      <4> QED BY <4>1, <1>0, <1>7
    <3>3. PagesBelow(q)[n + 1] \in Nat
      <4> HIDE DEF step, Eq, g
      <4>1. PagesBelow(q)[n + 1] = PagesBelow(q)[n] + PagesOf[q[n + 1]]
        BY <3>1, <3>2
      <4>2. PagesBelow(q)[n] \in Nat /\ PagesOf[q[n + 1]] \in Nat
        BY <3>2
      <4> HIDE DEF S
      <4>3. ASSUME NEW x \in Nat, NEW y \in Nat PROVE x + y \in Nat
        OBVIOUS
      <4> QED BY <4>1, <4>2, <4>3, Zenon
    <3> QED BY <3>3
  <2> QED BY <2>1
<1>8. \A n \in Nat : n \in S
  <2> HIDE DEF S
  <2> QED BY <1>6, <1>7, SetInduction
<1>9. PagesBelow(q) \in [0..Len(q) -> Nat]
  <2>1. PagesBelow(q) = [n \in 0..Len(q) |-> PagesBelow(q)[n]]
    BY <1>5
  <2> QED BY <2>1, <1>8
<1>10. PagesBelow(q)[0] = 0
  BY <1>5
<1>11. ASSUME NEW n \in 1..Len(q) PROVE PagesBelow(q)[n] = PagesBelow(q)[n - 1] + PagesOf[q[n]]
  <2>1. n \in 0..Len(q) /\ n # 0
    OBVIOUS
  <2> QED BY <1>5, <2>1
<1> QED BY <1>9, <1>10, <1>11

(* Pools that begin alike have the same pages there.                        *)
LEMMA PagesBelowPrefix ==
  ASSUME NEW q \in Seq(Nat), NEW r \in Seq(Nat), NEW k \in Nat, k <= Len(q), k <= Len(r),
         \A n \in 1..k : q[n] = r[n]
  PROVE  \A n \in 0..k : PagesBelow(q)[n] = PagesBelow(r)[n]
<1> DEFINE S == {n \in Nat : n <= k => PagesBelow(q)[n] = PagesBelow(r)[n]}
<1>1. 0 \in S
  BY PagesBelowRec
<1>2. ASSUME NEW n \in Nat, n \in S PROVE n + 1 \in S
  <2>1. CASE n + 1 <= k
    <3>0. n + 1 \in 1..Len(q) /\ n + 1 \in 1..Len(r)
      BY <2>1
    <3>1. PagesBelow(q)[n + 1] = PagesBelow(q)[(n + 1) - 1] + PagesOf[q[n + 1]]
      BY PagesBelowRec, <3>0
    <3>2. PagesBelow(r)[n + 1] = PagesBelow(r)[(n + 1) - 1] + PagesOf[r[n + 1]]
      BY PagesBelowRec, <3>0
    <3>3. (n + 1) - 1 = n /\ q[n + 1] = r[n + 1]
      BY <2>1
    <3> QED BY <3>1, <3>2, <3>3, <2>1, <1>2
  <2> QED BY <2>1
<1>3. \A n \in Nat : n \in S
  <2> HIDE DEF S
  <2> QED BY <1>1, <1>2, SetInduction
<1> QED BY <1>3

(* A frame has a page at least.                                             *)
LEMMA PagesOfPositive == \A o \in Nat : PagesOf[o] \in Nat /\ PagesOf[o] >= 1
<1> DEFINE S == {n \in Nat : PagesOf[n] >= 1}
<1>1. 0 \in S
  BY PagesOfRec
<1>2. ASSUME NEW n \in Nat, n \in S PROVE n + 1 \in S
  <2>1. PagesOf[n + 1] = 2 * PagesOf[n] /\ PagesOf[n] \in Nat /\ PagesOf[n] >= 1
    BY PagesOfRec, <1>2
  <2> QED BY <2>1
<1>3. \A n \in Nat : n \in S
  <2> HIDE DEF S
  <2> QED BY <1>1, <1>2, SetInduction
<1> QED BY <1>3, PagesOfRec

(* A pool that is divided and refilled within its array: each frame fits    *)
(* with all its right halves, and the frames below have a page each.        *)
GoodPool(q) ==
  /\ q \in Seq(Nat)
  /\ \A n \in 1..Len(q) : PagesBelow(q)[n] >= n /\ n + q[n] <= MaxCache
Total(q) == PagesBelow(q)[Len(q)]

(* A pool has no more frames than pages, and fits into its array.           *)
LEMMA TotalType ==
  ASSUME NEW q, GoodPool(q)
  PROVE  Total(q) \in Nat /\ Len(q) \in Nat /\ Len(q) <= Total(q) /\ (Len(q) > 0 => Len(q) <= MaxCache)
<1>1. q \in Seq(Nat) /\ Len(q) \in Nat
  BY DEF GoodPool
<1>2. Len(q) \in 0..Len(q)
  BY <1>1
<1>3. Total(q) \in Nat
  BY <1>1, <1>2, PagesBelowRec DEF Total
<1>4. CASE Len(q) = 0
  BY <1>1, <1>3, <1>4
<1>5. CASE Len(q) # 0
  <2>1. Len(q) \in 1..Len(q)
    BY <1>1, <1>5
  <2>2. q[Len(q)] \in Nat /\ MaxCache \in Nat
    BY <1>1, <2>1, PageTableAssumption
  <2>3. PagesBelow(q)[Len(q)] >= Len(q) /\ Len(q) + q[Len(q)] <= MaxCache
    BY <2>1 DEF GoodPool
  <2> QED BY <1>1, <1>3, <2>2, <2>3 DEF Total
<1> QED BY <1>4, <1>5

(* What Append does to a sequence of numbers                                *)
LEMMA AppendIs ==
  ASSUME NEW q \in Seq(Nat), NEW x \in Nat
  PROVE  /\ Len(q) \in Nat /\ Append(q, x) \in Seq(Nat) /\ Len(Append(q, x)) = Len(q) + 1
         /\ \A n \in 1..Len(q) : Append(q, x)[n] = q[n]
         /\ Append(q, x)[Len(q) + 1] = x
<1>1. Len(q) \in Nat /\ Append(q, x) \in Seq(Nat) /\ Len(Append(q, x)) = Len(q) + 1
  OBVIOUS
<1>2. \A n \in 1..Len(q) : Append(q, x)[n] = q[n]
  OBVIOUS
<1>3. Append(q, x)[Len(q) + 1] = x
  OBVIOUS
<1> QED BY <1>1, <1>2, <1>3

(* A frame of order x at the end of the pool, where it fits                 *)
LEMMA PoolAppend ==
  ASSUME NEW q, GoodPool(q), NEW x \in Nat, Len(q) + 1 + x <= MaxCache
  PROVE  GoodPool(Append(q, x)) /\ Total(Append(q, x)) = Total(q) + PagesOf[x]
<1> DEFINE r == Append(q, x)
           L == Len(q)
<1>1. q \in Seq(Nat) /\ L \in Nat /\ r \in Seq(Nat) /\ Len(r) = L + 1
  BY DEF GoodPool
<1>2. (\A n \in 1..L : r[n] = q[n]) /\ r[L + 1] = x
  BY <1>1
<1>3. \A n \in 0..L : PagesBelow(r)[n] = PagesBelow(q)[n]
  <2>1. L <= Len(q) /\ L <= Len(r)
    BY <1>1
  <2> HIDE DEF r, L
  <2> QED BY <1>1, <1>2, <2>1, PagesBelowPrefix
<1>4. PagesBelow(r)[L + 1] = PagesBelow(q)[L] + PagesOf[x]
  <2>1. L + 1 \in 1..Len(r) /\ (L + 1) - 1 = L /\ L \in 0..L
    BY <1>1
  <2>2. PagesBelow(r)[L + 1] = PagesBelow(r)[(L + 1) - 1] + PagesOf[r[L + 1]]
    <3> HIDE DEF r, L
    <3> QED BY <1>1, <2>1, PagesBelowRec
  <2> HIDE DEF r, L
  <2> QED BY <2>1, <2>2, <1>2, <1>3
<1>5. ASSUME NEW n \in 1..Len(r) PROVE PagesBelow(r)[n] >= n /\ n + r[n] <= MaxCache
  <2>1. CASE n <= L
    <3>1. n \in 1..L /\ n \in 0..L
      BY <1>1, <2>1
    <3>2. PagesBelow(q)[n] >= n /\ n + q[n] <= MaxCache
      BY <3>1 DEF GoodPool
    <3> HIDE DEF r, L
    <3> QED BY <3>1, <3>2, <1>2, <1>3
  <2>2. CASE n = L + 1
    <3>1. L <= PagesBelow(q)[L] /\ PagesBelow(q)[L] \in Nat
      BY TotalType DEF Total
    <3>2. PagesOf[x] \in Nat /\ PagesOf[x] >= 1
      BY PagesOfPositive
    <3>3. PagesBelow(r)[L + 1] >= L + 1
      <4> HIDE DEF r
      <4> QED BY <1>1, <1>4, <3>1, <3>2
    <3> HIDE DEF r
    <3> QED BY <3>3, <1>2, <2>2
  <2> HIDE DEF r
  <2> QED BY <1>1, <2>1, <2>2
<1> QED
  <2>1. GoodPool(r)
    <3> HIDE DEF r
    <3> QED BY <1>1, <1>5 DEF GoodPool
  <2>2. Total(r) = Total(q) + PagesOf[x]
    <3> HIDE DEF r
    <3> QED BY <1>1, <1>4 DEF Total
  <2> QED BY <2>1, <2>2

(* Division of a pool's last frame leaves one page less in the pool, the    *)
(* one that is taken, and fits into the array.                              *)
LEMMA PoolDivide ==
  ASSUME NEW q, GoodPool(q), Len(q) > 0, NEW n, n = Len(q), NEW o, o = q[n]
  PROVE  LET r == SubSeq(q, 1, n - 1) \o RightHalves(o)
         IN  GoodPool(r) /\ Total(r) = Total(q) - 1
<1> DEFINE front == SubSeq(q, 1, n - 1)
           r == front \o RightHalves(o)
<1>1. q \in Seq(Nat) /\ n \in Nat /\ n \in 1..n /\ n - 1 \in Nat /\ n \in 1..Len(q)
  BY DEF GoodPool
<1>2. o \in Nat /\ MaxCache \in Nat /\ n + o <= MaxCache
  BY <1>1, PageTableAssumption DEF GoodPool
<1>3. RightHalves(o) \in Seq(Nat) /\ Len(RightHalves(o)) = o
      /\ \A i \in 1..o : RightHalves(o)[i] = o - i
  BY <1>2 DEF RightHalves
<1>4. front \in Seq(Nat) /\ Len(front) = n - 1 /\ \A i \in 1..(n - 1) : front[i] = q[i]
  <2>1. \A i \in 1..(n - 1) : q[i] \in Nat
    BY <1>1
  <2> QED BY <1>1, <2>1, SubSeqProperties
<1>5. r \in Seq(Nat) /\ Len(r) = (n - 1) + o
      /\ \A i \in 1..((n - 1) + o) : r[i] = IF i <= n - 1 THEN q[i] ELSE o - (i - (n - 1))
  <2>1. /\ r \in Seq(Nat) /\ Len(r) = (n - 1) + o
        /\ \A i \in 1..((n - 1) + o) : r[i] = IF i <= n - 1 THEN front[i] ELSE RightHalves(o)[i - (n - 1)]
    <3> HIDE DEF front
    <3> QED BY <1>3, <1>4, ConcatProperties
  <2>2. ASSUME NEW i \in 1..((n - 1) + o) PROVE r[i] = IF i <= n - 1 THEN q[i] ELSE o - (i - (n - 1))
    <3>1. CASE i <= n - 1
      <4>1. i \in 1..(n - 1)
        BY <1>1, <3>1
      <4> HIDE DEF r, front
      <4> QED BY <2>1, <3>1, <4>1, <1>4
    <3>2. CASE ~(i <= n - 1)
      <4>1. i - (n - 1) \in 1..o
        BY <1>1, <1>2, <3>2
      <4> HIDE DEF r, front
      <4> QED BY <2>1, <3>2, <4>1, <1>3
    <3> QED BY <3>1, <3>2
  <2> HIDE DEF r
  <2> QED BY <2>1, <2>2
<1> HIDE DEF r, front
<1> DEFINE base == PagesBelow(q)[n - 1]
<1>6. base \in Nat /\ base >= n - 1 /\ PagesBelow(q)[n] = base + PagesOf[o]
  <2>1. PagesBelow(q)[n] = PagesBelow(q)[n - 1] + PagesOf[q[n]]
    BY <1>1, PagesBelowRec
  <2>2. n - 1 \in 0..Len(q) /\ PagesBelow(q)[n - 1] \in Nat /\ PagesOf[o] \in Nat
    <3>1. n - 1 \in 0..Len(q)
      BY <1>1
    <3> QED BY <3>1, <1>1, <1>2, PagesBelowRec, PagesOfPositive
  <2>3. CASE n - 1 = 0
    <3>1. base \in Nat /\ PagesBelow(q)[n] = base + PagesOf[o]
      BY <2>1, <2>2
    <3> HIDE DEF base
    <3> QED BY <3>1, <2>3, <1>1, SMTT(30)
  <2>4. CASE n - 1 # 0
    <3>1. n - 1 \in 1..Len(q)
      BY <1>1, <2>4
    <3> QED BY <2>1, <2>2, <3>1 DEF GoodPool
  <2> QED BY <2>3, <2>4
<1>7. \A i \in 0..(n - 1) : PagesBelow(r)[i] = PagesBelow(q)[i]
  <2>1. n - 1 <= Len(q) /\ n - 1 <= Len(r)
    BY <1>1, <1>2, <1>5
  <2>2. \A i \in 1..(n - 1) : r[i] = q[i]
    BY <1>1, <1>2, <1>5
  <2> QED BY <1>1, <1>5, <2>1, <2>2, PagesBelowPrefix
<1> DEFINE at(i) == PagesBelow(r)[(n - 1) + i]
           S == {i \in Nat : i <= o => /\ at(i) \in Nat /\ at(i) + PagesOf[o - i] = base + PagesOf[o]
                                       /\ at(i) >= (n - 1) + i}
<1>8. 0 \in S
  <2>1. at(0) = base
    BY <1>1, <1>7
  <2>2. PagesOf[o - 0] = PagesOf[o]
    BY <1>2
  <2> HIDE DEF at, base
  <2> QED BY <2>1, <2>2, <1>1, <1>6
<1>9. ASSUME NEW i \in Nat, i \in S PROVE i + 1 \in S
  <2>1. CASE i + 1 <= o
    <3>1. /\ (n - 1) + (i + 1) \in 1..Len(r) /\ ((n - 1) + (i + 1)) - 1 = (n - 1) + i
          /\ ~((n - 1) + (i + 1) <= n - 1)
          /\ o - (((n - 1) + (i + 1)) - (n - 1)) = o - (i + 1) /\ o - (i + 1) \in Nat
          /\ (o - (i + 1)) + 1 = o - i
      <4>1. (n - 1) + (i + 1) \in 1..((n - 1) + o)
        BY <1>1, <1>2, <2>1
      <4>2. /\ ((n - 1) + (i + 1)) - 1 = (n - 1) + i
            /\ ~((n - 1) + (i + 1) <= n - 1)
        BY <1>1, <1>2, <2>1
      <4>3. ((n - 1) + (i + 1)) - (n - 1) = i + 1
        BY <1>1, <1>2, <2>1
      <4>4. o - (i + 1) \in Nat /\ (o - (i + 1)) + 1 = o - i
        BY <1>2, <2>1
      <4> QED BY <1>5, <4>1, <4>2, <4>3, <4>4
    <3>2. r[(n - 1) + (i + 1)] = o - (i + 1)
      BY <3>1, <1>5
    <3>3. at(i + 1) = at(i) + PagesOf[o - (i + 1)]
      BY <3>1, <3>2, <1>5, PagesBelowRec
    <3>4. PagesOf[o - i] = 2 * PagesOf[o - (i + 1)]
      BY <3>1, PagesOfRec
    <3>5. PagesOf[o - (i + 1)] \in Nat /\ PagesOf[o - (i + 1)] >= 1 /\ PagesOf[o] \in Nat
      BY <3>1, <1>2, PagesOfPositive
    <3>6. /\ at(i) \in Nat /\ at(i) + PagesOf[o - i] = base + PagesOf[o]
          /\ at(i) >= (n - 1) + i
      BY <1>9, <1>2, <2>1
    <3>7. /\ at(i + 1) \in Nat /\ at(i + 1) + PagesOf[o - (i + 1)] = base + PagesOf[o]
          /\ at(i + 1) >= (n - 1) + (i + 1)
      <4> HIDE DEF at, base
      <4>1. at(i + 1) \in Nat
        BY <3>3, <3>5, <3>6
      <4>2. at(i + 1) + PagesOf[o - (i + 1)] = base + PagesOf[o]
        BY <3>3, <3>4, <3>5, <3>6
      <4>3. at(i + 1) >= (n - 1) + (i + 1)
        BY <3>3, <3>5, <3>6, <1>1
      <4> QED BY <4>1, <4>2, <4>3
    <3> HIDE DEF at, base
    <3> QED BY <3>7
  <2> QED BY <2>1
<1>10. \A i \in Nat : i \in S
  <2> HIDE DEF S
  <2> QED BY <1>8, <1>9, SetInduction
<1>11. at(o) + PagesOf[0] = base + PagesOf[o] /\ at(o) \in Nat
  <2>1. o - o = 0 /\ o <= o
    BY <1>2
  <2>2. o \in S
    BY <1>2, <1>10
  <2> HIDE DEF at, base
  <2> QED BY <2>1, <2>2, <1>2
<1>12. Total(r) = Total(q) - 1
  <2>1. Total(r) = at(o) /\ Total(q) = PagesBelow(q)[n]
    BY <1>5 DEF Total
  <2>2. PagesOf[0] = 1 /\ PagesOf[o] \in Nat
    BY <1>2, PagesOfRec
  <2> HIDE DEF at, base
  <2> QED BY <2>1, <2>2, <1>6, <1>11
<1>13. ASSUME NEW k \in 1..Len(r) PROVE PagesBelow(r)[k] >= k /\ k + r[k] <= MaxCache
  <2>1. CASE k <= n - 1
    <3>1. k \in 1..Len(q) /\ k \in 0..(n - 1) /\ k \in 1..((n - 1) + o)
      BY <1>1, <1>2, <2>1
    <3>2. r[k] = q[k] /\ PagesBelow(r)[k] = PagesBelow(q)[k]
      BY <3>1, <2>1, <1>5, <1>7
    <3> QED BY <3>1, <3>2 DEF GoodPool
  <2>2. CASE ~(k <= n - 1)
    <3>1. PICK i \in 1..o : k = (n - 1) + i
      <4>1. k \in 1..((n - 1) + o)
        BY <1>5
      <4>2. k - (n - 1) \in 1..o /\ k = (n - 1) + (k - (n - 1))
        BY <1>1, <1>2, <2>2, <4>1
      <4> QED BY <4>2
    <3>2. at(i) >= (n - 1) + i
      <4>1. i \in Nat /\ i <= o
        BY <1>2
      <4>2. i \in S
        BY <4>1, <1>10
      <4> HIDE DEF at
      <4> QED BY <4>1, <4>2
    <3>3. r[k] = o - i
      <4>1. k \in 1..((n - 1) + o) /\ k - (n - 1) = i
        BY <3>1, <1>1, <1>2
      <4> QED BY <4>1, <2>2, <1>5
    <3>4. k + (o - i) <= MaxCache
      BY <3>1, <1>1, <1>2, SMTT(30)
    <3> QED BY <3>1, <3>2, <3>3, <3>4
  <2> QED BY <2>1, <2>2
<1>14. GoodPool(r)
  BY <1>5, <1>13 DEF GoodPool
<1> QED BY <1>12, <1>14 DEF r, front

(* Single pages at the end of the pool, where there is room                 *)
LEMMA PoolZeros ==
  ASSUME NEW q, GoodPool(q), NEW k \in Nat, Len(q) + k <= MaxCache
  PROVE  LET r == q \o [i \in 1..k |-> 0]
         IN  GoodPool(r) /\ Total(r) = Total(q) + k
<1> DEFINE z(j) == [i \in 1..j |-> 0]
           R(j) == q \o z(j)
           S == {j \in Nat : j <= k => GoodPool(R(j)) /\ Total(R(j)) = Total(q) + j}
<1>1. q \in Seq(Nat) /\ Len(q) \in Nat /\ Total(q) \in Nat /\ MaxCache \in Nat
  BY TotalType, PageTableAssumption DEF GoodPool
<1>2. ASSUME NEW j \in Nat
      PROVE  z(j) \in Seq(Nat) /\ Len(z(j)) = j /\ z(j + 1) = Append(z(j), 0)
  <2>1. z(j) \in Seq(Nat) /\ Len(z(j)) = j /\ z(j + 1) \in Seq(Nat) /\ Len(z(j + 1)) = j + 1
    OBVIOUS
  <2>2. Append(z(j), 0) \in Seq(Nat) /\ Len(Append(z(j), 0)) = j + 1
    BY <2>1
  <2>3. \A i \in 1..(j + 1) : z(j + 1)[i] = Append(z(j), 0)[i]
    BY <2>1
  <2> HIDE DEF z
  <2> QED BY <2>1, <2>2, <2>3, SeqEqual
<1>3. ASSUME NEW j \in Nat PROVE R(j + 1) = Append(R(j), 0) /\ Len(R(j)) = Len(q) + j
  <2>1. /\ z(j) \in Seq(Nat) /\ Len(z(j)) = j /\ z(j + 1) \in Seq(Nat) /\ Len(z(j + 1)) = j + 1
        /\ z(j + 1) = Append(z(j), 0)
    BY <1>2
  <2> HIDE DEF z
  <2>2. /\ R(j) \in Seq(Nat) /\ Len(R(j)) = Len(q) + j
        /\ \A i \in 1..(Len(q) + j) : R(j)[i] = IF i <= Len(q) THEN q[i] ELSE z(j)[i - Len(q)]
    <3> HIDE DEF z, S
    <3>1. /\ q \o z(j) \in Seq(Nat) /\ Len(q \o z(j)) = Len(q) + Len(z(j))
          /\ \A i \in 1..(Len(q) + Len(z(j))) :
               (q \o z(j))[i] = IF i <= Len(q) THEN q[i] ELSE z(j)[i - Len(q)]
      BY <1>1, <2>1, ConcatProperties
    <3> QED BY <1>1, <2>1, <3>1
  <2>3. /\ R(j + 1) \in Seq(Nat) /\ Len(R(j + 1)) = Len(q) + (j + 1)
        /\ \A i \in 1..(Len(q) + (j + 1)) : R(j + 1)[i] = IF i <= Len(q) THEN q[i] ELSE z(j + 1)[i - Len(q)]
    <3> HIDE DEF z, S
    <3>1. /\ q \o z(j + 1) \in Seq(Nat) /\ Len(q \o z(j + 1)) = Len(q) + Len(z(j + 1))
          /\ \A i \in 1..(Len(q) + Len(z(j + 1))) :
               (q \o z(j + 1))[i] = IF i <= Len(q) THEN q[i] ELSE z(j + 1)[i - Len(q)]
      BY <1>1, <2>1, ConcatProperties
    <3> QED BY <1>1, <2>1, <3>1
  <2> HIDE DEF R
  <2>4. /\ Append(R(j), 0) \in Seq(Nat) /\ Len(Append(R(j), 0)) = Len(q) + (j + 1)
        /\ \A i \in 1..(Len(q) + j) : Append(R(j), 0)[i] = R(j)[i]
        /\ Append(R(j), 0)[Len(q) + j + 1] = 0
    BY <1>1, <2>2, AppendIs, SMTT(30)
  <2>5. (\A i \in 1..j : z(j + 1)[i] = z(j)[i]) /\ z(j + 1)[j + 1] = 0
    <3>1. 0 \in Nat
      OBVIOUS
    <3>2. (\A i \in 1..j : Append(z(j), 0)[i] = z(j)[i]) /\ Append(z(j), 0)[j + 1] = 0
      <4> HIDE DEF z, S
      <4> QED BY <2>1, <3>1, AppendIs
    <3> HIDE DEF z
    <3> QED BY <2>1, <3>2
  <2>6. ASSUME NEW i \in 1..(Len(q) + (j + 1)) PROVE R(j + 1)[i] = Append(R(j), 0)[i]
    <3>1. CASE i <= Len(q)
      <4>1. i \in 1..(Len(q) + j)
        BY <1>1, <3>1
      <4> QED BY <3>1, <4>1, <2>2, <2>3, <2>4
    <3>2. CASE i > Len(q) /\ i <= Len(q) + j
      <4>1. i \in 1..(Len(q) + j) /\ ~(i <= Len(q)) /\ i - Len(q) \in 1..j
        BY <1>1, <3>2
      <4> QED BY <4>1, <2>2, <2>3, <2>4, <2>5
    <3>3. CASE i = Len(q) + j + 1
      <4>1. i - Len(q) = j + 1 /\ ~(i <= Len(q))
        BY <1>1, <3>3
      <4> QED BY <3>3, <4>1, <2>3, <2>4, <2>5
    <3>4. i <= Len(q) \/ (i > Len(q) /\ i <= Len(q) + j) \/ i = Len(q) + j + 1
      BY <1>1
    <3> QED BY <3>1, <3>2, <3>3, <3>4
  <2> QED BY <1>1, <2>2, <2>3, <2>4, <2>6, SeqEqual
<1>4. 0 \in S
  <2>1. z(0) = <<>>
    OBVIOUS
  <2>2. R(0) = q
    <3> HIDE DEF z
    <3> QED BY <1>1, <2>1
  <2> HIDE DEF R
  <2> QED BY <1>1, <2>2
<1>5. ASSUME NEW j \in Nat, j \in S PROVE j + 1 \in S
  <2>1. CASE j + 1 <= k
    <3>1. GoodPool(R(j)) /\ Total(R(j)) = Total(q) + j
      <4> HIDE DEF R
      <4> QED BY <1>5, <2>1
    <3>2. R(j + 1) = Append(R(j), 0) /\ Len(R(j)) + 1 + 0 <= MaxCache
      <4>1. R(j + 1) = Append(R(j), 0) /\ Len(R(j)) = Len(q) + j
        BY <1>3
      <4> HIDE DEF R
      <4> QED BY <1>1, <2>1, <4>1
    <3>3. GoodPool(Append(R(j), 0)) /\ Total(Append(R(j), 0)) = Total(R(j)) + PagesOf[0]
      <4>1. 0 \in Nat
        OBVIOUS
      <4> HIDE DEF R
      <4> QED BY <3>1, <3>2, <4>1, PoolAppend
    <3>4. GoodPool(R(j + 1)) /\ Total(R(j + 1)) = Total(q) + (j + 1)
      <4> HIDE DEF R
      <4>1. GoodPool(R(j + 1)) /\ Total(R(j + 1)) = (Total(q) + j) + 1
        BY <3>1, <3>2, <3>3, PagesOfRec
      <4> QED BY <1>1, <4>1
    <3> HIDE DEF R
    <3> QED BY <3>4
  <2> QED BY <2>1
<1>6. \A j \in Nat : j \in S
  <2> HIDE DEF S
  <2> QED BY <1>4, <1>5, SetInduction
<1>7. GoodPool(R(k)) /\ Total(R(k)) = Total(q) + k
  <2>1. k \in S
    BY <1>6
  <2> HIDE DEF R
  <2> QED BY <2>1
<1> QED BY <1>7

-----------------------------------------------------------------------------
(* The memory that the operations on trees work on                          *)

IsMem(m) == DOMAIN m = {"tbl", "pool", "cnt", "buddy", "oom", "page0"}

(* What holds of the pool between two operations: its counter is right, and *)
(* unless a refill failed there is enough for the next page.                *)
PoolOK(m) ==
  /\ GoodPool(m.pool) /\ m.cnt = Total(m.pool) /\ m.cnt >= 1
  /\ m.buddy \in Nat /\ m.oom \in BOOLEAN
  /\ m.oom \/ m.cnt >= MinCache

(* the pages that are no tables                                             *)
Pages(m) == m.cnt + m.buddy + (IF m.oom THEN 1 ELSE 0)

(* A pool with a page has a frame.                                          *)
LEMMA PoolNonempty ==
  ASSUME NEW m, PoolOK(m)
  PROVE  m.cnt \in Nat /\ Len(m.pool) \in Nat /\ Len(m.pool) > 0 /\ Len(m.pool) <= MaxCache
<1>1. m.cnt \in Nat /\ Len(m.pool) \in Nat /\ (Len(m.pool) > 0 => Len(m.pool) <= MaxCache)
  BY TotalType DEF PoolOK
<1>2. Len(m.pool) # 0
  <2>1. SUFFICES ASSUME Len(m.pool) = 0 PROVE FALSE
    OBVIOUS
  <2>2. m.pool \in Seq(Nat)
    BY DEF PoolOK, GoodPool
  <2>3. Total(m.pool) = 0
    BY <2>1, <2>2, PagesBelowRec DEF Total
  <2> QED BY <2>3, <1>1 DEF PoolOK
<1> QED BY <1>1, <1>2

(* One page leaves the pool; a page is lost only when the refill fails.     *)
LEMMA TakenOK ==
  ASSUME NEW m, IsMem(m), PoolOK(m), ~m.oom, NEW n, n = Taken(m)
  PROVE  /\ IsMem(n) /\ PoolOK(n) /\ n.tbl = m.tbl
         /\ Pages(n) = Pages(m) - 1 + (IF n.oom THEN 1 ELSE 0)
<1> DEFINE L == Len(m.pool)
           r == SubSeq(m.pool, 1, L - 1) \o RightHalves(m.pool[L])
           d == [m EXCEPT !.pool = r, !.cnt = @ - 1]
<1>1. m.cnt \in Nat /\ L > 0 /\ m.cnt >= MinCache /\ m.buddy \in Nat /\ MinCache \in Nat /\ MinCache >= 2
      /\ RefillOrder \in Nat /\ MaxCache \in Nat /\ MinCache + RefillOrder <= MaxCache
  BY PoolNonempty, PageTableAssumption DEF PoolOK
<1>2. GoodPool(r) /\ Total(r) = m.cnt - 1
  BY <1>1, PoolDivide DEF PoolOK
<1> HIDE DEF r
<1>3. /\ IsMem(d) /\ d.tbl = m.tbl /\ d.pool = r /\ d.cnt = m.cnt - 1
      /\ d.buddy = m.buddy /\ d.oom = m.oom
  BY DEF IsMem
<1>4. n = Refill(d)
  BY DEF Taken, r
<1> HIDE DEF d
<1>5. PagesOf[RefillOrder] \in Nat /\ PagesOf[RefillOrder] >= 1
  BY <1>1, PagesOfPositive
<1>6. CASE d.cnt >= MinCache
  <2>1. n = d
    BY <1>4, <1>6 DEF Refill
  <2>2. PoolOK(d)
    BY <1>1, <1>2, <1>3, <1>6 DEF PoolOK
  <2>3. Pages(d) = Pages(m) - 1
    BY <1>1, <1>3 DEF Pages
  <2>4. ~n.oom /\ Pages(n) = Pages(m) - 1 /\ Pages(m) \in Nat
    BY <2>1, <2>3, <1>1, <1>3 DEF Pages
  <2> QED BY <2>1, <2>2, <2>4, <1>3
<1>7. CASE ~(d.cnt >= MinCache) /\ d.buddy < PagesOf[RefillOrder]
  <2>1. n = [d EXCEPT !.oom = TRUE]
    BY <1>4, <1>7 DEF Refill
  <2>2. /\ IsMem(n) /\ n.tbl = m.tbl /\ n.pool = r /\ n.cnt = m.cnt - 1
        /\ n.buddy = m.buddy /\ n.oom = TRUE
    BY <2>1, <1>3 DEF IsMem
  <2>3. PoolOK(n)
    <3>1. n.cnt = Total(n.pool) /\ n.cnt >= 1 /\ n.buddy \in Nat /\ GoodPool(n.pool)
      BY <2>2, <1>1, <1>2
    <3>2. n.oom /\ n.oom \in BOOLEAN
      BY <2>2
    <3> QED BY <3>1, <3>2 DEF PoolOK
  <2>4. Pages(n) = Pages(m)
    BY <2>2, <1>1 DEF Pages
  <2>5. Pages(m) = m.cnt + m.buddy
    BY <1>1 DEF Pages
  <2> QED BY <2>2, <2>3, <2>4, <2>5, <1>1
<1>8. CASE ~(d.cnt >= MinCache) /\ ~(d.buddy < PagesOf[RefillOrder])
  <2>1. n = [d EXCEPT !.pool = Append(@, RefillOrder), !.cnt = @ + PagesOf[RefillOrder],
                      !.buddy = @ - PagesOf[RefillOrder]]
    BY <1>4, <1>8 DEF Refill
  <2>2. /\ IsMem(n) /\ n.tbl = m.tbl /\ n.pool = Append(r, RefillOrder)
        /\ n.cnt = (m.cnt - 1) + PagesOf[RefillOrder]
        /\ n.buddy = m.buddy - PagesOf[RefillOrder] /\ n.oom = m.oom
    BY <2>1, <1>3 DEF IsMem
  <2>3. m.cnt - 1 < MinCache /\ m.buddy - PagesOf[RefillOrder] \in Nat
    BY <1>1, <1>3, <1>5, <1>8
  <2>4. Len(r) \in Nat /\ Len(r) <= m.cnt - 1
    BY <1>2, TotalType
  <2>5. Len(r) + 1 + RefillOrder <= MaxCache
    BY <2>3, <2>4, <1>1
  <2>6. GoodPool(Append(r, RefillOrder)) /\ Total(Append(r, RefillOrder)) = (m.cnt - 1) + PagesOf[RefillOrder]
    BY <1>1, <1>2, <2>5, PoolAppend
  <2>8. PoolOK(n)
    BY <2>2, <2>3, <2>6, <1>1, <1>5 DEF PoolOK
  <2>9. Pages(n) = Pages(m) - 1 + (IF n.oom THEN 1 ELSE 0)
    BY <2>2, <1>1, <1>5 DEF Pages
  <2> QED BY <2>2, <2>8, <2>9
<1> QED BY <1>6, <1>7, <1>8

(* The pages of the tables that are freed are all in the pool or the buddy  *)
(* allocator.                                                               *)
LEMMA FreeTablesOK ==
  ASSUME NEW m, IsMem(m), PoolOK(m), NEW U, IsFiniteSet(U), NEW n, n = FreeTables(m, U)
  PROVE  /\ IsMem(n) /\ PoolOK(n) /\ n.oom = m.oom
         /\ n.tbl = [t \in DOMAIN m.tbl \ U |-> m.tbl[t]]
         /\ Pages(n) = Pages(m) + Cardinality(U)
<1> DEFINE c == Cardinality(U)
           room == MaxCache - Len(m.pool)
           k == IF c <= room THEN c ELSE room
           z == m.pool \o [i \in 1..k |-> 0]
<1>1. c \in Nat
  BY FS_CardinalityType
<1>2. MaxCache \in Nat /\ m.cnt \in Nat /\ Len(m.pool) \in Nat /\ Len(m.pool) <= MaxCache
      /\ m.buddy \in Nat /\ MinCache \in Nat
  BY PoolNonempty, PageTableAssumption DEF PoolOK
<1>3. k \in Nat /\ Len(m.pool) + k <= MaxCache /\ c - k \in Nat
  BY <1>1, <1>2
<1>4. /\ IsMem(n) /\ n.tbl = [t \in DOMAIN m.tbl \ U |-> m.tbl[t]] /\ n.pool = z
      /\ n.cnt = m.cnt + k /\ n.buddy = m.buddy + (c - k) /\ n.oom = m.oom
  <2>1. n = [m EXCEPT !.tbl = [t \in DOMAIN @ \ U |-> @[t]],
                      !.pool = @ \o [i \in 1..k |-> 0], !.cnt = @ + k, !.buddy = @ + c - k]
    BY DEF FreeTables
  <2> DEFINE T == [t \in DOMAIN m.tbl \ U |-> m.tbl[t]]
             N == m.cnt + k
             B == m.buddy + (c - k)
  <2>2. n = [m EXCEPT !.tbl = T, !.pool = z, !.cnt = N, !.buddy = B]
    BY <2>1
  <2> HIDE DEF c, k, z, T, N, B
  <2>3. IsMem(n) /\ n.tbl = T /\ n.pool = z /\ n.cnt = N /\ n.buddy = B /\ n.oom = m.oom
    BY <2>2 DEF IsMem
  <2> QED BY <2>3, Zenon DEF T, N, B
<1> HIDE DEF c, k
<1>5. GoodPool(z) /\ Total(z) = m.cnt + k
  BY <1>3, PoolZeros DEF PoolOK
<1> HIDE DEF z
<1>7. PoolOK(n)
  <2>1. m.buddy + (c - k) \in Nat
    BY <1>1, <1>2, <1>3
  <2> QED BY <1>2, <1>3, <1>4, <1>5, <2>1 DEF PoolOK
<1>8. Pages(n) = Pages(m) + c
  BY <1>1, <1>2, <1>3, <1>4 DEF Pages
<1> QED BY <1>4, <1>7, <1>8 DEF c

-----------------------------------------------------------------------------
(* Names of tables                                                          *)

Names == {t \in Seq(Nat) : Len(t) \in 1..4 /\ t[1] \in Spaces}

(* Spaces are numbers, and the kernel is no task.                           *)
LEMMA SpacesNat == Spaces \subseteq Nat /\ Kernel \in Spaces /\ Kernel \notin Tasks
  BY PageTableAssumption DEF Spaces, Kernel

(* The slots and their parts                                                *)
LEMMA SlotsNat == Slots \subseteq Nat /\ Idx \subseteq Slots /\ Low \subseteq Slots /\ Upper \subseteq Slots
                  /\ Top \in Upper /\ Low \cap Upper = {}
  BY DEF Slots, Idx, Low, Upper, Top

(* The name of a root tells its space.                                      *)
LEMMA RootName ==
  ASSUME NEW s \in Spaces
  PROVE  Root(s) \in Names /\ Len(Root(s)) = 1 /\ Root(s)[1] = s
<1>1. s \in Nat
  BY SpacesNat
<1> QED BY <1>1 DEF Root, Names

(* A name of one element is that of a root.                                 *)
LEMMA OneName ==
  ASSUME NEW t \in Names, Len(t) = 1
  PROVE  t = Root(t[1]) /\ t[1] \in Spaces
<1>1. t \in Seq(Nat) /\ t[1] \in Spaces
  BY DEF Names
<1>2. Root(t[1]) \in Seq(Nat) /\ Len(Root(t[1])) = 1 /\ Root(t[1])[1] = t[1]
  BY <1>1, RootName DEF Names
<1> QED BY <1>1, <1>2, SeqEqual

(* The name of a table below t                                              *)
LEMMA ChildName ==
  ASSUME NEW t \in Names, Len(t) < 4, NEW i \in Slots
  PROVE  /\ Append(t, i) \in Names /\ Len(Append(t, i)) = Len(t) + 1
         /\ Append(t, i)[1] = t[1] /\ Append(t, i) # t
<1>1. t \in Seq(Nat) /\ t[1] \in Spaces /\ Len(t) \in 1..4 /\ i \in Nat
  BY SlotsNat DEF Names
<1>2. /\ Append(t, i) \in Seq(Nat) /\ Len(Append(t, i)) = Len(t) + 1
      /\ Append(t, i)[1] = t[1]
  BY <1>1, AppendIs
<1>3. Len(Append(t, i)) \in 1..4 /\ Append(t, i) # t
  BY <1>1, <1>2
<1> QED BY <1>1, <1>2, <1>3 DEF Names

(* A table is named by one table above it and one slot.                     *)
LEMMA ChildOnce ==
  ASSUME NEW t \in Names, NEW u \in Names, NEW i \in Slots, NEW j \in Slots,
         Append(t, i) = Append(u, j)
  PROVE  t = u /\ i = j
<1>1. t \in Seq(Nat) /\ u \in Seq(Nat) /\ i \in Nat /\ j \in Nat
  BY SlotsNat DEF Names
<1>2. /\ Len(t) \in Nat /\ Len(u) \in Nat /\ Len(t) + 1 = Len(u) + 1
      /\ \A n \in 1..Len(t) : Append(t, i)[n] = t[n]
      /\ \A n \in 1..Len(u) : Append(u, j)[n] = u[n]
      /\ Append(t, i)[Len(t) + 1] = i /\ Append(u, j)[Len(u) + 1] = j
  BY <1>1, AppendIs, ZenonT(30)
<1>3. Len(t) = Len(u) /\ \A n \in 1..Len(t) : t[n] = u[n]
  BY <1>2
<1>4. t = u
  BY <1>1, <1>3, SeqEqual
<1> QED BY <1>2, <1>3, <1>4

(* What an entry that leads to no table holds is no name of a table.        *)
LEMMA NoName ==
  /\ Ends \cap Names = {} /\ Spin \notin Names
  /\ Zero \notin {Nil, Big, Spin} /\ Spin \notin Ends /\ Big # Nil
<1>1. Len(Nil) = 0 /\ Len(Big) = 1 /\ Len(Zero) = 1 /\ Len(Spin) = 1
  BY DEF Nil, Big, Zero, Spin
<1>2. Big[1] = -1 /\ Zero[1] = -2 /\ Spin[1] = -3
  BY DEF Big, Zero, Spin
<1>3. -1 \notin Spaces /\ -2 \notin Spaces /\ -3 \notin Spaces
  BY SpacesNat
<1>4. Nil \notin Names
  BY <1>1 DEF Names
<1>5. Big \notin Names /\ Zero \notin Names /\ Spin \notin Names
  BY <1>2, <1>3 DEF Names
<1>6. Zero \notin {Nil, Big, Spin} /\ Spin \notin Ends /\ Big # Nil
  BY <1>1, <1>2
<1> QED BY <1>4, <1>5, <1>6

-----------------------------------------------------------------------------
(* Trees                                                                    *)

(* The slots of a root that lead to tables of its own space                 *)
OwnSlots(s) == IF s = Kernel THEN Upper \ {Top} ELSE Low

(* Every table has a name and entries; the kernel has a root.               *)
Shape(T) ==
  /\ DOMAIN T \subseteq Names /\ IsFiniteSet(DOMAIN T) /\ Root(Kernel) \in DOMAIN T
  /\ T \in [DOMAIN T -> [Slots -> Ends \cup DOMAIN T \cup Phys]]

(* The entries of a root: to tables of its own, and in a task's as in the   *)
(* kernel's.                                                                *)
RootEntries(T) ==
  \A s \in Spaces : Root(s) \in DOMAIN T => \A i \in Slots :
    /\ i \in OwnSlots(s) => T[Root(s)][i] \in {Nil, Zero} \cup ({Append(Root(s), i)} \cap DOMAIN T)
    /\ i \notin OwnSlots(s) /\ i \in OwnSlots(Kernel) => T[Root(s)][i] \in {Nil, T[Root(Kernel)][i]}
    /\ i \notin OwnSlots(s) /\ i \notin OwnSlots(Kernel) => T[Root(s)][i] = Nil

(* The entries of the tables between, and of the last                       *)
InnerEntries(T) ==
  \A t \in DOMAIN T : Len(t) \in {2, 3} => \A i \in Slots :
    T[t][i] \in Ends \cup ({Append(t, i)} \cap DOMAIN T)
LastEntries(T) ==
  \A t \in DOMAIN T : Len(t) = 4 => \A i \in Slots : T[t][i] \in Phys \cup {Nil}

(* The entry of table u that leads to table t                               *)
Leads(T, u, i, t) ==
  /\ u \in DOMAIN T /\ i \in Slots /\ Len(u) < 4 /\ t = Append(u, i) /\ T[u][i] = t
  /\ Len(u) = 1 => i \in OwnSlots(u[1])
Parents(T) == \A t \in DOMAIN T : Len(t) = 1 \/ \E u \in DOMAIN T : \E i \in Slots : Leads(T, u, i, t)

TreesOK(T) == Shape(T) /\ RootEntries(T) /\ InnerEntries(T) /\ LastEntries(T) /\ Parents(T)

(* A new table t, empty, below table u.                                     *)
Linked(T, u, i) == [WithTable(T, Append(u, i), Empty) EXCEPT ![u][i] = Append(u, i)]

(* N is T with an empty table below table u, under its free entry i.         *)
LinkFacts(T, u, i, c, N) ==
  /\ c \notin DOMAIN T /\ c \in Names /\ Len(c) = Len(u) + 1 /\ c[1] = u[1]
  /\ DOMAIN N = DOMAIN T \cup {c}
  /\ N \in [DOMAIN N -> [Slots -> Ends \cup DOMAIN N \cup Phys]]
  /\ \A j \in Slots : N[c][j] = Nil
  /\ \A t \in DOMAIN T : \A j \in Slots : N[t][j] = IF t = u /\ j = i THEN c ELSE T[t][j]

(* A new table is put under a free entry: nothing else changes.             *)
LEMMA LinkedIs ==
  ASSUME NEW T, TreesOK(T), NEW u \in DOMAIN T, Len(u) < 4, NEW i \in Slots, T[u][i] = Nil
  PROVE  LinkFacts(T, u, i, Append(u, i), Linked(T, u, i))
<1> DEFINE c == Append(u, i)
           N == Linked(T, u, i)
<1>1. u \in Names /\ DOMAIN T \subseteq Names
  BY DEF TreesOK, Shape
<1>2. c \in Names /\ Len(c) = Len(u) + 1 /\ c[1] = u[1] /\ c # u
  BY <1>1, ChildName
<1>3. c \notin DOMAIN T
  <2>1. SUFFICES ASSUME c \in DOMAIN T PROVE FALSE
    OBVIOUS
  <2>2. Len(c) # 1
    BY <1>1, <1>2 DEF Names
  <2>3. PICK v \in DOMAIN T : \E j \in Slots : Leads(T, v, j, c)
    BY <2>1, <2>2 DEF TreesOK, Parents
  <2>4. PICK j \in Slots : Leads(T, v, j, c)
    BY <2>3
  <2>5. v = u /\ j = i
    <3>1. v \in Names /\ Append(u, i) = Append(v, j)
      BY <1>1, <2>4 DEF Leads
    <3> QED BY <1>1, <3>1, ChildOnce
  <2>6. c = Nil
    BY <2>4, <2>5 DEF Leads
  <2> QED BY <2>6, <1>2, NoName
<1>4. DOMAIN N = DOMAIN T \cup {c}
  BY DEF Linked, WithTable
<1>5. N[c] = Empty
  BY <1>2 DEF Linked, WithTable
<1>6. \A t \in DOMAIN T : t # u => N[t] = T[t]
  BY <1>3 DEF Linked, WithTable
<1>7. N[u] = [T[u] EXCEPT ![i] = c]
  BY <1>2 DEF Linked, WithTable
<1>8. N = [t \in DOMAIN N |-> N[t]]
  BY DEF Linked, WithTable
<1>9. Empty \in [Slots -> {Nil}] /\ \A j \in Slots : Empty[j] = Nil
  BY DEF Empty
<1>10. \A t \in DOMAIN T : T[t] \in [Slots -> Ends \cup DOMAIN T \cup Phys]
  BY DEF TreesOK, Shape
<1>11. ASSUME NEW t \in DOMAIN N PROVE N[t] \in [Slots -> Ends \cup DOMAIN N \cup Phys]
  <2>1. CASE t = c
    BY <2>1, <1>5, <1>9
  <2>2. CASE t = u
    BY <2>2, <1>4, <1>7, <1>10
  <2>3. CASE t # c /\ t # u
    BY <2>3, <1>4, <1>6, <1>10
  <2> QED BY <2>1, <2>2, <2>3
<1>12. N \in [DOMAIN N -> [Slots -> Ends \cup DOMAIN N \cup Phys]]
  BY <1>8, <1>11
<1>13. \A t \in DOMAIN T : \A j \in Slots : N[t][j] = IF t = u /\ j = i THEN c ELSE T[t][j]
  BY <1>6, <1>7, <1>10
<1> HIDE DEF c, N
<1>14. LinkFacts(T, u, i, c, N)
  BY <1>2, <1>3, <1>4, <1>5, <1>9, <1>12, <1>13 DEF LinkFacts
<1> QED BY <1>14 DEF c, N

(* The trees stay sound when an empty table is put under a free entry.      *)
LEMMA LinkTrees ==
  ASSUME NEW T, TreesOK(T), NEW u \in DOMAIN T, Len(u) < 4, NEW i \in Slots, T[u][i] = Nil,
         Len(u) = 1 => i \in OwnSlots(u[1])
  PROVE  TreesOK(Linked(T, u, i))
<1> DEFINE c == Append(u, i)
           N == Linked(T, u, i)
<1>0. LinkFacts(T, u, i, c, N)
  BY LinkedIs
<1>2. c = Append(u, i)
  OBVIOUS
<1> HIDE DEF c, N
<1>1. /\ c \notin DOMAIN T /\ c \in Names /\ Len(c) = Len(u) + 1 /\ c[1] = u[1]
      /\ DOMAIN N = DOMAIN T \cup {c}
      /\ N \in [DOMAIN N -> [Slots -> Ends \cup DOMAIN N \cup Phys]]
      /\ \A j \in Slots : N[c][j] = Nil
  BY <1>0 DEF LinkFacts
<1>3. DOMAIN T \subseteq Names /\ IsFiniteSet(DOMAIN T) /\ Root(Kernel) \in DOMAIN T
  BY DEF TreesOK, Shape
<1>4. \A t \in DOMAIN T : \A j \in Slots : N[t][j] = IF t = u /\ j = i THEN c ELSE T[t][j]
  BY <1>0 DEF LinkFacts
<1>6. Shape(N)
  <2>1. DOMAIN N \subseteq Names /\ Root(Kernel) \in DOMAIN N
    BY <1>1, <1>3
  <2>2. IsFiniteSet(DOMAIN T \cup {c})
    BY <1>3, FS_AddElement
  <2> QED BY <1>1, <2>1, <2>2 DEF Shape
<1>7. RootEntries(N)
  <2>1. SUFFICES ASSUME NEW s \in Spaces, Root(s) \in DOMAIN N, NEW j \in Slots
        PROVE  /\ j \in OwnSlots(s) => N[Root(s)][j] \in {Nil, Zero} \cup ({Append(Root(s), j)} \cap DOMAIN N)
               /\ j \notin OwnSlots(s) /\ j \in OwnSlots(Kernel) => N[Root(s)][j] \in {Nil, N[Root(Kernel)][j]}
               /\ j \notin OwnSlots(s) /\ j \notin OwnSlots(Kernel) => N[Root(s)][j] = Nil
    BY DEF RootEntries
  <2>2. Len(u) \in 1..4 /\ Root(s) # c
    BY <1>1, <1>3, RootName DEF Names
  <2>3. Root(s) \in DOMAIN T
    BY <1>1, <2>1, <2>2
  <2>4. /\ j \in OwnSlots(s) => T[Root(s)][j] \in {Nil, Zero} \cup ({Append(Root(s), j)} \cap DOMAIN T)
        /\ j \notin OwnSlots(s) /\ j \in OwnSlots(Kernel) => T[Root(s)][j] \in {Nil, T[Root(Kernel)][j]}
        /\ j \notin OwnSlots(s) /\ j \notin OwnSlots(Kernel) => T[Root(s)][j] = Nil
    BY <2>3 DEF TreesOK, RootEntries
  <2>5. CASE u = Root(s) /\ j = i
    <3>1. j \in OwnSlots(s)
      BY <2>5, RootName
    <3>2. N[Root(s)][j] = c /\ c = Append(Root(s), j)
      BY <2>3, <2>5, <1>4, <1>2
    <3> QED BY <3>1, <3>2, <1>1
  <2>6. CASE ~(u = Root(s) /\ j = i)
    <3>1. N[Root(s)][j] = T[Root(s)][j]
      BY <2>3, <2>6, <1>4
    <3>2. N[Root(Kernel)][j] = T[Root(Kernel)][j] \/ T[Root(Kernel)][j] = Nil
      BY <1>3, <1>4
    <3> QED BY <3>1, <3>2, <2>4, <1>1
  <2> QED BY <2>5, <2>6
<1>8. InnerEntries(N)
  <2>1. SUFFICES ASSUME NEW t \in DOMAIN N, Len(t) \in {2, 3}, NEW j \in Slots
        PROVE  N[t][j] \in Ends \cup ({Append(t, j)} \cap DOMAIN N)
    BY DEF InnerEntries
  <2>2. CASE t = c
    BY <2>2, <1>1
  <2>3. CASE t = u /\ j = i
    BY <2>3, <1>1, <1>2, <1>4
  <2>4. CASE t # c /\ ~(t = u /\ j = i)
    <3>1. t \in DOMAIN T /\ N[t][j] = T[t][j]
      BY <2>4, <1>1, <1>4
    <3>2. T[t][j] \in Ends \cup ({Append(t, j)} \cap DOMAIN T)
      BY <3>1, <2>1 DEF TreesOK, InnerEntries
    <3> QED BY <3>1, <3>2, <1>1
  <2> QED BY <2>2, <2>3, <2>4
<1>9. LastEntries(N)
  <2>1. SUFFICES ASSUME NEW t \in DOMAIN N, Len(t) = 4, NEW j \in Slots
        PROVE  N[t][j] \in Phys \cup {Nil}
    BY DEF LastEntries
  <2>2. CASE t = c
    BY <2>2, <1>1
  <2>3. CASE t # c
    <3>1. t \in DOMAIN T /\ t # u
      BY <2>1, <2>3, <1>1, <1>3 DEF Names
    <3>2. N[t][j] = T[t][j]
      BY <3>1, <1>4
    <3> QED BY <3>1, <3>2, <2>1 DEF TreesOK, LastEntries
  <2> QED BY <2>2, <2>3
<1>10. Parents(N)
  <2>1. SUFFICES ASSUME NEW t \in DOMAIN N, Len(t) # 1
        PROVE  \E v \in DOMAIN N : \E j \in Slots : Leads(N, v, j, t)
    BY DEF Parents
  <2>2. CASE t = c
    <3>1. u \in DOMAIN N /\ N[u][i] = c
      BY <1>1, <1>4
    <3>2. Leads(N, u, i, t)
      BY <3>1, <2>2, <1>2 DEF Leads
    <3> QED BY <3>1, <3>2
  <2>3. CASE t # c
    <3>1. PICK v \in DOMAIN T : \E j \in Slots : Leads(T, v, j, t)
      BY <2>1, <2>3, <1>1 DEF TreesOK, Parents
    <3>2. PICK j \in Slots : Leads(T, v, j, t)
      BY <3>1
    <3>3. ~(v = u /\ j = i)
      BY <3>2, <2>3, <1>2 DEF Leads
    <3>4. N[v][j] = T[v][j] /\ v \in DOMAIN N
      BY <3>3, <1>1, <1>4
    <3>5. Leads(N, v, j, t)
      BY <3>2, <3>4 DEF Leads
    <3> QED BY <3>4, <3>5
  <2> QED BY <2>2, <2>3
<1>11. TreesOK(N)
  BY <1>6, <1>7, <1>8, <1>9, <1>10 DEF TreesOK
<1> QED BY <1>11 DEF N

(* An entry of a last table is written.                                     *)
Written(T, u, i, p, N) ==
  /\ TreesOK(N) /\ DOMAIN N = DOMAIN T
  /\ \A t \in DOMAIN T : \A j \in Slots : N[t][j] = IF t = u /\ j = i THEN p ELSE T[t][j]

(* The trees stay sound when an entry of a last table is written.           *)
LEMMA WriteTrees ==
  ASSUME NEW T, TreesOK(T), NEW u \in DOMAIN T, Len(u) = 4, NEW i \in Slots, NEW p \in Phys \cup {Nil}
  PROVE  Written(T, u, i, p, [T EXCEPT ![u][i] = p])
<1> DEFINE N == [T EXCEPT ![u][i] = p]
<1>1. /\ DOMAIN T \subseteq Names /\ IsFiniteSet(DOMAIN T) /\ Root(Kernel) \in DOMAIN T
      /\ T \in [DOMAIN T -> [Slots -> Ends \cup DOMAIN T \cup Phys]]
  BY DEF TreesOK, Shape
<1>2. DOMAIN N = DOMAIN T /\ N \in [DOMAIN T -> [Slots -> Ends \cup DOMAIN T \cup Phys]]
  BY <1>1
<1>3. \A t \in DOMAIN T : \A j \in Slots : N[t][j] = IF t = u /\ j = i THEN p ELSE T[t][j]
  BY <1>1
<1> HIDE DEF N
<1>4. Shape(N)
  BY <1>1, <1>2 DEF Shape
<1>5. \A s \in Spaces : Root(s) # u
  BY RootName
<1>6. RootEntries(N)
  <2>1. \A s \in Spaces : Root(s) \in DOMAIN T => \A j \in Slots : N[Root(s)][j] = T[Root(s)][j]
    BY <1>3, <1>5
  <2>2. \A j \in Slots : N[Root(Kernel)][j] = T[Root(Kernel)][j]
    BY <1>1, <2>1, SpacesNat
  <2> QED BY <1>2, <2>1, <2>2 DEF TreesOK, RootEntries
<1>7. InnerEntries(N)
  <2>1. \A t \in DOMAIN T : Len(t) \in {2, 3} => \A j \in Slots : N[t][j] = T[t][j]
    BY <1>3
  <2> QED BY <1>2, <2>1 DEF TreesOK, InnerEntries
<1>8. LastEntries(N)
  BY <1>2, <1>3 DEF TreesOK, LastEntries
<1>9. Parents(N)
  <2>1. ASSUME NEW t, NEW v \in DOMAIN T, NEW j \in Slots, Leads(T, v, j, t) PROVE Leads(N, v, j, t)
    <3>1. v # u
      <4>1. Len(v) < 4
        BY <2>1 DEF Leads
      <4>2. Len(u) = 4 /\ ~(4 < 4)
        OBVIOUS
      <4> QED BY <4>1, <4>2, Zenon
    <3>2. N[v][j] = T[v][j]
      BY <3>1, <1>3
    <3> QED BY <3>2, <2>1, <1>2 DEF Leads
  <2> QED BY <2>1, <1>2 DEF TreesOK, Parents
<1>10. TreesOK(N)
  BY <1>4, <1>6, <1>7, <1>8, <1>9 DEF TreesOK
<1>11. Written(T, u, i, p, N)
  BY <1>2, <1>3, <1>10 DEF Written
<1> QED BY <1>11 DEF N

(* The trees stay sound when page 0 is put under a free entry.              *)
LEMMA ZeroTrees ==
  ASSUME NEW T, TreesOK(T), NEW u \in DOMAIN T, Len(u) < 4, NEW i \in Slots, T[u][i] = Nil,
         Len(u) = 1 => i \in OwnSlots(u[1])
  PROVE  TreesOK([T EXCEPT ![u][i] = Zero]) /\ DOMAIN [T EXCEPT ![u][i] = Zero] = DOMAIN T
<1> DEFINE N == [T EXCEPT ![u][i] = Zero]
<1>1. /\ DOMAIN T \subseteq Names /\ IsFiniteSet(DOMAIN T) /\ Root(Kernel) \in DOMAIN T
      /\ T \in [DOMAIN T -> [Slots -> Ends \cup DOMAIN T \cup Phys]]
  BY DEF TreesOK, Shape
<1>2. DOMAIN N = DOMAIN T /\ N \in [DOMAIN T -> [Slots -> Ends \cup DOMAIN T \cup Phys]]
  BY <1>1
<1>3. \A t \in DOMAIN T : \A j \in Slots : N[t][j] = IF t = u /\ j = i THEN Zero ELSE T[t][j]
  BY <1>1
<1> HIDE DEF N
<1>4. Shape(N)
  BY <1>1, <1>2 DEF Shape
<1>5. RootEntries(N)
  <2>1. SUFFICES ASSUME NEW s \in Spaces, Root(s) \in DOMAIN N, NEW j \in Slots
        PROVE  /\ j \in OwnSlots(s) => N[Root(s)][j] \in {Nil, Zero} \cup ({Append(Root(s), j)} \cap DOMAIN N)
               /\ j \notin OwnSlots(s) /\ j \in OwnSlots(Kernel) => N[Root(s)][j] \in {Nil, N[Root(Kernel)][j]}
               /\ j \notin OwnSlots(s) /\ j \notin OwnSlots(Kernel) => N[Root(s)][j] = Nil
    BY DEF RootEntries
  <2>2. /\ j \in OwnSlots(s) => T[Root(s)][j] \in {Nil, Zero} \cup ({Append(Root(s), j)} \cap DOMAIN T)
        /\ j \notin OwnSlots(s) /\ j \in OwnSlots(Kernel) => T[Root(s)][j] \in {Nil, T[Root(Kernel)][j]}
        /\ j \notin OwnSlots(s) /\ j \notin OwnSlots(Kernel) => T[Root(s)][j] = Nil
    BY <1>2, <2>1 DEF TreesOK, RootEntries
  <2>3. CASE u = Root(s) /\ j = i
    <3>1. j \in OwnSlots(s)
      BY <2>3, RootName
    <3>2. N[Root(s)][j] = Zero
      BY <2>3, <1>3
    <3> QED BY <3>1, <3>2
  <2>4. CASE ~(u = Root(s) /\ j = i)
    <3>1. N[Root(s)][j] = T[Root(s)][j]
      BY <1>2, <2>1, <2>4, <1>3
    <3>2. N[Root(Kernel)][j] = T[Root(Kernel)][j] \/ T[Root(Kernel)][j] = Nil
      BY <1>1, <1>3
    <3> QED BY <3>1, <3>2, <2>2, <1>2
  <2> QED BY <2>3, <2>4
<1>6. InnerEntries(N)
  <2>1. SUFFICES ASSUME NEW t \in DOMAIN N, Len(t) \in {2, 3}, NEW j \in Slots
        PROVE  N[t][j] \in Ends \cup ({Append(t, j)} \cap DOMAIN N)
    BY DEF InnerEntries
  <2>2. T[t][j] \in Ends \cup ({Append(t, j)} \cap DOMAIN T)
    BY <1>2, <2>1 DEF TreesOK, InnerEntries
  <2> QED BY <1>2, <1>3, <2>2
<1>7. LastEntries(N)
  <2>1. SUFFICES ASSUME NEW t \in DOMAIN N, Len(t) = 4, NEW j \in Slots
        PROVE  N[t][j] \in Phys \cup {Nil}
    BY DEF LastEntries
  <2>2. t \in DOMAIN T /\ t # u
    <3>1. ~(4 < 4)
      OBVIOUS
    <3> QED BY <1>2, <2>1, <3>1, Zenon
  <2>3. N[t][j] = T[t][j]
    BY <2>2, <1>3
  <2> QED BY <2>1, <2>2, <2>3 DEF TreesOK, LastEntries
<1>8. Parents(N)
  <2>1. ASSUME NEW t \in DOMAIN T, NEW v \in DOMAIN T, NEW j \in Slots, Leads(T, v, j, t) PROVE Leads(N, v, j, t)
    <3>1. T[v][j] = t /\ t # Nil
      BY <1>1, <2>1, NoName DEF Leads
    <3>2. N[v][j] = T[v][j]
      BY <3>1, <1>3
    <3> QED BY <3>2, <2>1, <1>2 DEF Leads
  <2> QED BY <2>1, <1>2 DEF TreesOK, Parents
<1>9. TreesOK(N)
  BY <1>4, <1>5, <1>6, <1>7, <1>8 DEF TreesOK
<1> QED BY <1>2, <1>9 DEF N

(* What of the trees stays sound whatever is done with roots: N has tables  *)
(* of T, and the others are roots.                                          *)
LEMMA RootsChange ==
  ASSUME NEW T, TreesOK(T), NEW N, Shape(N), RootEntries(N),
         \A t \in DOMAIN N : Len(t) # 1 => t \in DOMAIN T /\ \A j \in Slots : N[t][j] = T[t][j],
         \A t \in DOMAIN N : Len(t) \in {2, 3} => \A j \in Slots :
            T[t][j] \in Ends \cup DOMAIN N,
         \A t \in DOMAIN N, u \in DOMAIN T : \A i \in Slots : Len(t) # 1 /\ Leads(T, u, i, t) => Leads(N, u, i, t)
  PROVE  TreesOK(N)
<1>1. InnerEntries(N)
  <2>1. SUFFICES ASSUME NEW t \in DOMAIN N, Len(t) \in {2, 3}, NEW j \in Slots
        PROVE  N[t][j] \in Ends \cup ({Append(t, j)} \cap DOMAIN N)
    BY DEF InnerEntries
  <2>2. Len(t) # 1 /\ t \in DOMAIN T /\ N[t][j] = T[t][j]
    BY <2>1
  <2>3. T[t][j] \in Ends \cup ({Append(t, j)} \cap DOMAIN T)
    BY <2>1, <2>2 DEF TreesOK, InnerEntries
  <2> QED BY <2>1, <2>2, <2>3
<1>2. LastEntries(N)
  <2>1. SUFFICES ASSUME NEW t \in DOMAIN N, Len(t) = 4, NEW j \in Slots
        PROVE  N[t][j] \in Phys \cup {Nil}
    BY DEF LastEntries
  <2>2. Len(t) # 1 /\ t \in DOMAIN T /\ N[t][j] = T[t][j]
    BY <2>1
  <2> QED BY <2>1, <2>2 DEF TreesOK, LastEntries
<1>3. Parents(N)
  <2>1. SUFFICES ASSUME NEW t \in DOMAIN N, Len(t) # 1
        PROVE  \E v \in DOMAIN N : \E j \in Slots : Leads(N, v, j, t)
    BY DEF Parents
  <2>2. PICK u \in DOMAIN T : \E i \in Slots : Leads(T, u, i, t)
    BY <2>1 DEF TreesOK, Parents
  <2>3. PICK i \in Slots : Leads(T, u, i, t)
    BY <2>2
  <2>4. Leads(N, u, i, t)
    BY <2>1, <2>3
  <2> QED BY <2>4 DEF Leads
<1> QED BY <1>1, <1>2, <1>3 DEF TreesOK

(* What a root of a task may have at each slot                              *)
LEMMA RootIs ==
  ASSUME NEW T, TreesOK(T), NEW s \in Spaces, Root(s) \in DOMAIN T, NEW i \in Slots
  PROVE  /\ i \in OwnSlots(s) => T[Root(s)][i] \in {Nil, Zero} \cup ({Append(Root(s), i)} \cap DOMAIN T)
         /\ i \notin OwnSlots(s) /\ i \in OwnSlots(Kernel) => T[Root(s)][i] \in {Nil, T[Root(Kernel)][i]}
         /\ i \notin OwnSlots(s) /\ i \notin OwnSlots(Kernel) => T[Root(s)][i] = Nil
  BY DEF TreesOK, RootEntries

(* No slot is both a task's own and the kernel's.                           *)
LEMMA OwnSlotsAre ==
  /\ OwnSlots(Kernel) = Upper \ {Top} /\ OwnSlots(Kernel) \subseteq Slots
  /\ \A s \in Tasks : s \in Spaces /\ OwnSlots(s) = Low /\ OwnSlots(s) \cap OwnSlots(Kernel) = {}
<1>1. OwnSlots(Kernel) = Upper \ {Top} /\ OwnSlots(Kernel) \subseteq Slots
  BY SlotsNat DEF OwnSlots
<1>2. ASSUME NEW s \in Tasks
      PROVE  s \in Spaces /\ OwnSlots(s) = Low /\ OwnSlots(s) \cap OwnSlots(Kernel) = {}
  <2>1. s # Kernel /\ s \in Spaces
    BY SpacesNat DEF Spaces
  <2> QED BY <2>1, <1>1, SlotsNat DEF OwnSlots
<1> QED BY <1>1, <1>2

(* A task's root is made: a copy of the kernel's.                           *)
LEMMA NewRoot ==
  ASSUME NEW T, TreesOK(T), NEW s \in Tasks, Root(s) \notin DOMAIN T, NEW N,
         DOMAIN N = DOMAIN T \cup {Root(s)}, N = [t \in DOMAIN N |-> N[t]],
         N[Root(s)] = T[Root(Kernel)], \A t \in DOMAIN T : N[t] = T[t]
  PROVE  TreesOK(N)
<1>1. /\ DOMAIN T \subseteq Names /\ IsFiniteSet(DOMAIN T) /\ Root(Kernel) \in DOMAIN T
      /\ T \in [DOMAIN T -> [Slots -> Ends \cup DOMAIN T \cup Phys]]
  BY DEF TreesOK, Shape
<1>2. s \in Spaces /\ Kernel \in Spaces /\ Root(s) \in Names /\ Len(Root(s)) = 1
  BY OwnSlotsAre, SpacesNat, RootName
<1>3. Shape(N)
  <2>1. IsFiniteSet(DOMAIN T \cup {Root(s)})
    BY <1>1, FS_AddElement
  <2>2. \A t \in DOMAIN N : N[t] \in [Slots -> Ends \cup DOMAIN N \cup Phys]
    BY <1>1
  <2>3. N \in [DOMAIN N -> [Slots -> Ends \cup DOMAIN N \cup Phys]]
    BY <2>2
  <2> QED BY <1>1, <1>2, <2>1, <2>3 DEF Shape
<1>4. RootEntries(N)
  <2>1. SUFFICES ASSUME NEW u \in Spaces, Root(u) \in DOMAIN N, NEW j \in Slots
        PROVE  /\ j \in OwnSlots(u) => N[Root(u)][j] \in {Nil, Zero} \cup ({Append(Root(u), j)} \cap DOMAIN N)
               /\ j \notin OwnSlots(u) /\ j \in OwnSlots(Kernel) => N[Root(u)][j] \in {Nil, N[Root(Kernel)][j]}
               /\ j \notin OwnSlots(u) /\ j \notin OwnSlots(Kernel) => N[Root(u)][j] = Nil
    BY DEF RootEntries
  <2>2. N[Root(Kernel)] = T[Root(Kernel)]
    BY <1>1
  <2>3. CASE Root(u) \in DOMAIN T
    <3>1. N[Root(u)] = T[Root(u)]
      BY <2>3
    <3> QED BY <2>2, <2>3, <3>1, RootIs
  <2>4. CASE Root(u) = Root(s)
    <3>1. u = s
      BY <2>4, <1>2, RootName
    <3>2. j \in OwnSlots(s) => j \notin OwnSlots(Kernel)
      BY OwnSlotsAre
    <3>3. j \notin OwnSlots(Kernel) => T[Root(Kernel)][j] = Nil
      BY <1>1, <1>2, RootIs
    <3> QED BY <2>2, <3>1, <3>2, <3>3
  <2> QED BY <2>1, <2>3, <2>4
<1>5. ASSUME NEW t \in DOMAIN N, Len(t) # 1 PROVE t \in DOMAIN T /\ N[t] = T[t]
  BY <1>2, <1>5
<1>6. ASSUME NEW t \in DOMAIN N, Len(t) \in {2, 3}, NEW j \in Slots PROVE T[t][j] \in Ends \cup DOMAIN N
  <2>1. t \in DOMAIN T
    BY <1>5, <1>6
  <2> QED BY <1>6, <2>1 DEF TreesOK, InnerEntries
<1>7. ASSUME NEW t, NEW u \in DOMAIN T, NEW i \in Slots, Leads(T, u, i, t) PROVE Leads(N, u, i, t)
  BY <1>7 DEF Leads
<1> QED BY <1>3, <1>4, <1>5, <1>6, <1>7, RootsChange

(* A task takes the kernel's half of the kernel's root again.               *)
LEMMA SyncTrees ==
  ASSUME NEW T, TreesOK(T), NEW s \in Tasks, Root(s) \in DOMAIN T, NEW N,
         DOMAIN N = DOMAIN T, N = [t \in DOMAIN N |-> N[t]],
         N[Root(s)] = [i \in Slots |-> T[Root(IF i \in Upper THEN Kernel ELSE s)][i]],
         \A t \in DOMAIN T \ {Root(s)} : N[t] = T[t]
  PROVE  TreesOK(N)
<1>1. /\ DOMAIN T \subseteq Names /\ IsFiniteSet(DOMAIN T) /\ Root(Kernel) \in DOMAIN T
      /\ T \in [DOMAIN T -> [Slots -> Ends \cup DOMAIN T \cup Phys]]
  BY DEF TreesOK, Shape
<1>2. s \in Spaces /\ Kernel \in Spaces /\ Root(s) \in Names /\ Len(Root(s)) = 1 /\ Root(Kernel) # Root(s)
  <2>1. s \in Spaces /\ Kernel \in Spaces /\ s # Kernel
    BY OwnSlotsAre, SpacesNat
  <2> QED BY <2>1, RootName
<1>3. \A i \in Slots : N[Root(s)][i] = IF i \in Upper THEN T[Root(Kernel)][i] ELSE T[Root(s)][i]
  OBVIOUS
<1>4. Shape(N)
  <2>1. N[Root(s)] \in [Slots -> Ends \cup DOMAIN N \cup Phys]
    <3>1. \A i \in Slots : N[Root(s)][i] \in Ends \cup DOMAIN N \cup Phys
      BY <1>1, <1>3
    <3>2. N[Root(s)] = [i \in Slots |-> N[Root(s)][i]]
      BY <1>3
    <3> QED BY <3>1, <3>2
  <2>2. \A t \in DOMAIN N : N[t] \in [Slots -> Ends \cup DOMAIN N \cup Phys]
    BY <1>1, <2>1
  <2>3. N \in [DOMAIN N -> [Slots -> Ends \cup DOMAIN N \cup Phys]]
    BY <2>2
  <2> QED BY <1>1, <2>3 DEF Shape
<1>5. RootEntries(N)
  <2>1. SUFFICES ASSUME NEW u \in Spaces, Root(u) \in DOMAIN N, NEW j \in Slots
        PROVE  /\ j \in OwnSlots(u) => N[Root(u)][j] \in {Nil, Zero} \cup ({Append(Root(u), j)} \cap DOMAIN N)
               /\ j \notin OwnSlots(u) /\ j \in OwnSlots(Kernel) => N[Root(u)][j] \in {Nil, N[Root(Kernel)][j]}
               /\ j \notin OwnSlots(u) /\ j \notin OwnSlots(Kernel) => N[Root(u)][j] = Nil
    BY DEF RootEntries
  <2>2. N[Root(Kernel)] = T[Root(Kernel)]
    BY <1>1, <1>2
  <2>3. CASE Root(u) # Root(s)
    <3>1. N[Root(u)] = T[Root(u)]
      BY <2>1, <2>3
    <3> QED BY <2>1, <2>2, <3>1, RootIs
  <2>4. CASE Root(u) = Root(s)
    <3>1. u = s
      BY <2>4, <1>2, RootName
    <3>2. (j \in OwnSlots(s) => j \notin Upper) /\ (j \in OwnSlots(Kernel) => j \in Upper)
      BY OwnSlotsAre, SlotsNat
    <3>3. j \notin OwnSlots(Kernel) => T[Root(Kernel)][j] = Nil
      BY <1>1, <1>2, RootIs
    <3>4. /\ j \in OwnSlots(s) => T[Root(s)][j] \in {Nil, Zero} \cup ({Append(Root(s), j)} \cap DOMAIN T)
          /\ j \notin OwnSlots(s) /\ j \notin OwnSlots(Kernel) => T[Root(s)][j] = Nil
      BY <1>2, RootIs
    <3> QED BY <1>3, <2>2, <3>1, <3>2, <3>3, <3>4
  <2> QED BY <2>3, <2>4
<1>6. ASSUME NEW t \in DOMAIN N, Len(t) # 1 PROVE t \in DOMAIN T /\ N[t] = T[t]
  BY <1>2, <1>6
<1>7. ASSUME NEW t \in DOMAIN N, Len(t) \in {2, 3}, NEW j \in Slots PROVE T[t][j] \in Ends \cup DOMAIN N
  BY <1>7 DEF TreesOK, InnerEntries
<1>8. ASSUME NEW t, NEW u \in DOMAIN T, NEW i \in Slots, Leads(T, u, i, t), Len(t) # 1 PROVE Leads(N, u, i, t)
  <2>1. CASE u # Root(s)
    BY <2>1, <1>8 DEF Leads
  <2>2. CASE u = Root(s)
    <3>1. i \in OwnSlots(s)
      BY <2>2, <1>2, <1>8, RootName DEF Leads
    <3>2. i \notin Upper
      BY <3>1, OwnSlotsAre, SlotsNat
    <3>3. N[u][i] = T[u][i]
      BY <2>2, <3>2, <1>3
    <3> QED BY <3>3, <1>8 DEF Leads
  <2> QED BY <2>1, <2>2
<1> QED BY <1>4, <1>5, <1>6, <1>7, <1>8, RootsChange

(* All tables of a task go.                                                 *)
LEMMA CleanTrees ==
  ASSUME NEW T, TreesOK(T), NEW s \in Tasks, NEW U, U = {t \in DOMAIN T : t[1] = s}, NEW N,
         DOMAIN N = DOMAIN T \ U, N = [t \in DOMAIN N |-> T[t]]
  PROVE  TreesOK(N)
<1>1. /\ DOMAIN T \subseteq Names /\ IsFiniteSet(DOMAIN T) /\ Root(Kernel) \in DOMAIN T
      /\ T \in [DOMAIN T -> [Slots -> Ends \cup DOMAIN T \cup Phys]]
  BY DEF TreesOK, Shape
<1>2. s \in Spaces /\ Kernel \in Spaces /\ s # Kernel
  BY OwnSlotsAre, SpacesNat
<1>3. \A t \in DOMAIN N : N[t] = T[t] /\ t \in DOMAIN T /\ t \in Names /\ t[1] # s
  BY <1>1
<1>4. Root(Kernel) \in DOMAIN N
  BY <1>1, <1>2, RootName
<1>5. ASSUME NEW t \in DOMAIN T, t[1] # s PROVE t \in DOMAIN N
  BY <1>5
<1>6. ASSUME NEW u \in Spaces, Root(u) \in DOMAIN N, NEW j \in Slots
      PROVE  /\ j \in OwnSlots(u) => N[Root(u)][j] \in {Nil, Zero} \cup ({Append(Root(u), j)} \cap DOMAIN N)
             /\ j \notin OwnSlots(u) /\ j \in OwnSlots(Kernel) => N[Root(u)][j] \in {Nil, N[Root(Kernel)][j]}
             /\ j \notin OwnSlots(u) /\ j \notin OwnSlots(Kernel) => N[Root(u)][j] = Nil
  <2>1. Root(u) \in DOMAIN T /\ N[Root(u)] = T[Root(u)] /\ N[Root(Kernel)] = T[Root(Kernel)] /\ Root(u)[1] # s
    BY <1>3, <1>4, <1>6
  <2>2. Append(Root(u), j)[1] # s
    <3>0. Root(u) \in Names /\ Len(Root(u)) = 1 /\ 1 < 4
      BY <1>6, RootName
    <3>1. Root(u) \in Names /\ Len(Root(u)) < 4
      BY <3>0, Zenon
    <3> QED BY <2>1, <3>1, ChildName
  <2> QED BY <2>1, <2>2, <1>5, RootIs
<1>7. ASSUME NEW t \in DOMAIN N, Len(t) \in {2, 3}, NEW j \in Slots PROVE T[t][j] \in Ends \cup DOMAIN N
  <2>1. T[t][j] \in Ends \cup ({Append(t, j)} \cap DOMAIN T)
    BY <1>3, <1>7 DEF TreesOK, InnerEntries
  <2>2. Append(t, j)[1] # s
    <3>0. 2 < 4 /\ 3 < 4
      OBVIOUS
    <3>1. t \in Names /\ Len(t) < 4 /\ t[1] # s
      BY <3>0, <1>3, <1>7, Zenon
    <3> QED BY <3>1, ChildName
  <2> QED BY <2>1, <2>2, <1>5
<1>8. ASSUME NEW t \in DOMAIN N, NEW j \in Slots PROVE N[t][j] \in Ends \cup DOMAIN N \cup Phys
  <2>1. t \in Names /\ t \in DOMAIN T /\ N[t] = T[t]
    BY <1>3
  <2>2. CASE Len(t) = 1
    <3>1. t = Root(t[1]) /\ t[1] \in Spaces
      BY <2>1, <2>2, OneName
    <3>2. N[Root(Kernel)][j] \in {Nil, Zero} \cup DOMAIN N
      <4>1. j \in OwnSlots(Kernel) \/ j \notin OwnSlots(Kernel)
        OBVIOUS
      <4> QED BY <4>1, <1>2, <1>4, <1>6
    <3> QED BY <3>1, <3>2, <1>6
  <2>3. CASE Len(t) \in {2, 3}
    BY <2>1, <2>3, <1>7
  <2>4. CASE Len(t) = 4
    BY <2>1, <2>4 DEF TreesOK, LastEntries
  <2> QED BY <2>1, <2>2, <2>3, <2>4 DEF Names
<1>9. Shape(N)
  <2>1. IsFiniteSet(DOMAIN N)
    BY <1>1, FS_Subset
  <2>2. \A t \in DOMAIN N : N[t] = [j \in Slots |-> N[t][j]]
    BY <1>1, <1>3
  <2>3. \A t \in DOMAIN N : N[t] \in [Slots -> Ends \cup DOMAIN N \cup Phys]
    BY <1>8, <2>2
  <2>4. N \in [DOMAIN N -> [Slots -> Ends \cup DOMAIN N \cup Phys]]
    BY <2>3
  <2> QED BY <1>3, <1>4, <2>1, <2>4 DEF Shape
<1>10. RootEntries(N)
  BY <1>6 DEF RootEntries
<1>11. ASSUME NEW t \in DOMAIN N, NEW u \in DOMAIN T, NEW i \in Slots, Leads(T, u, i, t) PROVE Leads(N, u, i, t)
  <2>1. u \in Names /\ Len(u) < 4 /\ t = Append(u, i)
    BY <1>1, <1>11 DEF Leads
  <2>2. u[1] = t[1] /\ t[1] # s
    BY <2>1, <1>3, ChildName
  <2>3. u \in DOMAIN N /\ N[u] = T[u]
    BY <2>2, <1>3, <1>5
  <2> QED BY <2>3, <1>11 DEF Leads
<1> QED BY <1>3, <1>7, <1>9, <1>10, <1>11, RootsChange

-----------------------------------------------------------------------------
(* The tables of a space                                                    *)

Own(T, s) == {t \in DOMAIN T : t[1] = s}
Level(T, s, k) == {t \in Own(T, s) : Len(t) = k}

(* The name of a table that an entry of u leads to                          *)
LEMMA LeadsName ==
  ASSUME NEW T, TreesOK(T), NEW u, NEW i, NEW t, Leads(T, u, i, t)
  PROVE  t[1] = u[1] /\ Len(t) = Len(u) + 1 /\ u \in Names /\ u \in DOMAIN T /\ i \in Slots
<1>1. u \in Names /\ Len(u) < 4 /\ i \in Slots /\ t = Append(u, i) /\ u \in DOMAIN T
  BY DEF Leads, TreesOK, Shape
<1> QED BY <1>1, ChildName

(* The tables that the own slots of a root lead to                          *)
LEMMA Level2 ==
  ASSUME TreesOK(tbl), NEW s \in Spaces, Root(s) \in DOMAIN tbl, NEW I, OwnSlots(s) \subseteq I, I \subseteq Slots,
         s = Kernel \/ I \cap OwnSlots(Kernel) = {}
  PROVE  {tbl[Root(s)][i] : i \in I} \cap DOMAIN tbl = Level(tbl, s, 2)
<1>1. Root(s) \in Names /\ Len(Root(s)) = 1 /\ Root(s)[1] = s
  BY RootName
<1>2. ASSUME NEW i \in I, tbl[Root(s)][i] \in DOMAIN tbl PROVE tbl[Root(s)][i] \in Level(tbl, s, 2)
  <2>1. tbl[Root(s)][i] \notin Ends
    BY <1>2, NoName DEF TreesOK, Shape
  <2>2. tbl[Root(s)][i] = Append(Root(s), i)
    <3>1. i \in Slots
      OBVIOUS
    <3>2. i \in OwnSlots(s)
      BY <2>1, <3>1, RootIs
    <3> QED BY <2>1, <3>1, <3>2, RootIs
  <2>3. Append(Root(s), i)[1] = s /\ Len(Append(Root(s), i)) = 2
    <3>1. 1 < 4 /\ 1 + 1 = 2
      OBVIOUS
    <3>2. Len(Root(s)) < 4
      BY <1>1, <3>1, Zenon
    <3>3. i \in Slots
      OBVIOUS
    <3>4. Append(Root(s), i)[1] = s /\ Len(Append(Root(s), i)) = 1 + 1
      BY <1>1, <3>2, <3>3, ChildName, Zenon
    <3> QED BY <3>1, <3>4, Zenon
  <2> QED BY <1>2, <2>2, <2>3, Zenon DEF Level, Own
<1>3. ASSUME NEW t \in Level(tbl, s, 2) PROVE \E i \in I : t = tbl[Root(s)][i]
  <2>1. t \in DOMAIN tbl /\ t[1] = s /\ Len(t) = 2
    BY DEF Level, Own
  <2>2. PICK u \in DOMAIN tbl : \E i \in Slots : Leads(tbl, u, i, t)
    BY <2>1 DEF TreesOK, Parents
  <2>3. PICK i \in Slots : Leads(tbl, u, i, t)
    BY <2>2
  <2>4. t[1] = u[1] /\ Len(t) = Len(u) + 1 /\ u \in Names
    <3> HIDE <1>2
    <3>1. TreesOK(tbl) /\ Leads(tbl, u, i, t)
      BY <2>3
    <3> QED BY <3>1, LeadsName
  <2>5. Len(u) = 1 /\ u[1] = s
    <3>1. Len(u) \in 1..4 /\ 2 = Len(u) + 1
      BY <2>1, <2>4 DEF Names
    <3>2. Len(u) = 1
      BY <3>1
    <3> QED BY <2>1, <2>4, <3>2
  <2>6. u = Root(s)
    BY <2>4, <2>5, OneName
  <2>7. i \in OwnSlots(s) /\ tbl[u][i] = t
    BY <2>3, <2>4, <2>5 DEF Leads
  <2> QED BY <2>6, <2>7
<1>4. Level(tbl, s, 2) \subseteq DOMAIN tbl
  BY DEF Level, Own
<1> QED BY <1>2, <1>3, <1>4

(* The tables below those of a level are those of the next.                 *)
LEMMA ChildrenLevel ==
  ASSUME TreesOK(tbl), NEW s \in Spaces, NEW k \in {2, 3}, NEW l, l = k + 1
  PROVE  Children(Level(tbl, s, k)) = Level(tbl, s, l)
<1>0. l \in Nat /\ k \in Nat /\ k < 4 /\ k # 1
  OBVIOUS
<1>1. ASSUME NEW t \in Level(tbl, s, k), NEW i \in Slots, tbl[t][i] \in DOMAIN tbl
      PROVE  tbl[t][i] \in Level(tbl, s, l)
  <2>1. t \in DOMAIN tbl /\ t[1] = s /\ Len(t) = k /\ t \in Names
    BY DEF Level, Own, TreesOK, Shape
  <2>2. tbl[t][i] \notin Ends
    BY <1>1, NoName DEF TreesOK, Shape
  <2>3. tbl[t][i] = Append(t, i)
    BY <2>1, <2>2 DEF TreesOK, InnerEntries
  <2>4. Append(t, i)[1] = s /\ Len(Append(t, i)) = k + 1
    <3>1. Len(t) < 4
      BY <2>1, <1>0, Zenon
    <3> QED BY <2>1, <3>1, ChildName
  <2> QED BY <1>1, <2>3, <2>4 DEF Level, Own
<1>2. ASSUME NEW t \in Level(tbl, s, l) PROVE \E u \in Level(tbl, s, k) : \E i \in Slots : t = tbl[u][i]
  <2>1. t \in DOMAIN tbl /\ t[1] = s /\ Len(t) = l
    BY DEF Level, Own
  <2>2. Len(t) # 1
    BY <2>1
  <2>3. PICK u \in DOMAIN tbl : \E i \in Slots : Leads(tbl, u, i, t)
    BY <2>1, <2>2 DEF TreesOK, Parents
  <2>4. PICK i \in Slots : Leads(tbl, u, i, t)
    BY <2>3
  <2>5. u[1] = s /\ Len(t) = Len(u) + 1 /\ u \in Names
    BY <2>1, <2>4, LeadsName
  <2>6. Len(u) = k
    BY <2>1, <2>5, <1>0 DEF Names
  <2>7. u \in Level(tbl, s, k)
    BY <2>5, <2>6 DEF Level, Own
  <2>8. t = tbl[u][i]
    BY <2>4 DEF Leads
  <2> QED BY <2>7, <2>8
<1>3. Level(tbl, s, l) \subseteq DOMAIN tbl
  BY DEF Level, Own
<1>4. Children(Level(tbl, s, k)) = {tbl[t][i] : t \in Level(tbl, s, k), i \in Slots} \cap DOMAIN tbl
  <2>1. \A x : x \in UNION {{tbl[t][i] : i \in Slots} : t \in Level(tbl, s, k)}
               <=> \E t \in Level(tbl, s, k), i \in Slots : x = tbl[t][i]
    OBVIOUS
  <2>2. \A x : x \in Children(Level(tbl, s, k))
               <=> x \in UNION {{tbl[t][i] : i \in Slots} : t \in Level(tbl, s, k)} /\ x \in DOMAIN tbl
    <3> DEFINE A == UNION {{tbl[t][i] : i \in Slots} : t \in Level(tbl, s, k)}
    <3>1. Children(Level(tbl, s, k)) = A \cap DOMAIN tbl
      BY DEF Children
    <3> HIDE DEF A
    <3>2. \A x : x \in Children(Level(tbl, s, k)) <=> x \in A /\ x \in DOMAIN tbl
      BY <3>1
    <3> QED BY <3>2 DEF A
  <2>3. \A x : x \in {tbl[t][i] : t \in Level(tbl, s, k), i \in Slots}
               <=> \E t \in Level(tbl, s, k), i \in Slots : x = tbl[t][i]
    OBVIOUS
  <2> QED BY <2>1, <2>2, <2>3
<1> QED BY <1>1, <1>2, <1>3, <1>4

(* The four levels of a space                                               *)
LEMMA FourLevels ==
  ASSUME TreesOK(tbl), NEW s \in Spaces, Root(s) \in DOMAIN tbl
  PROVE  {Root(s)} \cup Level(tbl, s, 2) \cup Level(tbl, s, 3) \cup Level(tbl, s, 4) = Own(tbl, s)
<1>1. ASSUME NEW t \in Own(tbl, s) PROVE t \in {Root(s)} \cup Level(tbl, s, 2) \cup Level(tbl, s, 3) \cup Level(tbl, s, 4)
  <2>1. t \in Names /\ t[1] = s
    BY DEF Own, TreesOK, Shape
  <2>2. Len(t) = 1 \/ Len(t) = 2 \/ Len(t) = 3 \/ Len(t) = 4
    BY <2>1 DEF Names
  <2> QED BY <2>1, <2>2, OneName DEF Level
<1>2. Root(s) \in Own(tbl, s)
  BY RootName DEF Own
<1> QED BY <1>1, <1>2 DEF Level

(* What cleanMap frees are the tables of the task's space.                  *)
LEMMA OwnTablesAre ==
  ASSUME TreesOK(tbl), NEW s \in Tasks, Root(s) \in DOMAIN tbl
  PROVE  OwnTables(s) = Own(tbl, s)
<1>1. s \in Spaces /\ OwnSlots(s) \subseteq CleanedIdx /\ CleanedIdx \subseteq Slots
      /\ CleanedIdx \cap OwnSlots(Kernel) = {}
  BY OwnSlotsAre, SlotsNat DEF CleanedIdx, Upper, Low, Top, Slots
<1>2. Trees(s) = Level(tbl, s, 2)
  BY <1>1, Level2 DEF Trees
<1>3. Children(Level(tbl, s, 2)) = Level(tbl, s, 3)
  <2>1. 3 = 2 + 1 /\ 2 \in {2, 3}
    OBVIOUS
  <2> QED BY <1>1, <2>1, ChildrenLevel
<1>4. Children(Level(tbl, s, 3)) = Level(tbl, s, 4)
  <2>1. 4 = 3 + 1 /\ 3 \in {2, 3}
    OBVIOUS
  <2> QED BY <1>1, <2>1, ChildrenLevel
<1>5. {Root(s)} \cup Level(tbl, s, 2) \cup Level(tbl, s, 3) \cup Level(tbl, s, 4) = Own(tbl, s)
  BY <1>1, FourLevels
<1> QED BY <1>2, <1>3, <1>4, <1>5 DEF OwnTables

(* What the kernel's root leads to are the tables of the kernel's space.    *)
LEMMA KernelTablesAre ==
  ASSUME TreesOK(tbl)
  PROVE  KernelTables = Own(tbl, Kernel)
<1>1. Kernel \in Spaces /\ OwnSlots(Kernel) \subseteq Slots /\ Root(Kernel) \in DOMAIN tbl
  BY OwnSlotsAre, SpacesNat DEF TreesOK, Shape
<1>2. {tbl[Root(Kernel)][i] : i \in Slots} \cap DOMAIN tbl = Level(tbl, Kernel, 2)
  BY <1>1, Level2
<1>3. Children(Level(tbl, Kernel, 2)) = Level(tbl, Kernel, 3)
  <2>1. 3 = 2 + 1 /\ 2 \in {2, 3}
    OBVIOUS
  <2> QED BY <1>1, <2>1, ChildrenLevel
<1>4. Children(Level(tbl, Kernel, 3)) = Level(tbl, Kernel, 4)
  <2>1. 4 = 3 + 1 /\ 3 \in {2, 3}
    OBVIOUS
  <2> QED BY <1>1, <2>1, ChildrenLevel
<1>5. {Root(Kernel)} \cup Level(tbl, Kernel, 2) \cup Level(tbl, Kernel, 3) \cup Level(tbl, Kernel, 4)
        = Own(tbl, Kernel)
  BY <1>1, FourLevels
<1> QED BY <1>2, <1>3, <1>4, <1>5 DEF KernelTables

(* No tree is without its root.                                             *)
LEMMA HasRoot ==
  ASSUME NEW T, TreesOK(T), NEW t \in DOMAIN T
  PROVE  t[1] \in Spaces /\ Root(t[1]) \in DOMAIN T
<1> DEFINE S == {n \in Nat : \A u \in DOMAIN T : Len(u) = n + 1 => Root(u[1]) \in DOMAIN T}
<1>1. DOMAIN T \subseteq Names
  BY DEF TreesOK, Shape
<1>2. 0 \in S
  <2>1. ASSUME NEW u \in DOMAIN T, Len(u) = 0 + 1 PROVE Root(u[1]) \in DOMAIN T
    <3>1. Len(u) = 1 /\ u \in Names
      BY <2>1, <1>1
    <3> QED BY <3>1, OneName
  <2> QED BY <2>1
<1>3. ASSUME NEW n \in Nat, n \in S PROVE n + 1 \in S
  <2>1. ASSUME NEW u \in DOMAIN T, Len(u) = (n + 1) + 1 PROVE Root(u[1]) \in DOMAIN T
    <3>1. Len(u) # 1
      BY <2>1
    <3>2. PICK v \in DOMAIN T : \E i \in Slots : Leads(T, v, i, u)
      BY <3>1 DEF TreesOK, Parents
    <3>3. PICK i \in Slots : Leads(T, v, i, u)
      BY <3>2
    <3>4. u[1] = v[1] /\ Len(u) = Len(v) + 1 /\ v \in Names
      BY <3>3, LeadsName
    <3>5. Len(v) = n + 1
      BY <2>1, <3>4 DEF Names
    <3> QED BY <3>4, <3>5, <1>3
  <2> QED BY <2>1
<1>4. \A n \in Nat : n \in S
  <2> HIDE DEF S
  <2> QED BY <1>2, <1>3, SetInduction
<1>5. t \in Names /\ t[1] \in Spaces /\ Len(t) - 1 \in Nat /\ Len(t) = (Len(t) - 1) + 1
  BY <1>1 DEF Names
<1> QED BY <1>4, <1>5

-----------------------------------------------------------------------------
(* Walks                                                                    *)

Addr == Slots \X Slots \X Slots \X Slots

(* What a walk may come to at level k                                       *)
At(T, k) == Ends \cup {t \in DOMAIN T : Len(t) = k}

(* A table has a name of one to four numbers.                               *)
LEMMA NotNames ==
  ASSUME NEW T, TreesOK(T), NEW t \in DOMAIN T
  PROVE  t \notin Ends /\ t \in Names /\ Len(t) \in 1..4
  BY NoName DEF TreesOK, Shape, Names

(* A walk goes one level down, or ends.                                     *)
LEMMA BelowIs ==
  ASSUME NEW T, TreesOK(T), NEW k \in 1..3, NEW t \in At(T, k), NEW j \in Slots, NEW l, l = k + 1
  PROVE  Below(T, t, j) \in At(T, l)
<1>1. CASE t \in Ends
  BY <1>1 DEF Below, At
<1>2. CASE t \notin Ends
  <2>1. t \in DOMAIN T /\ Len(t) = k /\ t \in Names /\ Below(T, t, j) = T[t][j]
    BY <1>2, NotNames DEF At, Below
  <2>0. k < 4 /\ l \in Nat
    OBVIOUS
  <2>2. Len(t) < 4
    BY <2>0, <2>1, Zenon
  <2>3. Len(Append(t, j)) = l
    BY <2>1, <2>2, ChildName
  <2>4. CASE k = 1
    <3>1. t = Root(t[1]) /\ t[1] \in Spaces
      BY <2>1, <2>4, OneName
    <3>2. T[t][j] \in {Nil, Zero, Append(t, j)} \cup {T[Root(Kernel)][j]} /\ T[t][j] \in {Nil, Zero} \cup DOMAIN T \cup {T[Root(Kernel)][j]}
      BY <2>1, <3>1, RootIs
    <3>3. Root(Kernel) \in DOMAIN T /\ Kernel \in Spaces /\ Root(Kernel) \in Names /\ Len(Root(Kernel)) = 1
      BY SpacesNat, RootName DEF TreesOK, Shape
    <3>4. T[Root(Kernel)][j] \in {Nil, Zero} \cup ({Append(Root(Kernel), j)} \cap DOMAIN T)
      BY <3>3, RootIs
    <3>5. Len(Append(Root(Kernel), j)) = l
      <4>1. 1 < 4
        OBVIOUS
      <4>2. Len(Root(Kernel)) < 4
        BY <3>3, <4>1, Zenon
      <4>3. Len(Append(Root(Kernel), j)) = 1 + 1
        BY <3>3, <4>2, ChildName
      <4> QED BY <4>3, <2>4
    <3> QED BY <2>1, <2>3, <3>2, <3>4, <3>5 DEF At
  <2>5. CASE k \in {2, 3}
    <3>1. T[t][j] \in Ends \cup ({Append(t, j)} \cap DOMAIN T)
      BY <2>1, <2>5 DEF TreesOK, InnerEntries
    <3> QED BY <2>1, <2>3, <3>1 DEF At
  <2> QED BY <2>4, <2>5
<1> QED BY <1>1, <1>2

(* The way of a walk                                                        *)
LEMMA WalkIs ==
  ASSUME NEW T, TreesOK(T), NEW s \in Spaces, Root(s) \in DOMAIN T, NEW a \in Addr
  PROVE  /\ Root(s) \in At(T, 1) /\ Below(T, Root(s), a[1]) \in At(T, 2)
         /\ Below(T, Below(T, Root(s), a[1]), a[2]) \in At(T, 3)
         /\ Walk(T, s, a) \in At(T, 4)
         /\ a[1] \in Slots /\ a[2] \in Slots /\ a[3] \in Slots /\ a[4] \in Slots
<1>1. a[1] \in Slots /\ a[2] \in Slots /\ a[3] \in Slots /\ a[4] \in Slots
  BY DEF Addr
<1>2. Root(s) \in At(T, 1)
  BY RootName DEF At
<1>3. Below(T, Root(s), a[1]) \in At(T, 2)
  <2>1. 1 \in 1..3 /\ 2 = 1 + 1
    OBVIOUS
  <2> QED BY <1>1, <1>2, <2>1, BelowIs
<1>4. Below(T, Below(T, Root(s), a[1]), a[2]) \in At(T, 3)
  <2>1. 2 \in 1..3 /\ 3 = 2 + 1
    OBVIOUS
  <2> QED BY <1>1, <1>3, <2>1, BelowIs
<1>5. Walk(T, s, a) \in At(T, 4)
  <2>1. 3 \in 1..3 /\ 4 = 3 + 1
    OBVIOUS
  <2> QED BY <1>1, <1>4, <2>1, BelowIs DEF Walk
<1> QED BY <1>1, <1>2, <1>3, <1>4, <1>5

(* Where T ends, N may have come to the new table c, which is empty.        *)
Follows(x, y, c) == y = x \/ (x = Nil /\ y = c)

(* A walk by one level in trees that differ by a new table                  *)
LEMMA BelowFollows ==
  ASSUME NEW T, TreesOK(T), NEW u \in DOMAIN T, NEW i \in Slots, T[u][i] = Nil, NEW c, NEW N,
         LinkFacts(T, u, i, c, N), NEW k, NEW x \in At(T, k), NEW y, Follows(x, y, c), NEW j \in Slots
  PROVE  Follows(Below(T, x, j), Below(N, y, j), c)
<1>1. /\ c \in Names /\ c \notin DOMAIN T /\ \A h \in Slots : N[c][h] = Nil
      /\ \A t \in DOMAIN T : \A h \in Slots : N[t][h] = IF t = u /\ h = i THEN c ELSE T[t][h]
  BY DEF LinkFacts
<1>2. CASE x = Nil /\ y = c
  <2>1. c \notin Ends
    BY <1>1, NoName
  <2> QED BY <1>1, <1>2, <2>1 DEF Below, Follows
<1>3. CASE y = x /\ x \in Ends
  BY <1>3 DEF Below, Follows
<1>4. CASE y = x /\ x \notin Ends
  <2>1. x \in DOMAIN T
    BY <1>4 DEF At
  <2>2. Below(T, x, j) = T[x][j] /\ Below(N, y, j) = N[x][j]
    BY <1>4 DEF Below
  <2> QED BY <1>1, <2>1, <2>2 DEF Follows
<1> QED BY <1>2, <1>3, <1>4 DEF Follows

(* A new table changes no mapping.                                          *)
LEMMA LinkMaps ==
  ASSUME NEW T, TreesOK(T), NEW u \in DOMAIN T, Len(u) < 4, NEW i \in Slots, T[u][i] = Nil, NEW c, NEW N,
         LinkFacts(T, u, i, c, N), NEW s \in Spaces, Root(s) \in DOMAIN T, NEW a \in Addr
  PROVE  PldEntry(N, s, a) = PldEntry(T, s, a)
<1> DEFINE x1 == Below(T, Root(s), a[1])
           x2 == Below(T, x1, a[2])
           y1 == Below(N, Root(s), a[1])
           y2 == Below(N, y1, a[2])
           w  == Walk(T, s, a)
           v  == Walk(N, s, a)
<1>1. /\ Root(s) \in At(T, 1) /\ x1 \in At(T, 2) /\ x2 \in At(T, 3) /\ w \in At(T, 4)
      /\ a[1] \in Slots /\ a[2] \in Slots /\ a[3] \in Slots /\ a[4] \in Slots
  BY WalkIs
<1>2. Follows(Root(s), Root(s), c)
  BY DEF Follows
<1>3. Follows(x1, y1, c)
  BY <1>1, <1>2, BelowFollows
<1>4. Follows(x2, y2, c)
  <2> HIDE DEF x1, y1
  <2> QED BY <1>1, <1>3, BelowFollows
<1>5. Follows(w, v, c)
  <2>1. w = Below(T, x2, a[3]) /\ v = Below(N, y2, a[3])
    BY DEF Walk
  <2> HIDE DEF w, v, x2, y2
  <2> QED BY <1>1, <1>4, <2>1, BelowFollows
<1>6. PldEntry(T, s, a) = Below(T, w, a[4]) /\ PldEntry(N, s, a) = Below(N, v, a[4])
  BY DEF PldEntry
<1> HIDE DEF w, v
<1>7. Follows(Below(T, w, a[4]), Below(N, v, a[4]), c)
  BY <1>1, <1>5, BelowFollows
<1>8. /\ c \in Names /\ c \notin DOMAIN T /\ \A h \in Slots : N[c][h] = Nil
      /\ \A t \in DOMAIN T : \A h \in Slots : N[t][h] = IF t = u /\ h = i THEN c ELSE T[t][h]
  BY DEF LinkFacts
<1>9. CASE w = Nil /\ v = c
  <2>1. c \notin Ends
    BY <1>8, NoName
  <2> QED BY <1>1, <1>6, <1>8, <1>9, <2>1 DEF Below
<1>10. CASE v = w /\ w \in Ends
  BY <1>6, <1>10 DEF Below
<1>11. CASE v = w /\ w \notin Ends
  <2>1. w \in DOMAIN T /\ Len(w) = 4
    BY <1>1, <1>11 DEF At
  <2>2. w # u
    <3>1. ~(4 < 4)
      OBVIOUS
    <3> QED BY <2>1, <3>1, Zenon
  <2>3. N[w][a[4]] = T[w][a[4]]
    BY <1>1, <1>8, <2>1, <2>2
  <2> QED BY <1>6, <1>11, <2>3 DEF Below
<1> QED BY <1>5, <1>9, <1>10, <1>11 DEF Follows

(* A write into a last table changes what is mapped where walks come to it. *)
LEMMA WriteMaps ==
  ASSUME NEW T, TreesOK(T), NEW u \in DOMAIN T, Len(u) = 4, NEW i \in Slots, NEW p, NEW N, Written(T, u, i, p, N),
         NEW s \in Spaces, Root(s) \in DOMAIN T, NEW a \in Addr
  PROVE  /\ Walk(N, s, a) = Walk(T, s, a)
         /\ PldEntry(N, s, a) = IF Walk(T, s, a) = u /\ a[4] = i THEN p ELSE PldEntry(T, s, a)
<1> DEFINE x1 == Below(T, Root(s), a[1])
           x2 == Below(T, x1, a[2])
           w  == Walk(T, s, a)
<1>0. /\ DOMAIN N = DOMAIN T
      /\ \A t \in DOMAIN T : \A j \in Slots : N[t][j] = IF t = u /\ j = i THEN p ELSE T[t][j]
  BY DEF Written
<1>1. /\ Root(s) \in At(T, 1) /\ x1 \in At(T, 2) /\ x2 \in At(T, 3) /\ w \in At(T, 4)
      /\ a[1] \in Slots /\ a[2] \in Slots /\ a[3] \in Slots /\ a[4] \in Slots
  BY WalkIs
<1>2. ASSUME NEW k \in 1..3, NEW t \in At(T, k), NEW j \in Slots
      PROVE  Below(N, t, j) = Below(T, t, j)
  <2>1. CASE t \in Ends
    BY <2>1 DEF Below
  <2>2. CASE t \notin Ends
    <3>1. t \in DOMAIN T /\ Len(t) = k
      BY <2>2 DEF At
    <3>2. t # u
      <4>1. k # 4
        OBVIOUS
      <4> QED BY <3>1, <4>1, Zenon
    <3> QED BY <3>1, <3>2, <2>2, <1>0 DEF Below
  <2> QED BY <2>1, <2>2
<1>3. 1 \in 1..3 /\ 2 \in 1..3 /\ 3 \in 1..3
  OBVIOUS
<1>4. Below(N, Root(s), a[1]) = x1
  BY <1>1, <1>2, <1>3
<1>5. Below(N, x1, a[2]) = x2
  <2> HIDE DEF x1
  <2>1. Below(N, x1, a[2]) = Below(T, x1, a[2])
    BY <1>1, <1>2, <1>3
  <2> QED BY <2>1
<1>6. Below(N, x2, a[3]) = w
  <2>1. w = Below(T, x2, a[3])
    BY DEF Walk
  <2> HIDE DEF x2, w
  <2>2. Below(N, x2, a[3]) = Below(T, x2, a[3])
    BY <1>1, <1>2, <1>3
  <2> QED BY <2>1, <2>2
<1>7. Walk(N, s, a) = w
  <2>1. Walk(N, s, a) = Below(N, Below(N, Below(N, Root(s), a[1]), a[2]), a[3])
    BY DEF Walk
  <2> HIDE DEF x1, x2, w
  <2> QED BY <2>1, <1>4, <1>5, <1>6
<1>8. PldEntry(T, s, a) = Below(T, w, a[4]) /\ PldEntry(N, s, a) = Below(N, w, a[4])
  BY <1>7 DEF PldEntry
<1> HIDE DEF w
<1>9. CASE w \in Ends
  <2>1. w # u
    BY <1>9, NotNames
  <2> QED BY <1>7, <1>8, <1>9, <2>1 DEF Below, w
<1>10. CASE w \notin Ends
  <2>1. w \in DOMAIN T
    BY <1>1, <1>10 DEF At
  <2>2. Below(N, w, a[4]) = N[w][a[4]] /\ Below(T, w, a[4]) = T[w][a[4]]
    BY <1>10 DEF Below
  <2>3. N[w][a[4]] = IF w = u /\ a[4] = i THEN p ELSE T[w][a[4]]
    BY <1>0, <1>1, <2>1
  <2> QED BY <1>7, <1>8, <2>2, <2>3 DEF w
<1> QED BY <1>9, <1>10

(* The last table on the way of an address, named by its indexes            *)
Leaf(s, a) == Append(Append(Append(Root(s), a[1]), a[2]), a[3])

(* The space whose table a walk of space s comes to                         *)
Source(s, a) == IF a[1] \in OwnSlots(s) THEN s ELSE Kernel

(* The names on the way of an address                                       *)
LEMMA LeafName ==
  ASSUME NEW s \in Spaces, NEW a \in Addr
  PROVE  /\ Root(s) \in Names /\ Len(Root(s)) < 4
         /\ Append(Root(s), a[1]) \in Names /\ Len(Append(Root(s), a[1])) = 2
         /\ Append(Root(s), a[1])[1] = s
         /\ Append(Append(Root(s), a[1]), a[2]) \in Names
         /\ Len(Append(Append(Root(s), a[1]), a[2])) = 3
         /\ Append(Append(Root(s), a[1]), a[2])[1] = s
         /\ Leaf(s, a) \in Names /\ Len(Leaf(s, a)) = 4 /\ Leaf(s, a)[1] = s
         /\ a[1] \in Slots /\ a[2] \in Slots /\ a[3] \in Slots /\ a[4] \in Slots
<1>1. a[1] \in Slots /\ a[2] \in Slots /\ a[3] \in Slots /\ a[4] \in Slots
  BY DEF Addr
<1>2. 1 < 4 /\ 2 < 4 /\ 3 < 4 /\ 1 + 1 = 2 /\ 2 + 1 = 3 /\ 3 + 1 = 4
  OBVIOUS
<1>3. Root(s) \in Names /\ Len(Root(s)) = 1 /\ Root(s)[1] = s
  BY RootName
<1>4. Len(Root(s)) < 4
  BY <1>2, <1>3, Zenon
<1> DEFINE x == Append(Root(s), a[1])
<1>5. x \in Names /\ Len(x) = 2 /\ x[1] = s
  BY <1>1, <1>2, <1>3, <1>4, ChildName, ZenonT(30)
<1> HIDE DEF x
<1>6. Len(x) < 4
  BY <1>2, <1>5, Zenon
<1> DEFINE y == Append(x, a[2])
<1>7. y \in Names /\ Len(y) = 3 /\ y[1] = s
  BY <1>1, <1>2, <1>5, <1>6, ChildName, ZenonT(30)
<1> HIDE DEF y
<1>8. Len(y) < 4
  BY <1>2, <1>7, Zenon
<1> DEFINE z == Append(y, a[3])
<1>9. z \in Names /\ Len(z) = 4 /\ z[1] = s
  BY <1>1, <1>2, <1>7, <1>8, ChildName, ZenonT(30)
<1>10. Leaf(s, a) = z
  BY DEF Leaf, x, y
<1> HIDE DEF z
<1> QED BY <1>1, <1>3, <1>4, <1>5, <1>7, <1>9, <1>10 DEF x, y

(* Different spaces or indexes have different tables.                       *)
LEMMA LeafOnce ==
  ASSUME NEW s \in Spaces, NEW r \in Spaces, NEW a \in Addr, NEW b \in Addr,
         Leaf(s, a) = Leaf(r, b), a[4] = b[4]
  PROVE  s = r /\ a = b
<1>1. s = r
  BY LeafName
<1> DEFINE x == Append(Root(s), a[1])
           y == Append(x, a[2])
           u == Append(Root(r), b[1])
           v == Append(u, b[2])
<1>2. x \in Names /\ y \in Names /\ u \in Names /\ v \in Names /\ Root(s) \in Names /\ Root(r) \in Names
      /\ a[1] \in Slots /\ a[2] \in Slots /\ a[3] \in Slots /\ b[1] \in Slots /\ b[2] \in Slots /\ b[3] \in Slots
  BY LeafName
<1>3. Append(y, a[3]) = Append(v, b[3])
  BY DEF Leaf
<1>4. y = v /\ a[3] = b[3]
  <2> HIDE DEF y, v
  <2> QED BY <1>2, <1>3, ChildOnce
<1>5. x = u /\ a[2] = b[2]
  <2> HIDE DEF x, u
  <2> QED BY <1>2, <1>4, ChildOnce
<1>6. a[1] = b[1]
  BY <1>2, <1>5, ChildOnce
<1>7. a = <<a[1], a[2], a[3], a[4]>> /\ b = <<b[1], b[2], b[3], b[4]>>
  BY DEF Addr
<1> HIDE DEF x, y, u, v
<1> QED BY <1>1, <1>4, <1>5, <1>6, <1>7

(* A walk from a table that is no root stays below it.                      *)
LEMMA BelowName ==
  ASSUME NEW T, TreesOK(T), NEW k \in {2, 3}, NEW t \in At(T, k), NEW j \in Slots
  PROVE  Below(T, t, j) \in Ends \/ (t \notin Ends /\ Below(T, t, j) = Append(t, j))
<1>1. CASE t \in Ends
  BY <1>1 DEF Below
<1>2. CASE t \notin Ends
  <2>1. t \in DOMAIN T /\ Len(t) \in {2, 3} /\ Below(T, t, j) = T[t][j]
    BY <1>2 DEF At, Below
  <2> QED BY <1>2, <2>1 DEF TreesOK, InnerEntries
<1> QED BY <1>1, <1>2

(* A walk comes to the last table of its address, of the task's space or    *)
(* the kernel's.                                                            *)
LEMMA WalkName ==
  ASSUME NEW T, TreesOK(T), NEW s \in Spaces, Root(s) \in DOMAIN T, NEW a \in Addr, Walk(T, s, a) \notin Ends
  PROVE  /\ Walk(T, s, a) = Leaf(Source(s, a), a) /\ Walk(T, s, a) \in DOMAIN T /\ Len(Walk(T, s, a)) = 4
         /\ a[1] \in OwnSlots(Source(s, a)) /\ Source(s, a) \in Spaces
<1> DEFINE x1 == Below(T, Root(s), a[1])
           x2 == Below(T, x1, a[2])
           w  == Walk(T, s, a)
           r  == Source(s, a)
<1>1. /\ Root(s) \in At(T, 1) /\ x1 \in At(T, 2) /\ x2 \in At(T, 3) /\ w \in At(T, 4)
      /\ a[1] \in Slots /\ a[2] \in Slots /\ a[3] \in Slots /\ a[4] \in Slots
  BY WalkIs
<1>2. w = Below(T, x2, a[3])
  BY DEF Walk
<1>3. x2 \notin Ends /\ w = Append(x2, a[3])
  <2>1. 3 \in {2, 3}
    OBVIOUS
  <2> HIDE DEF x2, w
  <2>2. Below(T, x2, a[3]) \in Ends \/ (x2 \notin Ends /\ Below(T, x2, a[3]) = Append(x2, a[3]))
    BY <1>1, <2>1, BelowName
  <2> QED BY <1>2, <2>2 DEF w
<1>4. x1 \notin Ends /\ x2 = Append(x1, a[2])
  <2>1. 2 \in {2, 3}
    OBVIOUS
  <2> HIDE DEF x1
  <2>2. Below(T, x1, a[2]) \in Ends \/ (x1 \notin Ends /\ Below(T, x1, a[2]) = Append(x1, a[2]))
    BY <1>1, <2>1, BelowName
  <2> QED BY <1>3, <2>2
<1>5. /\ x1 = Append(Root(r), a[1]) /\ a[1] \in OwnSlots(r) /\ r \in Spaces
  <2>1. x1 = T[Root(s)][a[1]] /\ x1 \notin Ends
    BY <1>4, RootName, NoName DEF Below
  <2>2. Root(Kernel) \in DOMAIN T /\ Kernel \in Spaces
    BY SpacesNat DEF TreesOK, Shape
  <2>3. CASE a[1] \in OwnSlots(s)
    BY <1>1, <2>1, <2>3, RootIs DEF Source
  <2>4. CASE a[1] \notin OwnSlots(s)
    <3>1. a[1] \in OwnSlots(Kernel) /\ x1 = T[Root(Kernel)][a[1]]
      BY <1>1, <2>1, <2>4, RootIs
    <3>2. x1 = Append(Root(Kernel), a[1])
      BY <1>1, <2>1, <2>2, <3>1, RootIs
    <3> QED BY <2>2, <2>4, <3>1, <3>2 DEF Source
  <2> QED BY <2>3, <2>4
<1>6. w = Leaf(r, a)
  BY <1>3, <1>4, <1>5 DEF Leaf
<1>7. w \in DOMAIN T /\ Len(w) = 4
  BY <1>1 DEF At
<1> QED BY <1>5, <1>6, <1>7

-----------------------------------------------------------------------------
(* Operations on trees                                                      *)

(* Page 0 is in no tree.                                                    *)
NoZero(T) == \A t \in DOMAIN T : \A i \in Slots : T[t][i] # Zero

Sound(m) == IsMem(m) /\ PoolOK(m) /\ TreesOK(m.tbl) /\ (m.oom \/ NoZero(m.tbl))
AllPages(m) == Cardinality(DOMAIN m.tbl) + Pages(m)

(* The pages are counted in natural numbers.                                *)
LEMMA AllPagesNat ==
  ASSUME NEW m, Sound(m)
  PROVE  Cardinality(DOMAIN m.tbl) \in Nat /\ Pages(m) \in Nat /\ IsFiniteSet(DOMAIN m.tbl)
<1>1. IsFiniteSet(DOMAIN m.tbl)
  BY DEF Sound, TreesOK, Shape
<1>2. m.cnt \in Nat /\ m.buddy \in Nat
  BY PoolNonempty DEF Sound, PoolOK
<1> QED BY <1>1, <1>2, FS_CardinalityType DEF Pages

(* The same spaces have roots.                                              *)
SameRoots(T, N) == \A s \in Spaces : Root(s) \in DOMAIN N <=> Root(s) \in DOMAIN T

(* The same addresses are mapped to the same.                               *)
SameView(T, N) ==
  \A s \in Spaces :
    /\ Root(s) \in DOMAIN N <=> Root(s) \in DOMAIN T
    /\ Root(s) \in DOMAIN T => \A a \in Addr : PldEntry(N, s, a) = PldEntry(T, s, a)

(* n is m with more tables, that map nothing, or, when no page is left,     *)
(* with page 0 in a tree.                                                   *)
Grown(m, n) ==
  /\ Sound(n) /\ AllPages(n) = AllPages(m) /\ DOMAIN m.tbl \subseteq DOMAIN n.tbl
  /\ SameRoots(m.tbl, n.tbl) /\ (m.oom => n.oom)
  /\ n.oom = m.oom => SameView(m.tbl, n.tbl)

(* More tables and then more are more tables.                               *)
LEMMA GrownTransitive ==
  ASSUME NEW m, NEW n, NEW o, Sound(m), Grown(m, n), Grown(n, o)
  PROVE  Grown(m, o)
<1>1. m.oom \in BOOLEAN /\ n.oom \in BOOLEAN /\ o.oom \in BOOLEAN
  BY DEF Grown, Sound, PoolOK
<1>2. o.oom = m.oom => SameView(m.tbl, o.tbl)
  <2>1. SUFFICES ASSUME o.oom = m.oom PROVE SameView(m.tbl, o.tbl)
    OBVIOUS
  <2>2. n.oom = m.oom /\ o.oom = n.oom
    BY <1>1, <2>1 DEF Grown
  <2>3. SameView(m.tbl, n.tbl) /\ SameView(n.tbl, o.tbl)
    BY <2>2 DEF Grown
  <2> QED BY <2>3 DEF SameView
<1>3. SameRoots(m.tbl, o.tbl) /\ (m.oom => o.oom)
  BY DEF Grown, SameRoots
<1> QED BY <1>2, <1>3 DEF Grown

(* No table more is allowed.                                                *)
LEMMA GrownSame ==
  ASSUME NEW m, Sound(m)
  PROVE  Grown(m, m)
  BY DEF Grown, SameView, SameRoots

(* A table page is taken, for a name that is free.                          *)
LEMMA TakeTableIs ==
  ASSUME NEW m, Sound(m), ~m.oom, NEW t, t \notin DOMAIN m.tbl, NEW n, n = TakeTable(m, t)
  PROVE  /\ IsMem(n) /\ PoolOK(n)
         /\ n.oom => n.tbl = m.tbl /\ AllPages(n) = AllPages(m)
         /\ ~n.oom => n.tbl = WithTable(m.tbl, t, Empty) /\ Pages(n) = Pages(m) - 1
<1> DEFINE d == Taken(m)
<1>1. IsMem(d) /\ PoolOK(d) /\ d.tbl = m.tbl /\ Pages(d) = Pages(m) - 1 + (IF d.oom THEN 1 ELSE 0)
  BY TakenOK DEF Sound
<1>2. n = IF d.oom THEN d ELSE [d EXCEPT !.tbl = WithTable(@, t, Empty)]
  BY DEF TakeTable
<1> HIDE DEF d
<1>3. Pages(m) \in Nat
  BY AllPagesNat
<1>4. CASE d.oom
  <2>1. n = d
    BY <1>2, <1>4
  <2>2. Pages(n) = Pages(m)
    BY <1>1, <1>3, <1>4, <2>1
  <2> QED BY <1>1, <1>4, <2>1, <2>2 DEF AllPages
<1>5. CASE ~d.oom
  <2>1. n = [d EXCEPT !.tbl = WithTable(d.tbl, t, Empty)]
    BY <1>2, <1>5
  <2>2. /\ IsMem(n) /\ n.tbl = WithTable(d.tbl, t, Empty) /\ n.pool = d.pool /\ n.cnt = d.cnt
        /\ n.buddy = d.buddy /\ n.oom = d.oom
    BY <2>1, <1>1 DEF IsMem
  <2>3. PoolOK(n) /\ Pages(n) = Pages(d)
    BY <2>2, <1>1 DEF PoolOK, Pages
  <2> QED BY <1>1, <1>5, <2>2, <2>3, <1>3
<1> QED BY <1>4, <1>5

(* A table page for a slot that is free, and the entry that leads to it, or *)
(* to page 0                                                                *)
LEMMA LinkOK ==
  ASSUME NEW m, Sound(m), ~m.oom, NEW u \in DOMAIN m.tbl, Len(u) < 4, NEW i \in Slots, m.tbl[u][i] = Nil,
         Len(u) = 1 => i \in OwnSlots(u[1]), NEW n, n = TakeTable(m, Append(u, i))
  PROVE  /\ n.oom => Grown(m, [n EXCEPT !.tbl[u][i] = Zero])
         /\ ~n.oom => /\ Grown(m, [n EXCEPT !.tbl[u][i] = Append(u, i)])
                      /\ Append(u, i) \in DOMAIN [n EXCEPT !.tbl[u][i] = Append(u, i)].tbl
<1> DEFINE c == Append(u, i)
           T == m.tbl
           N == Linked(T, u, i)
           r == [n EXCEPT !.tbl[u][i] = c]
<1>1. TreesOK(T)
  BY DEF Sound
<1>2. LinkFacts(T, u, i, c, N) /\ TreesOK(N)
  <2>1. u \in DOMAIN T /\ T[u][i] = Nil
    OBVIOUS
  <2> HIDE DEF T
  <2>2. LinkFacts(T, u, i, Append(u, i), Linked(T, u, i))
    BY <1>1, <2>1, LinkedIs
  <2>3. TreesOK(Linked(T, u, i))
    BY <1>1, <2>1, LinkTrees
  <2> QED BY <2>2, <2>3
<1>3. c \notin DOMAIN T /\ c \in Names /\ Len(c) = Len(u) + 1 /\ DOMAIN N = DOMAIN T \cup {c}
  BY <1>2 DEF LinkFacts
<1>4. /\ IsMem(n) /\ PoolOK(n)
      /\ n.oom => n.tbl = T /\ AllPages(n) = AllPages(m)
      /\ ~n.oom => n.tbl = WithTable(T, c, Empty) /\ Pages(n) = Pages(m) - 1
  <2> HIDE DEF N, r
  <2> QED BY <1>3, TakeTableIs
<1>5. CASE n.oom
  <2>1. n.tbl = T
    BY <1>4, <1>5
  <2> DEFINE z == [n EXCEPT !.tbl[u][i] = Zero]
             Z == [T EXCEPT ![u][i] = Zero]
  <2>2. /\ IsMem(z) /\ z.tbl = Z /\ z.pool = n.pool /\ z.cnt = n.cnt
        /\ z.buddy = n.buddy /\ z.oom = n.oom
    <3> HIDE DEF T, N
    <3> QED BY <2>1, <1>4 DEF IsMem
  <2>3. TreesOK(Z) /\ DOMAIN Z = DOMAIN T
    <3>1. u \in DOMAIN T /\ T[u][i] = Nil
      OBVIOUS
    <3> HIDE DEF T
    <3> QED BY <1>1, <3>1, ZeroTrees
  <2> HIDE DEF z, Z, N, r
  <2>4. PoolOK(z) /\ Pages(z) = Pages(n)
    BY <2>2, <1>4 DEF PoolOK, Pages
  <2>5. Sound(z) /\ AllPages(z) = AllPages(m)
    BY <2>1, <2>2, <2>3, <2>4, <1>4, <1>5 DEF Sound, AllPages
  <2>6. SameRoots(T, z.tbl)
    BY <2>2, <2>3 DEF SameRoots
  <2>7. m.oom = FALSE /\ z.oom = TRUE
    BY <2>2, <1>4, <1>5 DEF Sound, PoolOK
  <2>8. Grown(m, z)
    BY <2>2, <2>3, <2>5, <2>6, <2>7 DEF Grown
  <2> QED BY <2>8, <1>5 DEF z
<1>6. CASE ~n.oom
  <2>1. /\ IsMem(r) /\ r.tbl = [WithTable(T, c, Empty) EXCEPT ![u][i] = c] /\ r.pool = n.pool /\ r.cnt = n.cnt
        /\ r.buddy = n.buddy /\ r.oom = n.oom
    <3>1. n.tbl = WithTable(T, c, Empty)
      BY <1>4, <1>6
    <3> HIDE DEF c, T, N
    <3> QED BY <3>1, <1>4 DEF IsMem
  <2>2. r.tbl = N
    BY <2>1 DEF Linked
  <2> HIDE DEF r
  <2>3. PoolOK(r) /\ Pages(r) = Pages(m) - 1
    BY <2>1, <1>4, <1>6 DEF PoolOK, Pages
  <2>9. NoZero(N)
    <3>1. NoZero(T)
      BY DEF Sound
    <3>2. /\ DOMAIN N = DOMAIN T \cup {c} /\ \A j \in Slots : N[c][j] = Nil
          /\ \A t \in DOMAIN T : \A j \in Slots : N[t][j] = IF t = u /\ j = i THEN c ELSE T[t][j]
      BY <1>2 DEF LinkFacts
    <3> HIDE DEF N, T, c
    <3> QED BY <3>1, <3>2, <1>3, NoName DEF NoZero
  <2>4. Sound(r)
    BY <2>1, <2>2, <2>3, <2>9, <1>2 DEF Sound
  <2>5. Cardinality(DOMAIN N) = Cardinality(DOMAIN T) + 1
    <3>1. IsFiniteSet(DOMAIN T)
      BY AllPagesNat
    <3> HIDE DEF T, N, c
    <3> QED BY <3>1, <1>3, FS_AddElement
  <2>6. AllPages(r) = AllPages(m)
    <3>1. Pages(m) \in Nat /\ Cardinality(DOMAIN T) \in Nat
      BY AllPagesNat
    <3> QED BY <2>2, <2>3, <2>5, <3>1 DEF AllPages
  <2>7. SameView(T, N)
    <3>1. \A s \in Spaces : Root(s) # c
      <4>1. Len(c) # 1
        <5>1. Len(u) \in 1..4
          BY <1>1, NotNames
        <5>2. Len(c) = Len(u) + 1
          BY <1>3
        <5>3. ASSUME NEW x \in 1..4 PROVE x + 1 # 1
          OBVIOUS
        <5> HIDE DEF c, T, N, r
        <5> QED BY <5>1, <5>2, <5>3, Zenon
      <4> HIDE DEF c
      <4> QED BY <4>1, RootName
    <3>2. \A s \in Spaces : Root(s) \in DOMAIN T => \A a \in Addr : PldEntry(N, s, a) = PldEntry(T, s, a)
      <4> HIDE DEF T, N, c
      <4>1. T[u][i] = Nil /\ u \in DOMAIN T
        BY DEF T
      <4> QED BY <4>1, <1>1, <1>2, LinkMaps
    <3> HIDE DEF T, N, c
    <3> QED BY <3>1, <3>2, <1>3 DEF SameView
  <2>8. Grown(m, r)
    <3> HIDE DEF N
    <3>1. SameRoots(T, N)
      BY <2>7 DEF SameView, SameRoots
    <3> QED BY <2>2, <2>4, <2>6, <2>7, <3>1, <1>3 DEF Grown
  <2> QED BY <2>2, <2>8, <1>3, <1>6 DEF r
<1> QED BY <1>5, <1>6

(* Where a level of MM_PageTable_map comes to: a table at level k, named by *)
(* the way, or page 0, or nowhere                                           *)
Nowhere == {Nil, Spin, Zero}
Reached(n, t, c, l) == t \in Nowhere \/ (t = c /\ t \in DOMAIN n.tbl /\ Len(t) = l)

(* One level of MM_PageTable_map                                            *)
LEMMA StepOK ==
  ASSUME NEW m, Sound(m), NEW u \in Names, NEW k \in 1..3, Len(u) = k, NEW t, Reached(m, t, u, k),
         NEW i \in Slots, k = 1 => i \in OwnSlots(u[1]), NEW mt, mt = <<m, t>>, NEW l, l = k + 1
  PROVE  /\ Step(mt, i) = <<Step(mt, i)[1], Step(mt, i)[2]>>
         /\ Grown(m, Step(mt, i)[1])
         /\ Reached(Step(mt, i)[1], Step(mt, i)[2], Append(u, i), l)
<1> DEFINE r == Step(mt, i)
           c == Append(u, i)
<1>1. mt[1] = m /\ mt[2] = t /\ Grown(m, m)
  BY GrownSame
<1>2. Len(u) < 4 /\ k # 4
  <2>1. k < 4 /\ k # 4
    OBVIOUS
  <2> QED BY <2>1, Zenon
<1>3. c \in Names /\ Len(c) = l /\ c # Nil
  <2>1. c \in Names /\ Len(c) = Len(u) + 1
    BY <1>2, ChildName
  <2> QED BY <2>1, NoName
<1>4. CASE t \in Nowhere
  <2> DEFINE x == IF t \in {Nil, Spin} THEN t ELSE IF i \in m.page0 THEN Nil ELSE Spin
  <2>1. r = <<m, x>> /\ x \in {Nil, Spin}
    BY <1>1, <1>4 DEF Step, Nowhere
  <2> HIDE DEF r, x
  <2>2. r = <<r[1], r[2]>> /\ r[1] = m /\ r[2] \in {Nil, Spin}
    BY <2>1
  <2> QED BY <2>2, <1>1 DEF Reached, Nowhere, r
<1>5. ASSUME t \notin Nowhere
      PROVE  /\ t = u /\ t \in DOMAIN m.tbl /\ TreesOK(m.tbl)
             /\ ~(t \in {Nil, Spin}) /\ t # Zero
             /\ m.tbl[t][i] \in Ends \cup ({c} \cap DOMAIN m.tbl)
  <2>1. t = u /\ t \in DOMAIN m.tbl /\ TreesOK(m.tbl)
    BY <1>5 DEF Reached, Sound
  <2>2. CASE k = 1
    <3>1. u = Root(u[1]) /\ u[1] \in Spaces /\ i \in OwnSlots(u[1])
      BY <2>2, OneName
    <3>2. m.tbl[Root(u[1])][i] \in {Nil, Zero} \cup ({Append(Root(u[1]), i)} \cap DOMAIN m.tbl)
      BY <3>1, <2>1, RootIs
    <3>3. m.tbl[u][i] \in {Nil, Zero} \cup ({c} \cap DOMAIN m.tbl)
      BY <3>1, <3>2
    <3> HIDE DEF c
    <3> QED BY <3>3, <2>1, <1>5 DEF Nowhere
  <2>3. CASE k \in {2, 3}
    BY <2>1, <2>3, <1>5 DEF TreesOK, InnerEntries, Nowhere
  <2> QED BY <2>2, <2>3
<1>6. CASE t \notin Nowhere /\ (m.tbl[t][i] = Big \/ (m.tbl[t][i] = Nil /\ m.oom))
  <2> DEFINE x == IF m.tbl[t][i] = Big THEN Nil ELSE Spin
  <2>1. r = <<m, x>> /\ x \in {Nil, Spin}
    BY <1>1, <1>5, <1>6, NoName DEF Step
  <2> HIDE DEF r, x
  <2>2. r = <<r[1], r[2]>> /\ r[1] = m /\ r[2] \in {Nil, Spin}
    BY <2>1
  <2> QED BY <2>2, <1>1 DEF Reached, Nowhere, r
<1>7. CASE t \notin Nowhere /\ m.tbl[t][i] \notin {Nil, Big}
  <2>1. r = <<m, m.tbl[t][i]>>
    BY <1>1, <1>5, <1>7 DEF Step
  <2>2. m.tbl[t][i] = Zero \/ (m.tbl[t][i] = c /\ c \in DOMAIN m.tbl)
    BY <1>5, <1>7
  <2> HIDE DEF r
  <2>3. r = <<r[1], r[2]>> /\ r[1] = m /\ r[2] = m.tbl[t][i]
    BY <2>1
  <2> HIDE DEF c
  <2> QED BY <2>2, <2>3, <1>1, <1>3 DEF Reached, Nowhere, r, c
<1>8. CASE t \notin Nowhere /\ m.tbl[t][i] = Nil /\ ~m.oom
  <2> DEFINE n == TakeTable(m, c)
             e == IF n.oom THEN Zero ELSE c
             q == [n EXCEPT !.tbl[u][i] = e]
  <2>1. t = u /\ u \in DOMAIN m.tbl /\ m.tbl[u][i] = Nil
    BY <1>5, <1>8
  <2>2. r = <<q, e>>
    BY <1>1, <1>5, <1>8, <2>1, NoName DEF Step
  <2>3. /\ n.oom => Grown(m, [n EXCEPT !.tbl[u][i] = Zero])
        /\ ~n.oom => Grown(m, [n EXCEPT !.tbl[u][i] = c]) /\ c \in DOMAIN [n EXCEPT !.tbl[u][i] = c].tbl
    BY <1>2, <1>8, <2>1, LinkOK
  <2> HIDE DEF n, r
  <2>4. Grown(m, q) /\ (e = Zero \/ (e = c /\ c \in DOMAIN q.tbl))
    BY <2>3
  <2> HIDE DEF q, c, e
  <2>5. r = <<r[1], r[2]>> /\ r[1] = q /\ r[2] = e
    BY <2>2
  <2> QED BY <2>4, <2>5, <1>3 DEF Reached, Nowhere, r, c
<1> QED BY <1>4, <1>6, <1>7, <1>8

(* The entry that leads to a table is there.                                *)
LEMMA EntryIs ==
  ASSUME NEW T, TreesOK(T), NEW u \in Names, Len(u) < 4, NEW i \in Slots, Append(u, i) \in DOMAIN T
  PROVE  u \in DOMAIN T /\ T[u][i] = Append(u, i)
<1> DEFINE c == Append(u, i)
<1>1. Len(c) # 1
  <2>1. Len(c) = Len(u) + 1 /\ Len(u) \in 1..4
    BY ChildName DEF Names
  <2>2. ASSUME NEW x \in 1..4 PROVE x + 1 # 1
    OBVIOUS
  <2> HIDE DEF c
  <2> QED BY <2>1, <2>2, Zenon
<1>2. PICK v \in DOMAIN T : \E j \in Slots : Leads(T, v, j, c)
  BY <1>1 DEF TreesOK, Parents
<1>3. PICK j \in Slots : Leads(T, v, j, c)
  BY <1>2
<1>4. c = Append(v, j) /\ T[v][j] = c /\ v \in Names
  BY <1>3 DEF Leads, TreesOK, Shape
<1>5. v = u /\ j = i
  BY <1>4, ChildOnce
<1> QED BY <1>4, <1>5

(* A walk comes to the last table where there is one.                       *)
LEMMA LeafWalk ==
  ASSUME NEW T, TreesOK(T), NEW s \in Spaces, NEW a \in Addr, Leaf(s, a) \in DOMAIN T
  PROVE  Walk(T, s, a) = Leaf(s, a)
<1> DEFINE x1 == Append(Root(s), a[1])
           x2 == Append(x1, a[2])
           x3 == Append(x2, a[3])
<1>1. /\ Root(s) \in Names /\ x1 \in Names /\ x2 \in Names /\ Len(x1) = 2 /\ Len(x2) = 3 /\ Len(Root(s)) < 4
      /\ a[1] \in Slots /\ a[2] \in Slots /\ a[3] \in Slots
  BY LeafName
<1>2. 2 < 4 /\ 3 < 4
  OBVIOUS
<1>3. Leaf(s, a) = x3
  BY DEF Leaf
<1>4. x2 \in DOMAIN T /\ T[x2][a[3]] = x3
  <2> HIDE DEF x1, x2
  <2>1. Len(x2) < 4
    BY <1>1, <1>2, Zenon
  <2> QED BY <1>1, <1>3, <2>1, EntryIs
<1>5. x1 \in DOMAIN T /\ T[x1][a[2]] = x2
  <2> HIDE DEF x1, x3
  <2>1. Len(x1) < 4
    BY <1>1, <1>2, Zenon
  <2> QED BY <1>1, <1>4, <2>1, EntryIs
<1>6. Root(s) \in DOMAIN T /\ T[Root(s)][a[1]] = x1
  <2> HIDE DEF x2, x3
  <2> QED BY <1>1, <1>5, EntryIs
<1> HIDE DEF x1, x2, x3
<1>7. x1 \notin Ends /\ x2 \notin Ends /\ Root(s) \notin Ends
  BY <1>1, NoName
<1>8. Walk(T, s, a) = Below(T, Below(T, Below(T, Root(s), a[1]), a[2]), a[3])
  BY DEF Walk
<1>9. Below(T, Root(s), a[1]) = x1 /\ Below(T, x1, a[2]) = x2 /\ Below(T, x2, a[3]) = x3
  BY <1>4, <1>5, <1>6, <1>7 DEF Below
<1> QED BY <1>3, <1>8, <1>9

(* N maps a to p for space s, and for those that have the table from s.     *)
Changed(T, N, s, a, p) ==
  /\ PldEntry(N, s, a) = p
  /\ \A r \in Spaces :
       /\ Root(r) \in DOMAIN N <=> Root(r) \in DOMAIN T
       /\ Root(r) \in DOMAIN T => \A b \in Addr :
            \/ PldEntry(N, r, b) = PldEntry(T, r, b)
            \/ b = a /\ Source(r, a) = s /\ PldEntry(N, r, b) = p

(* The entry of an address in its last table is written.                    *)
LeafWritten(T, s, a, p, N) == N = [T EXCEPT ![Leaf(s, a)][a[4]] = p]

LEMMA WriteLeaf ==
  ASSUME NEW T, TreesOK(T), NEW s \in Spaces, Root(s) \in DOMAIN T, NEW a \in Addr,
         Leaf(s, a) \in DOMAIN T, NEW p \in Phys \cup {Nil}, NEW N, LeafWritten(T, s, a, p, N)
  PROVE  TreesOK(N) /\ DOMAIN N = DOMAIN T /\ Changed(T, N, s, a, p) /\ (NoZero(T) => NoZero(N))
<1> DEFINE w == Leaf(s, a)
<1>1. w \in DOMAIN T /\ Len(w) = 4 /\ a[4] \in Slots
  BY LeafName
<1>2. Written(T, w, a[4], p, N) /\ TreesOK(N) /\ DOMAIN N = DOMAIN T
  <2>1. N = [T EXCEPT ![w][a[4]] = p]
    BY DEF LeafWritten
  <2> HIDE DEF w
  <2>2. Written(T, w, a[4], p, [T EXCEPT ![w][a[4]] = p])
    BY <1>1, WriteTrees
  <2> QED BY <2>1, <2>2 DEF Written
<1>3. ASSUME NEW r \in Spaces, Root(r) \in DOMAIN T, NEW b \in Addr
      PROVE  PldEntry(N, r, b) = IF Walk(T, r, b) = w /\ b[4] = a[4] THEN p ELSE PldEntry(T, r, b)
  <2> HIDE DEF w
  <2> QED BY <1>1, <1>2, <1>3, WriteMaps
<1>4. Walk(T, s, a) = w
  BY LeafWalk
<1>5. PldEntry(N, s, a) = p
  <2> HIDE DEF w
  <2> QED BY <1>3, <1>4
<1>6. ASSUME NEW r \in Spaces, Root(r) \in DOMAIN T, NEW b \in Addr, Walk(T, r, b) = w, b[4] = a[4]
      PROVE  b = a /\ Source(r, a) = s
  <2>1. w \notin Ends
    BY <1>1, NotNames
  <2>2. Walk(T, r, b) = Leaf(Source(r, b), b) /\ Source(r, b) \in Spaces
    <3> HIDE DEF w
    <3> QED BY <1>6, <2>1, WalkName
  <2>3. Leaf(Source(r, b), b) = Leaf(s, a)
    BY <1>6, <2>2
  <2>4. Source(r, b) = s /\ b = a
    <3> DEFINE q == Source(r, b)
    <3>1. q \in Spaces /\ Leaf(q, b) = Leaf(s, a)
      BY <2>2, <2>3
    <3> HIDE DEF q, w
    <3>2. q = s /\ b = a
      BY <1>6, <3>1, LeafOnce
    <3> QED BY <3>2 DEF q
  <2> QED BY <2>4
<1>7. ASSUME NEW r \in Spaces, Root(r) \in DOMAIN T, NEW b \in Addr
      PROVE  \/ PldEntry(N, r, b) = PldEntry(T, r, b)
             \/ b = a /\ Source(r, a) = s /\ PldEntry(N, r, b) = p
  <2> HIDE DEF w
  <2> QED BY <1>3, <1>6, <1>7
<1>8. Changed(T, N, s, a, p)
  <2> HIDE DEF w
  <2> QED BY <1>2, <1>5, <1>7 DEF Changed
<1>9. ASSUME NoZero(T) PROVE NoZero(N)
  <2>1. p # Zero
    BY NoName, PageTableAssumption
  <2>2. \A t \in DOMAIN T : \A j \in Slots : N[t][j] = IF t = w /\ j = a[4] THEN p ELSE T[t][j]
    BY <1>2 DEF Written
  <2> HIDE DEF w
  <2> QED BY <1>2, <1>9, <2>1, <2>2 DEF NoZero
<1> QED BY <1>2, <1>8, <1>9

(* MM_PageTable_map adds tables, or it does and maps the address, or no     *)
(* page is left.                                                            *)
LEMMA MapOK ==
  ASSUME NEW m, Sound(m), NEW s \in Spaces, Root(s) \in DOMAIN m.tbl, NEW a \in Addr,
         a[1] \in OwnSlots(s), NEW pa \in Phys, NEW n, n = Map(m, s, a, pa)
  PROVE  /\ Sound(n) /\ AllPages(n) = AllPages(m) /\ SameRoots(m.tbl, n.tbl) /\ (m.oom => n.oom)
         /\ n.oom = m.oom => SameView(m.tbl, n.tbl) \/ Changed(m.tbl, n.tbl, s, a, pa)
<1> DEFINE x1 == Append(Root(s), a[1])
           x2 == Append(x1, a[2])
           x3 == Append(x2, a[3])
           m0 == <<m, Root(s)>>
           m1 == Step(m0, a[1])
           m2 == Step(m1, a[2])
           m3 == Step(m2, a[3])
<1>1. /\ Root(s) \in Names /\ x1 \in Names /\ x2 \in Names /\ Len(x1) = 2 /\ Len(x2) = 3 /\ Leaf(s, a) = x3
      /\ a[1] \in Slots /\ a[2] \in Slots /\ a[3] \in Slots /\ a[4] \in Slots
      /\ Len(Root(s)) = 1 /\ Root(s)[1] = s
  BY LeafName, RootName DEF Leaf
<1>2. 1 \in 1..3 /\ 2 \in 1..3 /\ 3 \in 1..3 /\ 2 = 1 + 1 /\ 3 = 2 + 1 /\ 4 = 3 + 1 /\ 2 # 1 /\ 3 # 1
  OBVIOUS
<1>3. m1 = <<m1[1], m1[2]>> /\ Grown(m, m1[1]) /\ Reached(m1[1], m1[2], x1, 2)
  <2>1. Reached(m, Root(s), Root(s), 1)
    BY <1>1 DEF Reached
  <2>2. m0 = <<m, Root(s)>>
    OBVIOUS
  <2> HIDE DEF m0
  <2> QED BY <1>1, <1>2, <2>1, <2>2, StepOK
<1>0. Descent(m, s, a) = m3
  BY DEF Descent
<1> HIDE DEF m1, x1
<1>4. m2 = <<m2[1], m2[2]>> /\ Grown(m1[1], m2[1]) /\ Reached(m2[1], m2[2], x2, 3)
  <2>1. Sound(m1[1])
    BY <1>3 DEF Grown
  <2> QED BY <1>1, <1>2, <1>3, <2>1, StepOK
<1> HIDE DEF m2, x2
<1>5. m3 = <<m3[1], m3[2]>> /\ Grown(m2[1], m3[1]) /\ Reached(m3[1], m3[2], x3, 4)
  <2>1. Sound(m2[1])
    BY <1>4 DEF Grown
  <2> QED BY <1>1, <1>2, <1>4, <2>1, StepOK
<1> DEFINE q == m3[1]
           t == m3[2]
           Q == q.tbl
<1>6. n = IF t \in {Nil, Spin} THEN q
          ELSE IF t = Zero THEN [q EXCEPT !.page0 = @ \cup {a[4]}]
          ELSE [q EXCEPT !.tbl[t][a[4]] = pa]
  <2> HIDE DEF m3
  <2> QED BY <1>0 DEF Map
<1> HIDE DEF m3, x3
<1>7. Grown(m, q)
  <2>1. Sound(m1[1]) /\ Grown(m, m2[1])
    BY <1>3, <1>4, GrownTransitive DEF Grown
  <2> QED BY <1>5, <2>1, GrownTransitive
<1>8. /\ Sound(q) /\ AllPages(q) = AllPages(m) /\ DOMAIN m.tbl \subseteq DOMAIN Q
      /\ SameRoots(m.tbl, Q) /\ (m.oom => q.oom) /\ (q.oom = m.oom => SameView(m.tbl, Q))
  BY <1>7 DEF Grown
<1>9. Reached(q, t, x3, 4)
  BY <1>5
<1> HIDE DEF q, t
<1>10. CASE t \in {Nil, Spin}
  BY <1>6, <1>8, <1>10
<1>11. CASE t = Zero
  <2>1. n = [q EXCEPT !.page0 = @ \cup {a[4]}]
    BY <1>6, <1>11, NoName
  <2>2. /\ IsMem(n) /\ n.tbl = q.tbl /\ n.pool = q.pool /\ n.cnt = q.cnt
        /\ n.buddy = q.buddy /\ n.oom = q.oom
    BY <2>1, <1>8 DEF IsMem, Sound
  <2>3. Sound(n) /\ AllPages(n) = AllPages(q)
    BY <2>2, <1>8 DEF Sound, PoolOK, AllPages, Pages
  <2> QED BY <2>2, <2>3, <1>8
<1>12. CASE t \notin Nowhere
  <2>1. x3 \in DOMAIN Q /\ n = [q EXCEPT !.tbl[x3][a[4]] = pa]
    BY <1>6, <1>9, <1>12 DEF Reached, Nowhere
  <2>2. /\ IsMem(n) /\ n.tbl = [Q EXCEPT ![x3][a[4]] = pa] /\ n.pool = q.pool /\ n.cnt = q.cnt
        /\ n.buddy = q.buddy /\ n.oom = q.oom
    BY <2>1, <1>8 DEF IsMem, Sound
  <2>3. TreesOK(Q) /\ Root(s) \in DOMAIN Q /\ pa \in Phys \cup {Nil} /\ Leaf(s, a) \in DOMAIN Q
    BY <1>1, <2>1, <1>8 DEF Sound
  <2>4. TreesOK(n.tbl) /\ DOMAIN n.tbl = DOMAIN Q /\ Changed(Q, n.tbl, s, a, pa) /\ (NoZero(Q) => NoZero(n.tbl))
    <3>1. LeafWritten(Q, s, a, pa, n.tbl)
      BY <1>1, <2>2 DEF LeafWritten
    <3> HIDE DEF Q
    <3> QED BY <2>3, <3>1, WriteLeaf
  <2>5. Sound(n) /\ AllPages(n) = AllPages(q)
    BY <1>8, <2>2, <2>4 DEF Sound, PoolOK, AllPages, Pages
  <2>6. SameRoots(m.tbl, n.tbl)
    BY <1>8, <2>4 DEF SameRoots
  <2>7. q.oom = m.oom => Changed(m.tbl, n.tbl, s, a, pa)
    <3> HIDE DEF Q
    <3> QED BY <1>8, <2>4 DEF Changed, SameView
  <2> QED BY <1>8, <2>2, <2>5, <2>6, <2>7
<1> QED BY <1>10, <1>11, <1>12 DEF Nowhere

(* A walk through a root that is page 0 gets no further: nothing is mapped. *)
LEMMA MapZero ==
  ASSUME NEW m, NEW s, NEW a, NEW pa, Root(s) \notin DOMAIN m.tbl
  PROVE  Map(m, s, a, pa) = m
<1> DEFINE x == IF a[1] \in m.page0 THEN Nil ELSE Spin
<1>1. Step(<<m, Zero>>, a[1]) = <<m, x>> /\ x \in {Nil, Spin}
  BY NoName DEF Step
<1> HIDE DEF x
<1>2. \A i : Step(<<m, x>>, i) = <<m, x>>
  BY <1>1 DEF Step
<1>3. Descent(m, s, a) = <<m, x>>
  BY <1>1, <1>2 DEF Descent
<1> QED BY <1>1, <1>3 DEF Map

-----------------------------------------------------------------------------
(* The inductive invariant                                                  *)

(* The pool is right, the trees are sound, and no page is lost.             *)
MemInv ==
  Sound(mm) /\ AllPages(mm) = Cardinality(DOMAIN BootTbl) + PagesOf[InitOrder] + BuddyPages

(* A task that has a root is there, and until memory is exhausted it has a  *)
(* root from its creation until it is recycled.                             *)
StageInv ==
  /\ stage \in [Tasks -> {"none", "created", "sync", "user", "halted"}]
  /\ \A t \in Tasks : Root(t) \in DOMAIN tbl => stage[t] # "none"
  /\ \A t \in Tasks : stage[t] \in {"created", "sync", "user"} /\ ~oom => Root(t) \in DOMAIN tbl

IInv == MemInv /\ StageInv

(* The addresses of tasks and of the kernel lead into their own halves.     *)
LEMMA AddrsAre ==
  /\ UserAddrs \subseteq Addr /\ KernelAddrs \subseteq Addr /\ UserStack \in UserAddrs
  /\ \A a \in UserAddrs : a[1] \in Low
  /\ \A a \in KernelAddrs : a[1] \in OwnSlots(Kernel)
<1>1. Low \subseteq Slots /\ Idx \subseteq Slots /\ OwnSlots(Kernel) \subseteq Slots /\ OwnSlots(Kernel) = Upper \ {Top}
  BY SlotsNat, OwnSlotsAre
<1>2. /\ UserAddrs \subseteq Low \X Idx \X Idx \X Idx /\ UserStack \in UserAddrs
      /\ KernelAddrs \subseteq OwnSlots(Kernel) \X Idx \X Idx \X Idx
  BY <1>1, PageTableAssumption
<1>3. ASSUME NEW a \in Low \X Idx \X Idx \X Idx PROVE a \in Addr /\ a[1] \in Low
  BY <1>1 DEF Addr
<1>4. ASSUME NEW a \in OwnSlots(Kernel) \X Idx \X Idx \X Idx PROVE a \in Addr /\ a[1] \in OwnSlots(Kernel)
  BY <1>1 DEF Addr
<1> QED BY <1>2, <1>3, <1>4

(* The kernel's tables after boot are sound trees.                          *)
LEMMA BootTrees == TreesOK(BootTbl)
<1> DEFINE r == Root(Kernel)
           c == <<Kernel, 1>>
           T == BootTbl
<1>1. /\ Kernel \in Spaces /\ Kernel \in Nat /\ r \in Names /\ Len(r) = 1 /\ r[1] = Kernel
      /\ 1 \in Slots /\ 1 \in OwnSlots(Kernel) /\ 0 \in Slots /\ OwnSlots(Kernel) \subseteq Slots
  BY SpacesNat, RootName, OwnSlotsAre DEF Slots, Low, Upper, Top
<1>2. c \in Names /\ Len(c) = 2 /\ c[1] = Kernel /\ c = Append(r, 1) /\ c # r
  BY <1>1 DEF Names, Root
<1>3. /\ DOMAIN T = {r, c}
      /\ \A i \in Slots : T[r][i] = IF i = 1 THEN c ELSE Nil
      /\ \A i \in Slots : T[c][i] = IF i = 0 THEN Big ELSE Nil
      /\ T[r] = [i \in Slots |-> T[r][i]] /\ T[c] = [i \in Slots |-> T[c][i]]
      /\ T = [t \in DOMAIN T |-> T[t]]
  BY <1>2 DEF BootTbl, Empty
<1> HIDE DEF T, r, c
<1>4. Shape(T)
  <2>1. T[r] \in [Slots -> Ends \cup DOMAIN T \cup Phys]
    BY <1>3
  <2>2. T[c] \in [Slots -> Ends \cup DOMAIN T \cup Phys]
    BY <1>3
  <2>3. T \in [DOMAIN T -> [Slots -> Ends \cup DOMAIN T \cup Phys]]
    BY <1>3, <2>1, <2>2
  <2>4. IsFiniteSet({r, c})
    <3>1. IsFiniteSet({r})
      BY FS_Singleton
    <3>2. {r, c} = {r} \cup {c}
      OBVIOUS
    <3> QED BY <3>1, <3>2, FS_AddElement
  <2> QED BY <1>1, <1>2, <1>3, <2>3, <2>4 DEF Shape, r
<1>5. RootEntries(T)
  <2>1. SUFFICES ASSUME NEW s \in Spaces, Root(s) \in DOMAIN T, NEW i \in Slots
        PROVE  /\ i \in OwnSlots(s) => T[Root(s)][i] \in {Nil, Zero} \cup ({Append(Root(s), i)} \cap DOMAIN T)
               /\ i \notin OwnSlots(s) /\ i \in OwnSlots(Kernel) => T[Root(s)][i] \in {Nil, T[Root(Kernel)][i]}
               /\ i \notin OwnSlots(s) /\ i \notin OwnSlots(Kernel) => T[Root(s)][i] = Nil
    BY DEF RootEntries
  <2>2. s = Kernel /\ Root(s) = r
    <3>1. Root(s) = r
      <4>1. Len(Root(s)) = 1 /\ 1 # 2
        BY RootName
      <4> QED BY <4>1, <2>1, <1>2, <1>3, Zenon
    <3> QED BY <3>1, <1>1, RootName
  <2> QED BY <2>2, <1>1, <1>2, <1>3
<1>6. InnerEntries(T)
  <2>1. 1 \notin {2, 3}
    OBVIOUS
  <2> QED BY <2>1, <1>1, <1>3 DEF InnerEntries
<1>7. LastEntries(T)
  BY <1>1, <1>2, <1>3, SMTT(30) DEF LastEntries
<1>8. Parents(T)
  <2>1. Leads(T, r, 1, c)
    <3>1. Len(r) < 4
      <4>1. 1 < 4
        OBVIOUS
      <4> QED BY <4>1, <1>1, Zenon
    <3>2. T[r][1] = c
      BY <1>1, <1>3
    <3> QED BY <3>1, <3>2, <1>1, <1>2, <1>3 DEF Leads
  <2> QED BY <2>1, <1>1, <1>3 DEF Parents
<1>9. TreesOK(T)
  BY <1>4, <1>5, <1>6, <1>7, <1>8 DEF TreesOK
<1> QED BY <1>9 DEF T

(* The first frame fits into the pool.                                      *)
LEMMA BootPool == GoodPool(<<InitOrder>>) /\ Total(<<InitOrder>>) = PagesOf[InitOrder]
<1>1. <<>> \in Seq(Nat) /\ Len(<<>>) = 0
  OBVIOUS
<1>2. GoodPool(<<>>)
  BY <1>1 DEF GoodPool
<1>3. Total(<<>>) = 0
  BY <1>1, PagesBelowRec DEF Total
<1>4. InitOrder \in Nat /\ MaxCache \in Nat /\ 1 + InitOrder <= MaxCache /\ PagesOf[InitOrder] \in Nat
  BY PageTableAssumption, PagesOfPositive
<1>5. GoodPool(Append(<<>>, InitOrder)) /\ Total(Append(<<>>, InitOrder)) = Total(<<>>) + PagesOf[InitOrder]
  <2>1. Len(<<>>) + 1 + InitOrder <= MaxCache
    BY <1>1, <1>4
  <2> QED BY <1>2, <1>4, <2>1, PoolAppend
<1>6. Append(<<>>, InitOrder) = <<InitOrder>>
  OBVIOUS
<1> QED BY <1>3, <1>4, <1>5, <1>6

(* The invariant holds after boot.                                          *)
LEMMA InitInv == Init => IInv
<1> SUFFICES ASSUME Init PROVE IInv
  OBVIOUS
<1>1. /\ mm.tbl = BootTbl /\ mm.pool = <<InitOrder>> /\ mm.cnt = PagesOf[InitOrder]
      /\ mm.buddy = BuddyPages /\ mm.oom = FALSE /\ IsMem(mm)
  BY DEF Init, mm, IsMem
<1>2. /\ PagesOf[InitOrder] \in Nat /\ PagesOf[InitOrder] >= MinCache /\ MinCache \in Nat /\ MinCache >= 2
      /\ BuddyPages \in Nat
  BY PageTableAssumption, PagesOfPositive
<1>3. PoolOK(mm)
  <2>1. /\ GoodPool(mm.pool) /\ mm.cnt = Total(mm.pool) /\ mm.cnt >= 1 /\ mm.cnt >= MinCache
        /\ mm.buddy \in Nat
    BY <1>1, <1>2, BootPool
  <2>2. mm.oom \in BOOLEAN
    BY <1>1
  <2> QED BY <2>1, <2>2 DEF PoolOK
<1>4. Sound(mm)
  <2>1. NoZero(BootTbl)
    <3>1. ASSUME NEW t \in DOMAIN BootTbl, NEW i \in Slots PROVE BootTbl[t][i] # Zero
      <4>1. BootTbl[t][i] \in {Nil, Big, <<Kernel, 1>>}
        BY <3>1 DEF BootTbl, Empty
      <4>2. Len(<<Kernel, 1>>) = 2 /\ Len(Zero) = 1
        BY DEF Zero
      <4> QED BY <4>1, <4>2, NoName
    <3> QED BY <3>1 DEF NoZero
  <2> QED BY <1>1, <1>3, <2>1, BootTrees DEF Sound
<1>5. MemInv
  <2>1. Cardinality(DOMAIN BootTbl) \in Nat
    BY <1>1, <1>4, AllPagesNat
  <2>2. Pages(mm) = PagesOf[InitOrder] + BuddyPages
    BY <1>1, <1>2 DEF Pages
  <2> QED BY <1>1, <1>2, <1>4, <2>1, <2>2 DEF MemInv, AllPages
<1>6. StageInv
  <2>1. ASSUME NEW t \in Tasks PROVE stage[t] = "none" /\ Root(t) \notin DOMAIN tbl
    <3>1. stage[t] = "none" /\ DOMAIN tbl = {Root(Kernel), <<Kernel, 1>>}
      BY DEF Init, BootTbl
    <3>2. t \in Spaces /\ t # Kernel /\ Kernel \in Spaces
      BY SpacesNat DEF Spaces
    <3>3. Root(t) # Root(Kernel) /\ Len(Root(t)) = 1
      BY <3>2, RootName
    <3>4. Len(<<Kernel, 1>>) = 2 /\ 1 # 2
      OBVIOUS
    <3>5. Root(t) # <<Kernel, 1>>
      BY <3>3, <3>4, Zenon
    <3> QED BY <3>1, <3>3, <3>5
  <2>2. stage \in [Tasks -> {"none", "created", "sync", "user", "halted"}]
    BY DEF Init
  <2> QED BY <2>1, <2>2 DEF StageInv
<1> QED BY <1>5, <1>6 DEF IInv

(* The invariant gives what the runs check.                                 *)
LEMMA InvPool == IInv => PoolExact
<1> SUFFICES ASSUME IInv PROVE PoolExact
  OBVIOUS
<1>1. Sound(mm) /\ AllPages(mm) = Cardinality(DOMAIN BootTbl) + PagesOf[InitOrder] + BuddyPages
  BY DEF IInv, MemInv
<1>2. mm.tbl = tbl /\ mm.pool = pool /\ mm.cnt = cacheSize /\ mm.buddy = buddy /\ mm.oom = oom
  BY DEF mm
<1>3. cacheSize = PagesBelow(pool)[Len(pool)]
  BY <1>1, <1>2 DEF Sound, PoolOK, Total
<1>4. Len(pool) \in 1..MaxCache /\ cacheSize \in Nat /\ buddy \in Nat
  <2>1. cacheSize \in Nat /\ Len(pool) \in Nat /\ Len(pool) > 0 /\ Len(pool) <= MaxCache
    BY <1>1, <1>2, PoolNonempty DEF Sound
  <2>2. MaxCache \in Nat
    BY PageTableAssumption
  <2>3. Len(pool) \in 1..MaxCache
    BY <2>1, <2>2
  <2> QED BY <2>1, <2>3, <1>1, <1>2 DEF Sound, PoolOK
<1>5. Cardinality(DOMAIN tbl) + cacheSize + buddy + (IF oom THEN 1 ELSE 0)
        = Cardinality(DOMAIN BootTbl) + PagesOf[InitOrder] + BuddyPages
  <2>1. Cardinality(DOMAIN tbl) \in Nat
    BY <1>1, <1>2, AllPagesNat
  <2>2. Cardinality(DOMAIN tbl) + (cacheSize + buddy + (IF oom THEN 1 ELSE 0))
          = Cardinality(DOMAIN BootTbl) + PagesOf[InitOrder] + BuddyPages
    BY <1>1, <1>2 DEF AllPages, Pages
  <2> QED BY <1>4, <2>1, <2>2
<1> QED BY <1>3, <1>4, <1>5 DEF PoolExact

(* Sound trees are owned: the tables of a space are those named for it.     *)
LEMMA InvOwned == IInv => TablesOwned
<1> SUFFICES ASSUME IInv PROVE TablesOwned
  OBVIOUS
<1>1. TreesOK(tbl)
  BY DEF IInv, MemInv, Sound, mm
<1>2. PoolExact
  BY InvPool
<1>3. /\ \A t \in DOMAIN tbl, i \in Slots : tbl[t][i] \in Ends \cup DOMAIN tbl \cup Phys
      /\ \A t \in DOMAIN tbl, i \in Slots : tbl[t][i] = Zero => oom
  <2>1. oom \/ NoZero(tbl)
    BY DEF IInv, MemInv, Sound, mm
  <2> QED BY <1>1, <2>1 DEF TreesOK, Shape, NoZero
<1>4. ASSUME NEW s \in Live PROVE s \in Tasks /\ Root(s) \in DOMAIN tbl /\ OwnTables(s) = Own(tbl, s) /\ s # Kernel
  <2>1. s \in Tasks /\ Root(s) \in DOMAIN tbl
    BY DEF Live
  <2> QED BY <2>1, <1>1, OwnTablesAre, SpacesNat
<1>5. KernelTables = Own(tbl, Kernel)
  BY <1>1, KernelTablesAre
<1>6. \A s, u \in Live : s # u => OwnTables(s) \cap OwnTables(u) = {}
  BY <1>4 DEF Own
<1>7. \A s \in Live : OwnTables(s) \cap KernelTables = {}
  BY <1>4, <1>5 DEF Own
<1>8. KernelTables \cup UNION {OwnTables(s) : s \in Live} = DOMAIN tbl
  <2>1. ASSUME NEW t \in DOMAIN tbl PROVE t \in KernelTables \/ \E s \in Live : t \in OwnTables(s)
    <3>1. t[1] \in Spaces /\ Root(t[1]) \in DOMAIN tbl
      BY <1>1, HasRoot
    <3>2. CASE t[1] = Kernel
      BY <3>2, <1>5 DEF Own
    <3>3. CASE t[1] # Kernel
      <4>1. t[1] \in Live
        BY <3>1, <3>3 DEF Spaces, Live
      <4> QED BY <4>1, <1>4 DEF Own
    <3> QED BY <3>2, <3>3
  <2>2. KernelTables \subseteq DOMAIN tbl /\ \A s \in Live : OwnTables(s) \subseteq DOMAIN tbl
    BY <1>4, <1>5 DEF Own
  <2> QED BY <2>1, <2>2
<1>9. \A t \in Live, i \in Upper \ {Top} : tbl[Root(t)][i] \in {Nil, tbl[Root(Kernel)][i]}
  <2>1. ASSUME NEW t \in Live, NEW i \in Upper \ {Top} PROVE tbl[Root(t)][i] \in {Nil, tbl[Root(Kernel)][i]}
    <3>1. i \in OwnSlots(Kernel) /\ i \in Slots /\ i \notin OwnSlots(t) /\ t \in Spaces
      BY <1>4, OwnSlotsAre
    <3> QED BY <3>1, <1>1, <1>4, RootIs
  <2> QED BY <2>1
<1> QED BY <1>2, <1>3, <1>6, <1>7, <1>8, <1>9 DEF TablesOwned

-----------------------------------------------------------------------------
(* The steps                                                                *)

(* What becomes of the memory is sound.                                     *)
LEMMA MemStep ==
  ASSUME MemInv, NEW m, SetMM(m), Sound(m), AllPages(m) = AllPages(mm)
  PROVE  MemInv' /\ tbl' = m.tbl /\ oom' = m.oom
<1>1. /\ mm'.tbl = m.tbl /\ mm'.pool = m.pool /\ mm'.cnt = m.cnt /\ mm'.buddy = m.buddy /\ mm'.oom = m.oom
      /\ IsMem(mm') /\ tbl' = m.tbl /\ oom' = m.oom
  BY DEF SetMM, mm, IsMem
<1>2. Sound(mm')
  BY <1>1 DEF Sound, PoolOK
<1>3. AllPages(mm') = AllPages(m)
  BY <1>1 DEF AllPages, Pages
<1> QED BY <1>1, <1>2, <1>3 DEF MemInv

(* Nothing but entries changes.                                             *)
LEMMA EntryStep ==
  ASSUME MemInv, UNCHANGED <<pool, cacheSize, buddy, oom>>, TreesOK(tbl'), DOMAIN tbl' = DOMAIN tbl,
         NoZero(tbl) => NoZero(tbl')
  PROVE  MemInv'
<1> DEFINE m == [mm EXCEPT !.tbl = tbl', !.page0 = page0']
<1>1. /\ m.tbl = tbl' /\ m.pool = mm.pool /\ m.cnt = mm.cnt /\ m.buddy = mm.buddy /\ m.oom = mm.oom
      /\ IsMem(m) /\ mm.tbl = tbl
  BY DEF mm, IsMem
<1>2. SetMM(m)
  BY DEF SetMM, mm
<1> HIDE DEF m
<1>3. Sound(m)
  BY <1>1 DEF MemInv, Sound, PoolOK
<1>4. AllPages(m) = AllPages(mm)
  BY <1>1 DEF AllPages, Pages
<1> QED BY <1>2, <1>3, <1>4, MemStep

(* An address is mapped.                                                    *)
LEMMA MapStep ==
  ASSUME MemInv, NEW s \in Spaces, Root(s) \in DOMAIN tbl, NEW a \in Addr, a[1] \in OwnSlots(s),
         NEW pa \in Phys, SetMM(Map(mm, s, a, pa))
  PROVE  /\ MemInv' /\ SameRoots(tbl, tbl') /\ (oom => oom')
         /\ oom' = oom => SameView(tbl, tbl') \/ Changed(tbl, tbl', s, a, pa)
<1> DEFINE n == Map(mm, s, a, pa)
<1>1. Sound(mm) /\ mm.tbl = tbl /\ mm.oom = oom
  BY DEF MemInv, mm
<1>2. n = Map(mm, s, a, pa)
  OBVIOUS
<1> HIDE DEF n
<1>3. Root(s) \in DOMAIN mm.tbl
  BY <1>1
<1>4. /\ Sound(n) /\ AllPages(n) = AllPages(mm) /\ SameRoots(mm.tbl, n.tbl) /\ (mm.oom => n.oom)
      /\ n.oom = mm.oom => SameView(mm.tbl, n.tbl) \/ Changed(mm.tbl, n.tbl, s, a, pa)
  BY <1>1, <1>2, <1>3, MapOK
<1>5. SetMM(n)
  BY <1>2
<1>6. MemInv' /\ tbl' = n.tbl /\ oom' = n.oom
  BY <1>4, <1>5, MemStep
<1> QED BY <1>1, <1>4, <1>6

(* The kernel's root is always there.                                       *)
LEMMA KernelRoot ==
  ASSUME MemInv
  PROVE  Kernel \in Spaces /\ Root(Kernel) \in DOMAIN tbl /\ TreesOK(tbl)
  BY SpacesNat DEF MemInv, Sound, TreesOK, Shape, mm

(* Task_mapKrlPage                                                          *)
LEMMA MapKrlPageStep ==
  ASSUME IInv, NEW a \in KernelAddrs, NEW pa \in Phys, MapKrlPage(a, pa)
  PROVE  IInv' /\ (oom' = oom => SameView(tbl, tbl') \/ Changed(tbl, tbl', Kernel, a, pa))
<1>1. MemInv /\ StageInv
  BY DEF IInv
<1>2. /\ MemInv' /\ SameRoots(tbl, tbl') /\ (oom => oom')
      /\ oom' = oom => SameView(tbl, tbl') \/ Changed(tbl, tbl', Kernel, a, pa)
  <2>1. a \in Addr /\ a[1] \in OwnSlots(Kernel) /\ SetMM(Map(mm, Kernel, a, pa))
    BY AddrsAre DEF MapKrlPage
  <2> QED BY <1>1, <2>1, KernelRoot, MapStep
<1>3. \A t \in Tasks : Root(t) \in DOMAIN tbl' <=> Root(t) \in DOMAIN tbl
  BY <1>2 DEF SameRoots, Spaces
<1>4. StageInv'
  BY <1>1, <1>2, <1>3 DEF MapKrlPage, StageInv
<1> QED BY <1>2, <1>4 DEF IInv

(* Task_unmapKrlPage                                                        *)
LEMMA UnmapKrlPageStep ==
  ASSUME IInv, NEW a \in KernelAddrs, UnmapKrlPage(a)
  PROVE  IInv' /\ (tbl' = tbl \/ Changed(tbl, tbl', Kernel, a, Nil))
<1> DEFINE w == Walk(tbl, Kernel, a)
<1>1. MemInv /\ StageInv /\ TreesOK(tbl) /\ Kernel \in Spaces /\ Root(Kernel) \in DOMAIN tbl
  BY KernelRoot DEF IInv
<1>2. a \in Addr /\ a[1] \in OwnSlots(Kernel) /\ Source(Kernel, a) = Kernel
  BY AddrsAre DEF Source
<1>3. w \notin {Nil, Big} /\ IF w = Zero THEN tbl' = tbl ELSE tbl' = [tbl EXCEPT ![w][a[4]] = Nil]
  BY DEF UnmapKrlPage
<1>4. UNCHANGED <<pool, cacheSize, buddy, oom, stage>>
  BY DEF UnmapKrlPage
<1>5. CASE w = Zero
  <2>1. tbl' = tbl
    BY <1>3, <1>5
  <2>2. MemInv'
    BY <1>1, <1>4, <2>1, EntryStep
  <2>3. StageInv'
    BY <1>1, <1>4, <2>1 DEF StageInv
  <2> QED BY <2>1, <2>2, <2>3 DEF IInv
<1>6. CASE w # Zero
  <2>1. w = Leaf(Kernel, a) /\ w \in DOMAIN tbl
    BY <1>1, <1>2, <1>3, <1>6, WalkName
  <2> HIDE DEF w
  <2>2. TreesOK(tbl') /\ DOMAIN tbl' = DOMAIN tbl /\ Changed(tbl, tbl', Kernel, a, Nil) /\ (NoZero(tbl) => NoZero(tbl'))
    <3>1. Leaf(Kernel, a) \in DOMAIN tbl /\ LeafWritten(tbl, Kernel, a, Nil, tbl') /\ Nil \in Phys \cup {Nil}
      BY <1>3, <1>6, <2>1 DEF LeafWritten
    <3> QED BY <1>1, <1>2, <3>1, WriteLeaf
  <2>3. MemInv'
    BY <1>1, <1>4, <2>2, EntryStep
  <2>4. StageInv'
    BY <1>1, <1>4, <2>2 DEF StageInv
  <2> QED BY <2>2, <2>3, <2>4 DEF IInv
<1> QED BY <1>5, <1>6

(* A task maps an address of its own half, or its root is page 0.           *)
LEMMA UserMapStep ==
  ASSUME IInv, NEW t \in Tasks, NEW a \in UserAddrs, NEW pa \in Phys, SetMM(Map(mm, t, a, pa))
  PROVE  /\ MemInv' /\ (oom => oom')
         /\ oom' = oom => SameView(tbl, tbl') \/ (Root(t) \in DOMAIN tbl /\ Changed(tbl, tbl', t, a, pa))
         /\ \A r \in Tasks : Root(r) \in DOMAIN tbl' <=> Root(r) \in DOMAIN tbl
<1>1. MemInv /\ t \in Spaces /\ mm.tbl = tbl /\ mm.oom = oom /\ Sound(mm)
  BY OwnSlotsAre DEF IInv, MemInv, mm
<1>2. CASE Root(t) \in DOMAIN tbl
  <2>1. a \in Addr /\ a[1] \in OwnSlots(t)
    BY AddrsAre, OwnSlotsAre
  <2>2. /\ MemInv' /\ SameRoots(tbl, tbl') /\ (oom => oom')
        /\ oom' = oom => SameView(tbl, tbl') \/ Changed(tbl, tbl', t, a, pa)
    BY <1>1, <1>2, <2>1, MapStep
  <2> QED BY <1>2, <2>2 DEF SameRoots, Spaces
<1>3. CASE Root(t) \notin DOMAIN tbl
  <2>1. Map(mm, t, a, pa) = mm
    BY <1>1, <1>3, MapZero
  <2>2. SetMM(mm)
    BY <2>1
  <2>3. MemInv' /\ tbl' = tbl /\ oom' = oom
    BY <1>1, <2>2, MemStep
  <2> QED BY <2>3 DEF SameView
<1> QED BY <1>2, <1>3

(* The first mapping of a task                                              *)
LEMMA InitPageStep ==
  ASSUME IInv, NEW t \in Tasks, NEW pa \in Phys, InitPage(t, pa)
  PROVE  /\ IInv'
         /\ oom' = oom => SameView(tbl, tbl') \/ (Root(t) \in DOMAIN tbl /\ Changed(tbl, tbl', t, UserStack, pa))
<1>1. stage[t] = "created" /\ SetMM(Map(mm, t, UserStack, pa)) /\ UserStack \in UserAddrs
  BY AddrsAre DEF InitPage
<1>2. /\ MemInv' /\ (oom => oom')
      /\ oom' = oom => SameView(tbl, tbl') \/ (Root(t) \in DOMAIN tbl /\ Changed(tbl, tbl', t, UserStack, pa))
      /\ \A r \in Tasks : Root(r) \in DOMAIN tbl' <=> Root(r) \in DOMAIN tbl
  BY <1>1, UserMapStep
<1>3. StageInv'
  <2>1. PICK s \in {"halted", "sync", "user"} : stage' = [stage EXCEPT ![t] = s]
    BY DEF InitPage
  <2> QED BY <1>1, <1>2, <2>1 DEF IInv, StageInv
<1> QED BY <1>2, <1>3 DEF IInv

(* A page fault of a task                                                   *)
LEMMA StackFaultStep ==
  ASSUME IInv, NEW t \in Tasks, NEW a \in UserAddrs, NEW pa \in Phys, StackFault(t, a, pa)
  PROVE  /\ IInv'
         /\ oom' = oom => SameView(tbl, tbl') \/ (Root(t) \in DOMAIN tbl /\ Changed(tbl, tbl', t, a, pa))
<1>1. stage[t] = "user" /\ SetMM(Map(mm, t, a, pa))
  BY DEF StackFault
<1>2. /\ MemInv' /\ (oom => oom')
      /\ oom' = oom => SameView(tbl, tbl') \/ (Root(t) \in DOMAIN tbl /\ Changed(tbl, tbl', t, a, pa))
      /\ \A r \in Tasks : Root(r) \in DOMAIN tbl' <=> Root(r) \in DOMAIN tbl
  BY <1>1, UserMapStep
<1>3. StageInv'
  <2>1. PICK s \in {"halted", "user"} : stage' = [stage EXCEPT ![t] = s]
    BY <1>1 DEF StackFault
  <2> QED BY <1>1, <1>2, <2>1 DEF IInv, StageInv
<1> QED BY <1>2, <1>3 DEF IInv

(* The root of a task is a copy of the kernel's, or nothing has changed.    *)
RootCopied(t) ==
  /\ Root(t) \notin DOMAIN tbl /\ DOMAIN tbl' = DOMAIN tbl \cup {Root(t)}
  /\ tbl' = [u \in DOMAIN tbl' |-> tbl'[u]]
  /\ tbl'[Root(t)] = tbl[Root(Kernel)] /\ \A u \in DOMAIN tbl : tbl'[u] = tbl[u]

(* The creation of a task's space                                           *)
LEMMA CreatePgdStep ==
  ASSUME IInv, NEW t \in Tasks, CreatePgd(t)
  PROVE  IInv' /\ (tbl' = tbl \/ RootCopied(t))
<1> DEFINE n == TakeTable(mm, Root(t))
           r == CopyRoot(n, t, Slots)
<1>1. MemInv /\ StageInv /\ Sound(mm) /\ mm.tbl = tbl /\ ~mm.oom /\ NoZero(tbl) /\ mm.oom = oom
  BY DEF IInv, MemInv, CreatePgd, Sound, mm
<1>2. stage[t] = "none" /\ Root(t) \notin DOMAIN tbl
  BY <1>1 DEF CreatePgd, StageInv
<1>3. SetMM(r) /\ stage' = [stage EXCEPT ![t] = "created"]
  BY DEF CreatePgd
<1>4. /\ IsMem(n) /\ PoolOK(n)
      /\ n.oom => n.tbl = tbl /\ AllPages(n) = AllPages(mm)
      /\ ~n.oom => n.tbl = WithTable(tbl, Root(t), Empty) /\ Pages(n) = Pages(mm) - 1
  <2>1. Root(t) \notin DOMAIN mm.tbl
    BY <1>1, <1>2
  <2> QED BY <1>1, <2>1, TakeTableIs
<1>5. CASE n.oom
  <2>1. PICK P : r = [n EXCEPT !.page0 = P]
    <3>1. Root(t) \notin DOMAIN n.tbl
      BY <1>2, <1>4, <1>5
    <3> HIDE DEF n
    <3> QED BY <3>1 DEF CopyRoot
  <2> HIDE DEF n, r
  <2>2. /\ IsMem(r) /\ r.tbl = tbl /\ r.pool = n.pool /\ r.cnt = n.cnt /\ r.buddy = n.buddy /\ r.oom
    BY <2>1, <1>4, <1>5 DEF IsMem
  <2>3. Sound(r)
    BY <1>1, <1>4, <2>2 DEF Sound, PoolOK
  <2>4. AllPages(r) = AllPages(mm)
    <3>1. AllPages(r) = AllPages(n)
      BY <1>4, <1>5, <2>2 DEF AllPages, Pages
    <3> QED BY <3>1, <1>4, <1>5
  <2>5. MemInv' /\ tbl' = tbl /\ oom'
    BY <1>1, <1>3, <2>2, <2>3, <2>4, MemStep
  <2>6. StageInv'
    BY <1>1, <1>2, <1>3, <2>5 DEF StageInv
  <2> QED BY <2>5, <2>6 DEF IInv
<1>6. CASE ~n.oom
  <2>1. n.tbl = WithTable(tbl, Root(t), Empty)
    BY <1>4, <1>6
  <2> DEFINE K == n.tbl[Root(Kernel)]
  <2>2. Root(t) \in DOMAIN n.tbl /\ Root(Kernel) # Root(t) /\ K = tbl[Root(Kernel)] /\ K = [i \in Slots |-> K[i]]
    <3>1. Root(Kernel) # Root(t)
      BY OwnSlotsAre, SpacesNat, RootName
    <3>2. Root(Kernel) \in DOMAIN tbl /\ tbl[Root(Kernel)] = [i \in Slots |-> tbl[Root(Kernel)][i]]
      BY <1>1 DEF Sound, TreesOK, Shape
    <3> HIDE DEF n
    <3> QED BY <2>1, <3>1, <3>2 DEF WithTable
  <2>3. r = [n EXCEPT !.tbl[Root(t)] = K]
    <3> HIDE DEF n
    <3>1. r = [n EXCEPT !.tbl[Root(t)] = [i \in Slots |-> K[i]]]
      BY <2>2 DEF CopyRoot
    <3> HIDE DEF r, K
    <3> QED BY <2>2, <3>1, Zenon
  <2> HIDE DEF n, r, K
  <2>4. /\ IsMem(r) /\ r.tbl = [n.tbl EXCEPT ![Root(t)] = tbl[Root(Kernel)]] /\ r.pool = n.pool /\ r.cnt = n.cnt
        /\ r.buddy = n.buddy /\ r.oom = n.oom
    BY <1>4, <2>2, <2>3 DEF IsMem
  <2> DEFINE T == r.tbl
  <2>5. /\ DOMAIN T = DOMAIN tbl \cup {Root(t)} /\ T = [u \in DOMAIN T |-> T[u]]
        /\ T[Root(t)] = tbl[Root(Kernel)] /\ \A u \in DOMAIN tbl : T[u] = tbl[u]
    BY <1>2, <2>1, <2>4 DEF WithTable
  <2> HIDE DEF T
  <2>6. TreesOK(T) /\ NoZero(T)
    <3>1. TreesOK(tbl) /\ Root(Kernel) \in DOMAIN tbl
      BY <1>1, KernelRoot
    <3>2. NoZero(T)
      BY <1>1, <2>5, <3>1 DEF NoZero
    <3> QED BY <1>2, <2>5, <3>1, <3>2, NewRoot
  <2>7. Sound(r)
    <3>1. PoolOK(r)
      BY <2>4, <1>4, <1>6 DEF PoolOK
    <3> QED BY <2>4, <2>6, <3>1 DEF Sound, T
  <2>8. AllPages(r) = AllPages(mm)
    <3>1. Pages(r) = Pages(mm) - 1
      BY <2>4, <1>4, <1>6 DEF Pages
    <3>2. Pages(mm) \in Nat /\ Cardinality(DOMAIN tbl) \in Nat /\ IsFiniteSet(DOMAIN tbl)
      BY <1>1, AllPagesNat
    <3>3. Cardinality(DOMAIN T) = Cardinality(DOMAIN tbl) + 1
      BY <1>2, <2>5, <3>2, FS_AddElement
    <3> QED BY <1>1, <3>1, <3>2, <3>3 DEF AllPages, T
  <2>9. MemInv' /\ tbl' = T /\ ~oom'
    BY <1>1, <1>3, <1>6, <2>4, <2>7, <2>8, MemStep DEF T
  <2>10. StageInv'
    <3>1. ASSUME NEW s \in Tasks, s # t PROVE Root(s) \in DOMAIN tbl' <=> Root(s) \in DOMAIN tbl
      <4>1. Root(s) # Root(t)
        BY <3>1, OwnSlotsAre, RootName
      <4> QED BY <2>5, <2>9, <4>1
    <3>2. Root(t) \in DOMAIN tbl' /\ ~oom
      BY <1>1, <2>5, <2>9
    <3> QED BY <1>1, <1>3, <3>1, <3>2 DEF StageInv
  <2>11. RootCopied(t)
    BY <1>2, <2>5, <2>9 DEF RootCopied
  <2> QED BY <2>9, <2>10, <2>11 DEF IInv
<1> QED BY <1>5, <1>6

(* A task's root has taken the upper half of the kernel's.                  *)
RootSynced(t) ==
  /\ DOMAIN tbl' = DOMAIN tbl /\ Root(t) \in DOMAIN tbl
  /\ \A i \in Slots : tbl'[Root(t)][i] = IF i \in Upper THEN tbl[Root(Kernel)][i] ELSE tbl[Root(t)][i]
  /\ \A u \in DOMAIN tbl \ {Root(t)} : tbl'[u] = tbl[u]

(* Task_syncKrlPageTable                                                    *)
LEMMA SyncCopyStep ==
  ASSUME IInv, NEW t \in Tasks, SyncCopy(t)
  PROVE  IInv' /\ (tbl' = tbl \/ RootSynced(t))
<1>1. MemInv /\ StageInv /\ TreesOK(tbl)
  BY KernelRoot DEF IInv
<1>2. SetMM(CopyRoot(mm, t, Upper)) /\ stage[t] = "sync" /\ stage' = [stage EXCEPT ![t] = "user"]
  BY DEF SyncCopy
<1>3. CASE Root(t) \notin DOMAIN tbl
  <2>1. UNCHANGED <<tbl, pool, cacheSize, buddy, oom>>
    BY <1>2, <1>3 DEF SetMM, CopyRoot, mm
  <2>2. MemInv'
    BY <1>1, <2>1, EntryStep
  <2>3. StageInv'
    BY <1>1, <1>2, <2>1 DEF StageInv
  <2> QED BY <2>1, <2>2, <2>3 DEF IInv
<1>4. CASE Root(t) \in DOMAIN tbl
  <2> DEFINE E == [i \in Slots |-> tbl[Root(IF i \in Upper THEN Kernel ELSE t)][i]]
             T == tbl'
  <2>1. tbl' = [tbl EXCEPT ![Root(t)] = E] /\ UNCHANGED <<pool, cacheSize, buddy, oom>>
    <3>1. tbl' = [tbl EXCEPT ![Root(t)] = [i \in Slots |-> IF i \in Upper THEN tbl[Root(Kernel)][i] ELSE @[i]]]
          /\ UNCHANGED <<pool, cacheSize, buddy, oom>>
      BY <1>2, <1>4 DEF SetMM, CopyRoot, mm
    <3>2. E = [i \in Slots |-> IF i \in Upper THEN tbl[Root(Kernel)][i] ELSE tbl[Root(t)][i]]
      OBVIOUS
    <3> HIDE DEF E
    <3> QED BY <3>1, <3>2
  <2>2. /\ DOMAIN T = DOMAIN tbl /\ T = [u \in DOMAIN T |-> T[u]] /\ T[Root(t)] = E
        /\ \A u \in DOMAIN tbl \ {Root(t)} : T[u] = tbl[u]
    <3>1. tbl = [u \in DOMAIN tbl |-> tbl[u]]
      BY <1>1 DEF TreesOK, Shape
    <3> HIDE DEF E
    <3> QED BY <1>4, <2>1, <3>1
  <2> HIDE DEF T
  <2>3. TreesOK(T)
    BY <1>1, <1>4, <2>2, SyncTrees
  <2>4. \A i \in Slots : T[Root(t)][i] = IF i \in Upper THEN tbl[Root(Kernel)][i] ELSE tbl[Root(t)][i]
    BY <2>2
  <2>5. NoZero(tbl) => NoZero(T)
    <3>1. Root(Kernel) \in DOMAIN tbl
      BY <1>1, KernelRoot
    <3> HIDE DEF E
    <3> QED BY <1>4, <2>2, <2>4, <3>1 DEF NoZero
  <2>6. MemInv'
    BY <1>1, <2>1, <2>2, <2>3, <2>5, EntryStep DEF T
  <2>7. StageInv'
    BY <1>1, <1>2, <1>4, <2>1, <2>2 DEF StageInv, T
  <2>8. RootSynced(t)
    BY <1>4, <2>2, <2>4 DEF RootSynced, T
  <2> QED BY <2>6, <2>7, <2>8 DEF IInv
<1> QED BY <1>3, <1>4

(* The tables of a task are gone, the others as before.                     *)
RootGone(t) ==
  /\ Root(t) \in DOMAIN tbl /\ DOMAIN tbl' = DOMAIN tbl \ Own(tbl, t)
  /\ \A u \in DOMAIN tbl' : tbl'[u] = tbl[u]

(* The recycling of a task's space                                          *)
LEMMA RecycleStep ==
  ASSUME IInv, NEW t \in Tasks, Recycle(t)
  PROVE  IInv' /\ RootGone(t) /\ TreesOK(tbl')
<1>1. MemInv /\ StageInv /\ TreesOK(tbl) /\ Sound(mm) /\ mm.tbl = tbl /\ ~oom /\ NoZero(tbl) /\ ~mm.oom
  BY KernelRoot DEF IInv, MemInv, Recycle, Sound, mm
<1>2. stage[t] = "user" /\ Root(t) \in DOMAIN tbl /\ t \in Spaces
  BY <1>1, OwnSlotsAre DEF Recycle, StageInv
<1> DEFINE U == Own(tbl, t)
           n == FreeTables(mm, U)
           T == n.tbl
<1>3. SetMM(n)
  BY <1>1, <1>2, OwnTablesAre DEF Recycle, CleanMap
<1>4. IsFiniteSet(DOMAIN tbl) /\ IsFiniteSet(U) /\ U \subseteq DOMAIN tbl
  <2>1. IsFiniteSet(DOMAIN tbl) /\ U \subseteq DOMAIN tbl
    BY <1>1 DEF TreesOK, Shape, Own
  <2> HIDE DEF U
  <2> QED BY <2>1, FS_Subset
<1>5. /\ IsMem(n) /\ PoolOK(n) /\ n.tbl = [u \in DOMAIN tbl \ U |-> tbl[u]]
      /\ Pages(n) = Pages(mm) + Cardinality(U)
  <2>1. IsMem(mm) /\ PoolOK(mm) /\ n = FreeTables(mm, U)
    BY <1>1 DEF Sound
  <2> HIDE DEF U, n
  <2> QED BY <1>1, <1>4, <2>1, FreeTablesOK, SMTT(30)
<1> HIDE DEF n
<1>6. DOMAIN T = DOMAIN tbl \ U /\ T = [u \in DOMAIN T |-> tbl[u]] /\ \A u \in DOMAIN T : T[u] = tbl[u]
  <2> HIDE DEF U
  <2> QED BY <1>5
<1> HIDE DEF T
<1>7. TreesOK(T)
  <2>1. U = {u \in DOMAIN tbl : u[1] = t}
    BY DEF Own
  <2> HIDE DEF U
  <2> QED BY <1>1, <1>6, <2>1, CleanTrees
<1>8. Sound(n)
  <2>1. NoZero(T)
    BY <1>1, <1>6 DEF NoZero
  <2> QED BY <1>5, <1>7, <2>1 DEF Sound, T
<1>9. AllPages(n) = AllPages(mm)
  <2>1. Pages(mm) \in Nat /\ Cardinality(DOMAIN tbl) \in Nat /\ Cardinality(U) \in Nat /\ Cardinality(DOMAIN T) \in Nat
    <3>1. IsFiniteSet(DOMAIN T)
      BY <1>7 DEF TreesOK, Shape
    <3> HIDE DEF U
    <3> QED BY <3>1, <1>1, <1>4, AllPagesNat, FS_CardinalityType
  <2>2. Cardinality(DOMAIN tbl) = Cardinality(DOMAIN T) + Cardinality(U)
    <3>1. IsFiniteSet(DOMAIN T)
      BY <1>7 DEF TreesOK, Shape
    <3>2. DOMAIN T \cup U = DOMAIN tbl /\ DOMAIN T \cap U = {}
      BY <1>4, <1>6
    <3> HIDE DEF U
    <3>3. Cardinality(DOMAIN T \cup U) = Cardinality(DOMAIN T) + Cardinality(U)
      <4> DEFINE D == DOMAIN T
      <4>1. IsFiniteSet(D) /\ IsFiniteSet(U) /\ D \cap U = {}
        BY <3>1, <3>2, <1>4
      <4> HIDE DEF D
      <4>2. Cardinality(D \cup U) = Cardinality(D) + Cardinality(U) - Cardinality(D \cap U)
        BY <4>1, FS_Union
      <4>3. Cardinality(D \cap U) = 0 /\ Cardinality(D) \in Nat /\ Cardinality(U) \in Nat
        BY <4>1, FS_EmptySet, FS_CardinalityType
      <4>4. Cardinality(D \cup U) = Cardinality(D) + Cardinality(U)
        BY <4>2, <4>3
      <4> QED BY <4>4 DEF D
    <3> QED BY <3>2, <3>3
  <2> HIDE DEF U
  <2> QED BY <2>1, <2>2, <1>1, <1>5 DEF AllPages, T
<1>10. MemInv' /\ tbl' = T
  BY <1>1, <1>3, <1>8, <1>9, MemStep DEF T
<1>11. StageInv'
  <2>1. stage' = [stage EXCEPT ![t] = "none"]
    BY DEF Recycle
  <2>2. ASSUME NEW s \in Tasks, s # t PROVE Root(s) \in DOMAIN T <=> Root(s) \in DOMAIN tbl
    <3>1. Root(s)[1] = s
      BY OwnSlotsAre, RootName
    <3> QED BY <2>2, <3>1, <1>6 DEF Own
  <2>3. Root(t) \notin DOMAIN T
    <3>1. Root(t)[1] = t
      BY <1>2, RootName
    <3> QED BY <3>1, <1>6 DEF Own
  <2> QED BY <1>1, <1>10, <2>1, <2>2, <2>3 DEF StageInv
<1>12. RootGone(t)
  BY <1>2, <1>6, <1>10 DEF RootGone
<1> QED BY <1>7, <1>10, <1>11, <1>12 DEF IInv

(* Every step keeps the invariant.                                          *)
LEMMA StepInv == IInv /\ [Next]_vars => IInv'
<1> SUFFICES ASSUME IInv, [Next]_vars PROVE IInv'
  OBVIOUS
<1>1. ASSUME NEW a \in KernelAddrs, NEW pa \in Phys, MapKrlPage(a, pa) PROVE IInv'
  BY <1>1, MapKrlPageStep
<1>2. ASSUME NEW a \in KernelAddrs, UnmapKrlPage(a) PROVE IInv'
  BY <1>2, UnmapKrlPageStep
<1>3. ASSUME NEW t \in Tasks, CreatePgd(t) PROVE IInv'
  BY <1>3, CreatePgdStep
<1>4. ASSUME NEW t \in Tasks, SyncCopy(t) PROVE IInv'
  BY <1>4, SyncCopyStep
<1>5. ASSUME NEW t \in Tasks, Recycle(t) PROVE IInv'
  BY <1>5, RecycleStep
<1>6. ASSUME NEW t \in Tasks, NEW pa \in Phys, InitPage(t, pa) PROVE IInv'
  BY <1>6, InitPageStep
<1>7. ASSUME NEW t \in Tasks, NEW a \in UserAddrs, NEW pa \in Phys, StackFault(t, a, pa) PROVE IInv'
  BY <1>7, StackFaultStep
<1>8. CASE UNCHANGED vars
  <2>1. MemInv /\ TreesOK(tbl) /\ UNCHANGED <<tbl, pool, cacheSize, buddy, oom>>
    BY <1>8, KernelRoot DEF vars, IInv
  <2>2. MemInv'
    BY <2>1, EntryStep
  <2>3. StageInv'
    BY <1>8 DEF vars, IInv, StageInv
  <2> QED BY <2>2, <2>3 DEF IInv
<1> QED BY <1>1, <1>2, <1>3, <1>4, <1>5, <1>6, <1>7, <1>8 DEF Next

(* Always the pool's counter is right, the pool is neither empty nor over   *)
(* its array, and no page is lost but the one of a refill that failed.      *)
THEOREM PoolIsExact == Spec => []PoolExact
<1>1. Spec => []IInv
  BY InitInv, StepInv, PTL DEF Spec
<1> QED BY <1>1, InvPool, PTL

(* Always a table belongs to one space, and no entry leads to a page that   *)
(* is not one of its space's or, in a task's upper half, of the kernel's.   *)
THEOREM TablesAreOwned == Spec => []TablesOwned
<1>1. Spec => []IInv
  BY InitInv, StepInv, PTL DEF Spec
<1> QED BY <1>1, InvOwned, PTL

-----------------------------------------------------------------------------
(* The trees implement AddressSpaces.                                       *)

Addrs == UserAddrs \cup KernelAddrs

(* A function on the addresses is not the view of a space that does not     *)
(* exist.                                                                   *)
LEMMA AddrsFacts ==
  /\ Addrs \subseteq Addr /\ UserStack \in Addrs /\ <<>> # [a \in Addrs |-> Nil]
  /\ \A f : DOMAIN f = Addrs => f # Nil
<1>1. Addrs \subseteq Addr /\ UserStack \in Addrs
  BY AddrsAre DEF Addrs
<1>2. DOMAIN Nil = {}
  BY DEF Nil
<1>3. \A f : DOMAIN f = Addrs => f # Nil
  BY <1>1, <1>2
<1> QED BY <1>1, <1>3 DEF Nil

(* The view of each space                                                   *)
LEMMA ViewIs ==
  /\ DOMAIN View = Spaces /\ View = [s \in Spaces |-> View[s]]
  /\ \A s \in Spaces : Root(s) \notin DOMAIN tbl => View[s] = Nil
  /\ \A s \in Spaces : Root(s) \in DOMAIN tbl =>
       /\ View[s] = [a \in Addrs |-> PldEntry(tbl, s, a)] /\ View[s] # Nil
       /\ \A a \in Addrs : View[s][a] = PldEntry(tbl, s, a)
<1>1. DOMAIN View = Spaces /\ View = [s \in Spaces |-> View[s]]
  BY DEF View
<1>2. \A s \in Spaces : Root(s) \notin DOMAIN tbl => View[s] = Nil
  BY DEF View
<1>3. ASSUME NEW s \in Spaces, Root(s) \in DOMAIN tbl
      PROVE  /\ View[s] = [a \in Addrs |-> PldEntry(tbl, s, a)] /\ View[s] # Nil
             /\ \A a \in Addrs : View[s][a] = PldEntry(tbl, s, a)
  <2>1. View[s] = [a \in Addrs |-> PldEntry(tbl, s, a)]
    BY <1>3 DEF View, Addrs
  <2>2. DOMAIN View[s] = Addrs
    BY <2>1
  <2> QED BY <2>1, <2>2, AddrsFacts
<1> QED BY <1>1, <1>2, <1>3

(* The same after a step                                                    *)
LEMMA ViewIsThen ==
  /\ DOMAIN View' = Spaces /\ View' = [s \in Spaces |-> View'[s]]
  /\ \A s \in Spaces : Root(s) \notin DOMAIN tbl' => View'[s] = Nil
  /\ \A s \in Spaces : Root(s) \in DOMAIN tbl' =>
       /\ View'[s] = [a \in Addrs |-> PldEntry(tbl', s, a)] /\ View'[s] # Nil
       /\ \A a \in Addrs : View'[s][a] = PldEntry(tbl', s, a)
<1>1. DOMAIN View' = Spaces /\ View' = [s \in Spaces |-> View'[s]]
  BY DEF View
<1>2. \A s \in Spaces : Root(s) \notin DOMAIN tbl' => View'[s] = Nil
  BY DEF View
<1>3. ASSUME NEW s \in Spaces, Root(s) \in DOMAIN tbl'
      PROVE  /\ View'[s] = [a \in Addrs |-> PldEntry(tbl', s, a)] /\ View'[s] # Nil
             /\ \A a \in Addrs : View'[s][a] = PldEntry(tbl', s, a)
  <2>1. View'[s] = [a \in Addrs |-> PldEntry(tbl', s, a)]
    BY <1>3 DEF View, Addrs
  <2>2. DOMAIN View'[s] = Addrs
    BY <2>1
  <2> QED BY <2>1, <2>2, AddrsFacts
<1> QED BY <1>1, <1>2, <1>3

(* What an address of a sound tree is mapped to                             *)
LEMMA PldValue ==
  ASSUME NEW T, TreesOK(T), NEW s \in Spaces, Root(s) \in DOMAIN T, NEW a \in Addr
  PROVE  PldEntry(T, s, a) \in Phys \cup Ends
<1>1. Walk(T, s, a) \in At(T, 4) /\ a[4] \in Slots
  BY WalkIs
<1>2. CASE Walk(T, s, a) \in Ends
  BY <1>2 DEF PldEntry, Below
<1>3. CASE Walk(T, s, a) \notin Ends
  <2>1. Walk(T, s, a) \in DOMAIN T /\ Len(Walk(T, s, a)) = 4
    BY <1>1, <1>3 DEF At
  <2>2. PldEntry(T, s, a) = T[Walk(T, s, a)][a[4]]
    BY <1>3 DEF PldEntry, Below
  <2> QED BY <1>1, <2>1, <2>2 DEF TreesOK, LastEntries
<1> QED BY <1>2, <1>3

(* Trees that are alike below their roots: a walk of space s in N is one of *)
(* space r in T when their roots have the same first entry.                 *)
LEMMA WalkFrom ==
  ASSUME NEW T, TreesOK(T), NEW N, NEW s \in Spaces, NEW r \in Spaces, Root(r) \in DOMAIN T, NEW a \in Addr,
         \A t \in DOMAIN T : Len(t) # 1 => \A j \in Slots : N[t][j] = T[t][j],
         N[Root(s)][a[1]] = T[Root(r)][a[1]]
  PROVE  PldEntry(N, s, a) = PldEntry(T, r, a)
<1> DEFINE x1 == Below(T, Root(r), a[1])
           x2 == Below(T, x1, a[2])
           w  == Walk(T, r, a)
<1>1. /\ Root(r) \in At(T, 1) /\ x1 \in At(T, 2) /\ x2 \in At(T, 3) /\ w \in At(T, 4)
      /\ a[1] \in Slots /\ a[2] \in Slots /\ a[3] \in Slots /\ a[4] \in Slots
  BY WalkIs
<1>2. Root(s) \notin Ends /\ Root(r) \notin Ends
  BY RootName, NoName
<1>3. Below(N, Root(s), a[1]) = x1
  BY <1>2 DEF Below
<1>4. ASSUME NEW k \in {2, 3, 4}, NEW t \in At(T, k), NEW j \in Slots PROVE Below(N, t, j) = Below(T, t, j)
  <2>1. CASE t \in Ends
    BY <2>1 DEF Below
  <2>2. CASE t \notin Ends
    <3>1. t \in DOMAIN T /\ Len(t) = k
      BY <2>2 DEF At
    <3>2. k # 1
      OBVIOUS
    <3>3. Len(t) # 1
      BY <3>1, <3>2, Zenon
    <3> QED BY <3>1, <3>3, <2>2 DEF Below
  <2> QED BY <2>1, <2>2
<1>5. 2 \in {2, 3, 4} /\ 3 \in {2, 3, 4} /\ 4 \in {2, 3, 4}
  OBVIOUS
<1>6. Below(N, x1, a[2]) = x2
  <2> HIDE DEF x1
  <2>1. Below(N, x1, a[2]) = Below(T, x1, a[2])
    BY <1>1, <1>4, <1>5
  <2> QED BY <2>1
<1>7. Below(N, x2, a[3]) = w
  <2>1. w = Below(T, x2, a[3])
    BY DEF Walk
  <2> HIDE DEF x2, w
  <2>2. Below(N, x2, a[3]) = Below(T, x2, a[3])
    BY <1>1, <1>4, <1>5
  <2> QED BY <2>1, <2>2
<1>8. Walk(N, s, a) = w
  <2>1. Walk(N, s, a) = Below(N, Below(N, Below(N, Root(s), a[1]), a[2]), a[3])
    BY DEF Walk
  <2> HIDE DEF x1, x2, w
  <2> QED BY <2>1, <1>3, <1>6, <1>7
<1>9. PldEntry(T, r, a) = Below(T, w, a[4]) /\ PldEntry(N, s, a) = Below(N, w, a[4])
  BY <1>8 DEF PldEntry
<1> HIDE DEF w
<1>10. Below(N, w, a[4]) = Below(T, w, a[4])
  BY <1>1, <1>4, <1>5
<1> QED BY <1>9, <1>10

(* A space whose root and mappings stay has the same view.                  *)
LEMMA SameSpace ==
  ASSUME NEW s \in Spaces, Root(s) \in DOMAIN tbl' <=> Root(s) \in DOMAIN tbl,
         Root(s) \in DOMAIN tbl => \A a \in Addrs : PldEntry(tbl', s, a) = PldEntry(tbl, s, a)
  PROVE  View'[s] = View[s]
<1>1. CASE Root(s) \notin DOMAIN tbl
  BY <1>1, ViewIs, ViewIsThen
<1>2. CASE Root(s) \in DOMAIN tbl
  <2>2. View[s] = [a \in Addrs |-> PldEntry(tbl, s, a)]
    BY <1>2, ViewIs
  <2>3. View'[s] = [a \in Addrs |-> PldEntry(tbl', s, a)]
    BY <1>2, ViewIsThen
  <2> QED BY <1>2, <2>2, <2>3
<1> QED BY <1>1, <1>2

(* Where all mappings stay, the views do.                                   *)
LEMMA StepsStutter ==
  ASSUME SameView(tbl, tbl')
  PROVE  View' = View
<1>1. ASSUME NEW s \in Spaces PROVE View'[s] = View[s]
  BY SameSpace, AddrsFacts DEF SameView
<1> QED BY <1>1, ViewIs, ViewIsThen

(* A task maps an address of its own half.                                  *)
LEMMA StepsMapUser ==
  ASSUME NEW t \in Tasks, NEW a \in UserAddrs, NEW p, Root(t) \in DOMAIN tbl, Changed(tbl, tbl', t, a, p)
  PROVE  Promise!MapUser(View, View', t, a)
<1>1. t \in Spaces /\ t # Kernel /\ a[1] \in Low
  BY OwnSlotsAre, SpacesNat, AddrsAre
<1>2. Root(t) \in DOMAIN tbl'
  BY <1>1 DEF Changed
<1>3. View[t] # Nil /\ View'[t] # Nil
  BY <1>1, <1>2, ViewIs, ViewIsThen
<1>4. ASSUME NEW s \in Spaces, s # t PROVE View'[s] = View[s]
  <2>1. Source(s, a) # t
    BY <1>1, <1>4 DEF Source
  <2>2. /\ Root(s) \in DOMAIN tbl' <=> Root(s) \in DOMAIN tbl
        /\ Root(s) \in DOMAIN tbl => \A b \in Addr : PldEntry(tbl', s, b) = PldEntry(tbl, s, b)
    BY <2>1 DEF Changed
  <2> QED BY <2>2, AddrsFacts, SameSpace
<1>5. ASSUME NEW b \in Addrs, b # a PROVE View'[t][b] = View[t][b]
  <2>1. PldEntry(tbl', t, b) = PldEntry(tbl, t, b)
    BY <1>1, <1>5, AddrsFacts DEF Changed
  <2> QED BY <2>1, <1>1, <1>2, ViewIs, ViewIsThen
<1> QED BY <1>3, <1>4, <1>5, ViewIs DEF Promise!MapUser, Promise!SameBut, Promise!Addrs, Addrs

(* The kernel maps an address or removes the mapping.                       *)
LEMMA StepsMapKernel ==
  ASSUME MemInv, NEW a \in KernelAddrs, NEW p, Changed(tbl, tbl', Kernel, a, p)
  PROVE  Promise!MapKernel(View, View', a)
<1>1. a \in Addrs /\ Kernel \in Spaces /\ Root(Kernel) \in DOMAIN tbl /\ Root(Kernel) \in DOMAIN tbl'
  BY KernelRoot DEF Addrs, Changed
<1>2. View'[Kernel][a] = p
  BY <1>1, ViewIsThen DEF Changed
<1>3. ASSUME NEW s \in Spaces, View[s] = Nil PROVE View'[s] = Nil
  BY <1>3, ViewIs, ViewIsThen DEF Changed
<1>4. ASSUME NEW s \in Spaces, View[s] # Nil
      PROVE  /\ View'[s] # Nil /\ \A b \in Addrs \ {a} : View'[s][b] = View[s][b]
             /\ View'[s][a] \in {View[s][a], View'[Kernel][a]}
  <2>1. Root(s) \in DOMAIN tbl /\ Root(s) \in DOMAIN tbl'
    BY <1>4, ViewIs DEF Changed
  <2>2. \A b \in Addrs : View[s][b] = PldEntry(tbl, s, b) /\ View'[s][b] = PldEntry(tbl', s, b)
    BY <2>1, ViewIs, ViewIsThen
  <2>3. \A b \in Addrs : PldEntry(tbl', s, b) = PldEntry(tbl, s, b) \/ (b = a /\ PldEntry(tbl', s, b) = p)
    BY <2>1, AddrsFacts DEF Changed
  <2>4. View'[s] # Nil
    BY <2>1, ViewIsThen
  <2> QED BY <1>1, <1>2, <2>2, <2>3, <2>4
<1>5. SUFFICES ASSUME NEW s \in DOMAIN View
      PROVE  IF View[s] = Nil THEN View'[s] = Nil
             ELSE /\ View'[s] # Nil
                  /\ \A b \in Addrs \ {a} : View'[s][b] = View[s][b]
                  /\ View'[s][a] \in {View[s][a], View'[Kernel][a]}
  BY DEF Promise!MapKernel, Promise!Addrs, Addrs
<1> QED BY <1>3, <1>4, <1>5, ViewIs

(* A space is created as a copy of the kernel's.                            *)
LEMMA StepsCreate ==
  ASSUME MemInv, NEW t \in Tasks, RootCopied(t)
  PROVE  Promise!Create(View, View', t)
<1>1. t \in Spaces /\ t # Kernel /\ Kernel \in Spaces /\ TreesOK(tbl) /\ Root(Kernel) \in DOMAIN tbl
  BY KernelRoot, OwnSlotsAre, SpacesNat
<1>2. /\ Root(t) \notin DOMAIN tbl /\ DOMAIN tbl' = DOMAIN tbl \cup {Root(t)}
      /\ tbl'[Root(t)] = tbl[Root(Kernel)] /\ \A u \in DOMAIN tbl : tbl'[u] = tbl[u]
  BY DEF RootCopied
<1>3. \A u \in DOMAIN tbl : Len(u) # 1 => \A j \in Slots : tbl'[u][j] = tbl[u][j]
  BY <1>2
<1>4. ASSUME NEW a \in Addrs PROVE PldEntry(tbl', t, a) = PldEntry(tbl, Kernel, a)
  <2>1. a \in Addr /\ tbl'[Root(t)][a[1]] = tbl[Root(Kernel)][a[1]]
    BY <1>2, AddrsFacts
  <2> QED BY <1>1, <1>3, <2>1, WalkFrom
<1>5. ASSUME NEW s \in Spaces, s # t PROVE View'[s] = View[s]
  <2>1. Root(s) \in DOMAIN tbl' <=> Root(s) \in DOMAIN tbl
    BY <1>1, <1>2, <1>5, RootName
  <2>2. ASSUME Root(s) \in DOMAIN tbl, NEW a \in Addrs PROVE PldEntry(tbl', s, a) = PldEntry(tbl, s, a)
    <3>1. a \in Addr /\ tbl'[Root(s)][a[1]] = tbl[Root(s)][a[1]]
      BY <1>2, <2>2, AddrsFacts
    <3> QED BY <1>1, <1>3, <2>2, <3>1, WalkFrom
  <2> QED BY <2>1, <2>2, SameSpace
<1>6. View[t] = Nil /\ View'[t] = View[Kernel]
  <2>1. View[Kernel] = [a \in Addrs |-> PldEntry(tbl, Kernel, a)]
    BY <1>1, ViewIs
  <2>2. View'[t] = [a \in Addrs |-> PldEntry(tbl', t, a)]
    BY <1>1, <1>2, ViewIsThen
  <2>3. View[t] = Nil
    BY <1>1, <1>2, ViewIs
  <2> QED BY <1>4, <2>1, <2>2, <2>3
<1> QED BY <1>5, <1>6, ViewIs DEF Promise!Create, Promise!SameBut

(* A space takes over the kernel's half.                                    *)
LEMMA StepsTakeOver ==
  ASSUME MemInv, NEW t \in Tasks, RootSynced(t)
  PROVE  Promise!TakeOver(View, View', t)
<1>1. t \in Spaces /\ Kernel \in Spaces /\ TreesOK(tbl) /\ Root(Kernel) \in DOMAIN tbl
  BY KernelRoot, OwnSlotsAre
<1>2. /\ DOMAIN tbl' = DOMAIN tbl /\ Root(t) \in DOMAIN tbl
      /\ \A i \in Slots : tbl'[Root(t)][i] = IF i \in Upper THEN tbl[Root(Kernel)][i] ELSE tbl[Root(t)][i]
      /\ \A u \in DOMAIN tbl \ {Root(t)} : tbl'[u] = tbl[u]
  BY DEF RootSynced
<1>3. \A u \in DOMAIN tbl : Len(u) # 1 => \A j \in Slots : tbl'[u][j] = tbl[u][j]
  BY <1>1, <1>2, RootName
<1>4. ASSUME NEW a \in Addrs
      PROVE  PldEntry(tbl', t, a) = IF a \in KernelAddrs THEN PldEntry(tbl, Kernel, a) ELSE PldEntry(tbl, t, a)
  <2>1. a \in Addr /\ a[1] \in Slots
    BY AddrsFacts DEF Addr
  <2>2. CASE a \in KernelAddrs
    <3>1. a[1] \in Upper
      BY <2>2, AddrsAre, OwnSlotsAre
    <3>2. tbl'[Root(t)][a[1]] = tbl[Root(Kernel)][a[1]]
      BY <1>2, <2>1, <3>1
    <3>3. PldEntry(tbl', t, a) = PldEntry(tbl, Kernel, a)
      BY <1>1, <1>3, <2>1, <3>2, WalkFrom
    <3> QED BY <2>2, <3>3
  <2>3. CASE a \notin KernelAddrs
    <3>1. a[1] \notin Upper
      BY <2>3, AddrsAre, SlotsNat DEF Addrs
    <3>2. tbl'[Root(t)][a[1]] = tbl[Root(t)][a[1]]
      BY <1>2, <2>1, <3>1
    <3>3. PldEntry(tbl', t, a) = PldEntry(tbl, t, a)
      BY <1>1, <1>2, <1>3, <2>1, <3>2, WalkFrom
    <3> QED BY <2>3, <3>3
  <2> QED BY <2>2, <2>3
<1>5. ASSUME NEW s \in Spaces, s # t PROVE View'[s] = View[s]
  <2>1. Root(s) # Root(t)
    BY <1>1, <1>5, RootName
  <2>2. ASSUME Root(s) \in DOMAIN tbl, NEW a \in Addrs PROVE PldEntry(tbl', s, a) = PldEntry(tbl, s, a)
    <3>1. a \in Addr /\ tbl'[Root(s)][a[1]] = tbl[Root(s)][a[1]]
      BY <1>2, <2>1, <2>2, AddrsFacts
    <3> QED BY <1>1, <1>3, <2>2, <3>1, WalkFrom
  <2> QED BY <1>2, <2>2, SameSpace
<1>6. View[t] # Nil /\ View'[t] = [a \in Addrs |-> IF a \in KernelAddrs THEN View[Kernel][a] ELSE View[t][a]]
  <2>1. \A a \in Addrs : View[Kernel][a] = PldEntry(tbl, Kernel, a) /\ View[t][a] = PldEntry(tbl, t, a)
    BY <1>1, <1>2, ViewIs
  <2>2. View'[t] = [a \in Addrs |-> PldEntry(tbl', t, a)]
    BY <1>1, <1>2, ViewIsThen
  <2>3. View[t] # Nil
    BY <1>1, <1>2, ViewIs
  <2> QED BY <1>4, <2>1, <2>2, <2>3
<1> QED BY <1>5, <1>6, ViewIs DEF Promise!TakeOver, Promise!SameBut, Promise!Addrs, Addrs

(* A space is deleted.                                                      *)
LEMMA StepsDelete ==
  ASSUME NEW t \in Tasks, RootGone(t), TreesOK(tbl')
  PROVE  Promise!Delete(View, View', t)
<1>1. t \in Spaces /\ Root(t)[1] = t
  BY OwnSlotsAre, RootName
<1>2. /\ Root(t) \in DOMAIN tbl /\ DOMAIN tbl' = DOMAIN tbl \ Own(tbl, t)
      /\ \A u \in DOMAIN tbl' : tbl'[u] = tbl[u]
  BY DEF RootGone
<1>3. ASSUME NEW s \in Spaces, s # t PROVE View'[s] = View[s]
  <2>1. Root(s) \in DOMAIN tbl' <=> Root(s) \in DOMAIN tbl
    BY <1>2, <1>3, RootName DEF Own
  <2>2. ASSUME Root(s) \in DOMAIN tbl, NEW a \in Addrs PROVE PldEntry(tbl', s, a) = PldEntry(tbl, s, a)
    <3> DEFINE T == tbl'
    <3>1. a \in Addr /\ tbl[Root(s)][a[1]] = T[Root(s)][a[1]] /\ Root(s) \in DOMAIN T
      BY <1>2, <2>1, <2>2, AddrsFacts
    <3>2. \A u \in DOMAIN T : Len(u) # 1 => \A j \in Slots : tbl[u][j] = T[u][j]
      BY <1>2
    <3>3. TreesOK(T)
      OBVIOUS
    <3> HIDE DEF T
    <3>4. PldEntry(tbl, s, a) = PldEntry(T, s, a)
      BY <3>1, <3>2, <3>3, WalkFrom
    <3> QED BY <3>4 DEF T
  <2> QED BY <2>1, <2>2, SameSpace
<1>4. View[t] # Nil /\ View'[t] = Nil
  <2>1. Root(t) \notin DOMAIN tbl'
    BY <1>1, <1>2 DEF Own
  <2> QED BY <1>1, <1>2, <2>1, ViewIs, ViewIsThen
<1> QED BY <1>3, <1>4, ViewIs DEF Promise!Delete, Promise!SameBut

(* The first views are those of the promise.                                *)
LEMMA InitRefines == Init => Promise!Init
<1> SUFFICES ASSUME Init PROVE Promise!Init
  OBVIOUS
<1>1. MemInv /\ StageInv
  BY InitInv DEF IInv
<1>2. TreesOK(tbl) /\ Kernel \in Spaces /\ Spaces = {Kernel} \cup Tasks
  BY <1>1, KernelRoot DEF Spaces
<1>3. ASSUME NEW s \in Spaces PROVE View[s] \in [Addrs -> Phys \cup Ends] \cup {Nil}
  <2>1. CASE Root(s) \notin DOMAIN tbl
    BY <2>1, ViewIs
  <2>2. CASE Root(s) \in DOMAIN tbl
    <3>1. \A a \in Addrs : PldEntry(tbl, s, a) \in Phys \cup Ends
      BY <1>2, <2>2, PldValue, AddrsFacts
    <3>2. View[s] = [a \in Addrs |-> PldEntry(tbl, s, a)]
      BY <2>2, ViewIs
    <3> QED BY <3>1, <3>2
  <2> QED BY <2>1, <2>2
<1>4. ASSUME NEW t \in Tasks PROVE View[t] = Nil
  <2>1. stage[t] = "none"
    BY DEF Init
  <2>2. Root(t) \notin DOMAIN tbl /\ t \in Spaces
    BY <1>1, <2>1, OwnSlotsAre DEF StageInv
  <2> QED BY <2>2, ViewIs
<1>5. View \in [Spaces -> [Addrs -> Phys \cup Ends] \cup {Nil}]
  BY <1>3, ViewIs
<1> QED BY <1>2, <1>4, <1>5 DEF Promise!Init, Promise!Addrs, Addrs

(* Every step of the page tables, but for the one in which memory runs out, *)
(* is one of the promise, or changes no view.                               *)
LEMMA StepRefines == IInv /\ [Next]_vars => [oom' = oom => Promise!Next]_View
<1> SUFFICES ASSUME IInv, [Next]_vars, oom' = oom PROVE Promise!Next \/ View' = View
  OBVIOUS
<1>0. MemInv
  BY DEF IInv
<1>1. SUFFICES ASSUME View' # View PROVE Promise!Step(View, View')
  BY DEF Promise!Next
<1>10. tbl' # tbl
  BY <1>1 DEF View
<1>2. ASSUME NEW a \in KernelAddrs, NEW pa \in Phys, MapKrlPage(a, pa) PROVE Promise!Step(View, View')
  <2>1. Changed(tbl, tbl', Kernel, a, pa)
    BY <1>1, <1>2, MapKrlPageStep, StepsStutter
  <2>2. Promise!MapKernel(View, View', a)
    BY <1>0, <2>1, StepsMapKernel
  <2> QED BY <2>2 DEF Promise!Step
<1>3. ASSUME NEW a \in KernelAddrs, UnmapKrlPage(a) PROVE Promise!Step(View, View')
  <2>1. Changed(tbl, tbl', Kernel, a, Nil)
    BY <1>3, <1>10, UnmapKrlPageStep
  <2>2. Promise!MapKernel(View, View', a)
    BY <1>0, <2>1, StepsMapKernel
  <2> QED BY <2>2 DEF Promise!Step
<1>4. ASSUME NEW t \in Tasks, CreatePgd(t) PROVE Promise!Step(View, View')
  <2>1. RootCopied(t)
    BY <1>4, <1>10, CreatePgdStep
  <2>2. Promise!Create(View, View', t)
    BY <1>0, <2>1, StepsCreate
  <2> QED BY <2>2 DEF Promise!Step
<1>5. ASSUME NEW t \in Tasks, SyncCopy(t) PROVE Promise!Step(View, View')
  <2>1. Promise!TakeOver(View, View', t)
    BY <1>0, <1>5, <1>10, SyncCopyStep, StepsTakeOver
  <2> QED BY <2>1 DEF Promise!Step
<1>6. ASSUME NEW t \in Tasks, Recycle(t) PROVE Promise!Step(View, View')
  <2>1. Promise!Delete(View, View', t)
    BY <1>6, RecycleStep, StepsDelete
  <2> QED BY <2>1 DEF Promise!Step
<1>7. ASSUME NEW t \in Tasks, NEW pa \in Phys, InitPage(t, pa) PROVE Promise!Step(View, View')
  <2>1. Changed(tbl, tbl', t, UserStack, pa) /\ Root(t) \in DOMAIN tbl
    BY <1>1, <1>7, InitPageStep, StepsStutter
  <2>2. Promise!MapUser(View, View', t, UserStack)
    BY <2>1, AddrsAre, StepsMapUser
  <2> QED BY <2>2, AddrsAre DEF Promise!Step
<1>8. ASSUME NEW t \in Tasks, NEW a \in UserAddrs, NEW pa \in Phys, StackFault(t, a, pa)
      PROVE  Promise!Step(View, View')
  <2>1. Changed(tbl, tbl', t, a, pa) /\ Root(t) \in DOMAIN tbl
    BY <1>1, <1>8, StackFaultStep, StepsStutter
  <2>2. Promise!MapUser(View, View', t, a)
    BY <2>1, StepsMapUser
  <2> QED BY <2>2 DEF Promise!Step
<1>9. CASE UNCHANGED vars
  <2>1. View' = View
    BY <1>9 DEF vars, View
  <2> QED BY <1>1, <2>1
<1> QED BY <1>2, <1>3, <1>4, <1>5, <1>6, <1>7, <1>8, <1>9 DEF Next

(* The page tables implement one function per address space: creation       *)
(* copies the kernel's, a mapping changes one address of one space, or what *)
(* the kernel shares, and deletion takes nothing from another space.  It is *)
(* so in every step but the one in which no table page is left.             *)
THEOREM AddressSpacesImplemented == Spec => ImplementsAddressSpaces
<1>1. Spec => []IInv
  BY InitInv, StepInv, PTL DEF Spec
<1>2. Spec => Promise!Init /\ [][oom' = oom => Promise!Next]_View
  BY <1>1, InitRefines, StepRefines, PTL DEF Spec
<1> QED BY <1>2 DEF ImplementsAddressSpaces
=============================================================================
