------------------------------ MODULE SlabProofs -----------------------------
(***************************************************************************)
(* Proofs about Slab: for words and slabs of any size and any number of    *)
(* pages, a block has one holder, whatever is allocated and freed inside   *)
(* of what, and the counts of free blocks are exact.                       *)
(***************************************************************************)
EXTENDS Slab, FiniteSetTheorems, SequenceTheorems, WellFoundedInduction, TLAPS

-----------------------------------------------------------------------------
(* Induction over the natural numbers, for sets.                            *)

(* A set of natural numbers has a least element.                            *)
LEMMA LeastElement ==
  ASSUME NEW T, T \subseteq Nat, T # {}
  PROVE  \E n \in T : \A k \in T : n <= k
<1> DEFINE Less == {ss \in Nat \X Nat : ss[1] < ss[2]}
<1>1. IsWellFoundedOn(Less, Nat)
  BY NatLessThanWellFounded DEF OpToRel
<1>2. PICK x \in T : \A y \in T : ~(<<y, x>> \in Less)
  BY <1>1, WFMin
<1>3. ASSUME NEW k \in T PROVE x <= k
  <2>1. ~(<<k, x>> \in Less) /\ x \in Nat /\ k \in Nat
    BY <1>2
  <2>2. QED
    BY <2>1
<1>4. QED
  BY <1>3

(* A set that holds 0 and with a number the next one holds them all.        *)
LEMMA SetInduction ==
  ASSUME NEW S, 0 \in S, \A n \in Nat : n \in S => n + 1 \in S
  PROVE  \A n \in Nat : n \in S
<1>1. SUFFICES ASSUME Nat \ S # {} PROVE FALSE
  OBVIOUS
<1>2. PICK n \in Nat \ S : \A k \in Nat \ S : n <= k
  BY <1>1, LeastElement
<1>3. n # 0 /\ n - 1 \in Nat
  BY <1>2
<1>4. n - 1 \in S
  BY <1>2, <1>3
<1>5. QED
  BY <1>2, <1>3, <1>4

(* g computes the first n steps of a recursion.                            *)
Computes(g, v0, step, n) ==
  /\ g \in [0..n -> Nat] /\ g[0] = v0
  /\ \A k \in 1..n : g[k] = step[k][g[k - 1]]

(* A computation and a longer one agree.                                    *)
LEMMA ComputesUnique ==
  ASSUME NEW v0, NEW step, NEW n \in Nat, NEW g, NEW h,
         Computes(g, v0, step, n), Computes(h, v0, step, n + 1)
  PROVE  g[n] = h[n]
<1> DEFINE S == {k \in Nat : k <= n => g[k] = h[k]}
<1>1. 0 \in S
  BY DEF Computes
<1>2. ASSUME NEW k \in Nat, k \in S PROVE k + 1 \in S
  <2>1. CASE k + 1 <= n
    <3>1. k + 1 \in 1..n /\ k + 1 \in 1..(n + 1) /\ (k + 1) - 1 = k
      BY <2>1
    <3>2. g[k] = h[k]
      BY <2>1, <1>2
    <3>3. g[k + 1] = h[k + 1]
      BY <3>1, <3>2 DEF Computes
    <3>4. QED
      BY <3>3
  <2>2. CASE ~(k + 1 <= n)
    BY <2>2
  <2>3. QED
    BY <2>1, <2>2
<1>3. \A k \in Nat : k \in S
  <2> HIDE DEF S
  <2> QED BY <1>1, <1>2, SetInduction
<1>4. QED
  BY <1>3

(* A recursion defines a function.                                          *)
LEMMA RecursionDefines ==
  ASSUME NEW v0 \in Nat, NEW step \in [Nat -> [Nat -> Nat]]
  PROVE  \E f \in [Nat -> Nat] : f[0] = v0 /\ \A n \in Nat : f[n + 1] = step[n + 1][f[n]]
<1> DEFINE S == {n \in Nat : \E g : Computes(g, v0, step, n)}
<1>1. 0 \in S
  <2> DEFINE g0 == [k \in 0..0 |-> v0]
  <2>1. Computes(g0, v0, step, 0)
    BY DEF Computes
  <2> QED BY <2>1
<1>2. ASSUME NEW n \in Nat, n \in S PROVE n + 1 \in S
  <2>1. PICK g : Computes(g, v0, step, n)
    BY <1>2
  <2> DEFINE h == [k \in 0..(n + 1) |-> IF k <= n THEN g[k] ELSE step[n + 1][g[n]]]
  <2>2. g \in [0..n -> Nat] /\ g[0] = v0 /\ \A k \in 1..n : g[k] = step[k][g[k - 1]]
    BY <2>1 DEF Computes
  <2>3. g[n] \in Nat /\ step[n + 1] \in [Nat -> Nat] /\ step[n + 1][g[n]] \in Nat
    <3>1. n \in 0..n /\ n + 1 \in Nat
      OBVIOUS
    <3>2. g[n] \in Nat /\ step[n + 1] \in [Nat -> Nat]
      BY <3>1, <2>2
    <3> QED BY <3>2
  <2>4. h \in [0..(n + 1) -> Nat] /\ h[0] = v0
    <3>1. ASSUME NEW k \in 0..(n + 1) PROVE (IF k <= n THEN g[k] ELSE step[n + 1][g[n]]) \in Nat
      <4>1. CASE k <= n
        <5>1. k \in 0..n
          BY <4>1
        <5> QED BY <5>1, <4>1, <2>2
      <4>2. CASE ~(k <= n)
        BY <4>2, <2>3
      <4> QED BY <4>1, <4>2
    <3>2. 0 \in 0..(n + 1) /\ 0 <= n
      OBVIOUS
    <3> QED BY <3>1, <3>2, <2>2
  <2>5. ASSUME NEW k \in 1..(n + 1) PROVE h[k] = step[k][h[k - 1]]
    <3>1. k - 1 \in 0..n /\ h[k - 1] = g[k - 1]
      BY <2>5
    <3>2. CASE k <= n
      <4>1. k \in 1..n /\ h[k] = g[k]
        BY <3>2
      <4> HIDE DEF h
      <4> QED BY <3>1, <4>1, <2>2
    <3>3. CASE k = n + 1
      <4>1. h[n + 1] = step[n + 1][g[n]] /\ h[n] = g[n]
        OBVIOUS
      <4>2. (n + 1) - 1 = n
        OBVIOUS
      <4> QED BY <4>1, <4>2, <3>3
    <3>4. QED
      BY <3>2, <3>3
  <2>6. Computes(h, v0, step, n + 1)
    <3> HIDE DEF h
    <3> QED BY <2>4, <2>5 DEF Computes
  <2> QED BY <2>6
<1>3. \A n \in Nat : n \in S
  <2> HIDE DEF S
  <2> QED BY <1>1, <1>2, SetInduction
<1> DEFINE G(n) == CHOOSE g : Computes(g, v0, step, n)
           f == [n \in Nat |-> G(n)[n]]
<1>4. \A n \in Nat : Computes(G(n), v0, step, n)
  BY <1>3
<1> HIDE DEF G
<1>5. f \in [Nat -> Nat]
  <2>1. ASSUME NEW n \in Nat PROVE G(n)[n] \in Nat
    BY <1>4 DEF Computes
  <2> QED BY <2>1
<1>6. f[0] = v0
  BY <1>4 DEF Computes
<1>7. ASSUME NEW n \in Nat PROVE f[n + 1] = step[n + 1][f[n]]
  <2>1. Computes(G(n), v0, step, n) /\ Computes(G(n + 1), v0, step, n + 1)
    BY <1>4
  <2>2. G(n)[n] = G(n + 1)[n]
    BY <2>1, ComputesUnique
  <2>3. G(n + 1)[n + 1] = step[n + 1][G(n + 1)[(n + 1) - 1]]
    BY <2>1 DEF Computes
  <2>4. (n + 1) - 1 = n /\ f[n + 1] = G(n + 1)[n + 1] /\ f[n] = G(n)[n]
    OBVIOUS
  <2> HIDE DEF f
  <2> QED BY <2>2, <2>3, <2>4
<1>8. QED
  <2> HIDE DEF f
  <2> QED BY <1>5, <1>6, <1>7

(* A function that starts as a recursion does and goes on as it does is it. *)
LEMMA RecursionIs ==
  ASSUME NEW f \in [Nat -> Nat], NEW g, g = [n \in Nat |-> g[n]], g[0] = f[0],
         \A n \in Nat : g[n] = f[n] => g[n + 1] = f[n + 1]
  PROVE  g = f
<1> DEFINE S == {n \in Nat : g[n] = f[n]}
<1>1. 0 \in S
  OBVIOUS
<1>5. \A n \in Nat : n \in S => n + 1 \in S
  OBVIOUS
<1>2. \A n \in Nat : n \in S
  <2> HIDE DEF S
  <2> QED BY <1>1, <1>5, SetInduction
<1>3. f = [n \in Nat |-> f[n]]
  OBVIOUS
<1>4. \A n \in Nat : g[n] = f[n]
  BY <1>2
<1> QED BY <1>3, <1>4

-----------------------------------------------------------------------------
(* Sums of free blocks                                                      *)

(* The sum below a number and the next summand are the sum below the next.  *)
LEMMA FreeBelowRec ==
  ASSUME NEW f \in [Nat -> Nat]
  PROVE  /\ FreeBelow(f) \in [Nat -> Nat] /\ FreeBelow(f)[0] = 0
         /\ \A n \in Nat : FreeBelow(f)[n + 1] = FreeBelow(f)[n] + f[n]
<1> DEFINE step == [n \in Nat |-> [v \in Nat |-> IF n = 0 THEN v ELSE v + f[n - 1]]]
           Eq(g) == g = [n \in Nat |-> IF n = 0 THEN 0 ELSE g[n - 1] + f[n - 1]]
<1>1. step \in [Nat -> [Nat -> Nat]]
  <2>1. ASSUME NEW n \in Nat, n # 0 PROVE f[n - 1] \in Nat
    <3>1. n - 1 \in Nat
      BY <2>1
    <3> QED BY <3>1
  <2> QED BY <2>1
<1>2. PICK h \in [Nat -> Nat] : h[0] = 0 /\ \A n \in Nat : h[n + 1] = step[n + 1][h[n]]
  <2>1. 0 \in Nat
    OBVIOUS
  <2> HIDE DEF step
  <2> QED BY <1>1, <2>1, RecursionDefines, Zenon
<1>3. ASSUME NEW n \in Nat PROVE h[n + 1] = h[n] + f[n]
  <2>1. h[n + 1] = step[n + 1][h[n]] /\ h[n] \in Nat
    BY <1>2
  <2>2. step[n + 1][h[n]] = h[n] + f[(n + 1) - 1]
    BY <2>1
  <2>3. (n + 1) - 1 = n
    OBVIOUS
  <2> QED BY <2>1, <2>2, <2>3
<1>4. Eq(h)
  <2>1. ASSUME NEW n \in Nat, n # 0 PROVE h[n] = h[n - 1] + f[n - 1]
    <3>1. n - 1 \in Nat /\ (n - 1) + 1 = n
      BY <2>1
    <3> QED BY <3>1, <1>3
  <2>2. \A n \in Nat : h[n] = IF n = 0 THEN 0 ELSE h[n - 1] + f[n - 1]
    BY <2>1, <1>2
  <2> QED BY <2>2, <1>2
<1>5. Eq(FreeBelow(f))
  <2>1. FreeBelow(f) = CHOOSE g : Eq(g)
    BY DEF FreeBelow
  <2> HIDE DEF Eq
  <2> QED BY <2>1, <1>4
<1>6. ASSUME NEW n \in Nat PROVE FreeBelow(f)[n + 1] = FreeBelow(f)[n] + f[n]
  <2>1. FreeBelow(f)[n + 1] = FreeBelow(f)[(n + 1) - 1] + f[(n + 1) - 1]
    BY <1>5
  <2>2. (n + 1) - 1 = n
    OBVIOUS
  <2> QED BY <2>1, <2>2
<1>7. FreeBelow(f)[0] = 0 /\ FreeBelow(f) = [n \in Nat |-> FreeBelow(f)[n]]
  BY <1>5
<1>8. FreeBelow(f) = h
  <2> DEFINE g == FreeBelow(f)
  <2>1. g[0] = 0 /\ g = [n \in Nat |-> g[n]] /\ \A n \in Nat : g[n + 1] = g[n] + f[n]
    BY <1>6, <1>7
  <2> HIDE DEF g, step, Eq
  <2>2. \A n \in Nat : g[n] = h[n] => g[n + 1] = h[n + 1]
    BY <2>1, <1>3
  <2>3. g[0] = h[0]
    BY <2>1, <1>2
  <2>4. g = h
    BY <2>1, <2>2, <2>3, RecursionIs, Zenon
  <2> QED BY <2>4 DEF g
<1> QED BY <1>3, <1>2, <1>8

(* If functions differ at one number only, so do their sums.                *)
LEMMA FreeBelowOne ==
  ASSUME NEW f \in [Nat -> Nat], NEW g \in [Nat -> Nat], NEW s \in Nat,
         \A k \in Nat : k # s => g[k] = f[k], NEW e \in Nat
  PROVE  FreeBelow(g)[e] = FreeBelow(f)[e] + (IF s < e THEN g[s] - f[s] ELSE 0)
<1> DEFINE F == FreeBelow(f)
           G == FreeBelow(g)
           S == {n \in Nat : G[n] = F[n] + (IF s < n THEN g[s] - f[s] ELSE 0)}
<1>1. /\ F \in [Nat -> Nat] /\ F[0] = 0 /\ \A n \in Nat : F[n + 1] = F[n] + f[n]
      /\ G \in [Nat -> Nat] /\ G[0] = 0 /\ \A n \in Nat : G[n + 1] = G[n] + g[n]
  BY FreeBelowRec
<1> HIDE DEF F, G
<1>2. 0 \in S
  BY <1>1
<1>3. ASSUME NEW n \in Nat, n \in S PROVE n + 1 \in S
  <2>1. F[n + 1] = F[n] + f[n] /\ G[n + 1] = G[n] + g[n]
    BY <1>1
  <2>2. F[n] \in Nat /\ G[n] \in Nat /\ f[n] \in Nat /\ g[n] \in Nat /\ f[s] \in Nat /\ g[s] \in Nat
    BY <1>1
  <2>3. G[n] = F[n] + (IF s < n THEN g[s] - f[s] ELSE 0)
    BY <1>3
  <2>4. CASE n = s
    BY <2>1, <2>2, <2>3, <2>4
  <2>5. CASE n # s
    <3>1. g[n] = f[n] /\ (s < n + 1 <=> s < n)
      BY <2>5
    <3> QED BY <2>1, <2>2, <2>3, <3>1
  <2> QED BY <2>4, <2>5
<1>4. \A n \in Nat : n \in S
  <2> HIDE DEF S
  <2> QED BY <1>2, <1>3, SetInduction
<1> QED BY <1>4 DEF F, G

-----------------------------------------------------------------------------
(* The invariant                                                            *)

Memory == [ring : [Caches -> Seq(Slabs)], cacheFree : [Caches -> Nat],
           of : [Slabs -> Caches \cup {"none"}], used : [Slabs -> SUBSET Nat], free : [Slabs -> Nat],
           home : [Slabs -> Seq(Slabs \X Nat)], pages : SUBSET Pages,
           got : (Slabs \X Nat) \cup {NONE}, stuck : BOOLEAN]

(* A ring starts with its root and has slabs of its cache, each once.       *)
RingsOK(x) ==
  \A c \in Caches :
    /\ Len(x.ring[c]) >= 1 /\ x.ring[c][1] = Root[c]
    /\ \A k \in 1..Len(x.ring[c]) :
         /\ x.of[x.ring[c][k]] = c
         /\ \A l \in 1..Len(x.ring[c]) : x.ring[c][k] = x.ring[c][l] => k = l

(* The bitmap of a slab marks blocks it has, and its count is that of the   *)
(* others.                                                                  *)
UsedOK(x) ==
  \A s \in Slabs :
    IF x.of[s] = "none" THEN x.used[s] = {} /\ x.free[s] = 0
    ELSE x.used[s] \subseteq 0..(Cnt(x, s) - 1) /\ x.free[s] = Cnt(x, s) - Cardinality(x.used[s])

CacheCountsOK(x) == \A c \in Caches : x.cacheFree[c] = FreeBlocks(x, c)

(* What holds even where the program is stuck                               *)
Sound(x) == x \in Memory /\ RingsOK(x) /\ UsedOK(x) /\ CacheCountsOK(x)

(* A page is the page allocator's, or a slab, or in hand.                   *)
PagesOK(x, hand) ==
  /\ x.pages \cap hand = {}
  /\ \A s \in Pages : x.of[s] = "none" <=> s \in x.pages \cup hand

Marked(x) == {b \in Slabs \X Nat : b[2] \in x.used[b[1]]}
HomeOf(x, s) == {x.home[s][k] : k \in DOMAIN x.home[s]}
Homes(x) == UNION {HomeOf(x, s) : s \in Slabs}

(* The structure and the bitmap of a big slab are two blocks of small slabs,*)
(* marked, of no other slab.                                                *)
HomesOK(x) ==
  /\ \A s \in Slabs :
       IF s \in Pages /\ x.of[s] = "big"
         THEN Len(x.home[s]) = 2 /\ x.home[s][1] # x.home[s][2]
         ELSE x.home[s] = <<>>
  /\ \A b \in Homes(x) : b \in Marked(x) /\ x.of[b[1]] = "small"
  /\ \A s, r \in Slabs : s # r => HomeOf(x, s) \cap HomeOf(x, r) = {}

(* The blocks that are marked are the clients' and the structures of slabs. *)
HoldersOK == clients \cap Homes(m) = {} /\ clients \cup Homes(m) = Marked(m)

Answers == {"none", "block", "refused", "out of memory", "freed", "lost", "stuck"}
IInv ==
  /\ Sound(m) /\ answer \in Answers
  /\ ~m.stuck => PagesOK(m, {}) /\ HomesOK(m) /\ HoldersOK

-----------------------------------------------------------------------------
(* Slabs and the scan of a bitmap                                           *)

(* The least of a set of numbers                                            *)
LEMMA MinIn ==
  ASSUME NEW S, S \subseteq Nat, S # {}
  PROVE  Min(S) \in S /\ \A k \in S : Min(S) <= k
<1>1. PICK n \in S : \A k \in S : n <= k
  BY LeastElement
<1> QED BY <1>1 DEF Min

(* Slabs are numbers below LastPage + 2.                                    *)
LEMMA SlabsAre ==
  /\ Slabs \subseteq Nat /\ LastPage + 2 \in Nat /\ \A s \in Slabs : s < LastPage + 2
  /\ \A c \in Caches : Root[c] \in Slabs \ Pages
  /\ "small" \in Caches /\ "big" \in Caches /\ "none" \notin Caches /\ Pages \subseteq Slabs
  /\ Pages \subseteq Nat /\ 0 \in Slabs /\ 1 \in Slabs
  BY SlabAssumption DEF Slabs, Pages, Root, Caches

(* A slab has a block at least.                                             *)
LEMMA CntIs ==
  ASSUME NEW x \in Memory, NEW s \in Slabs, x.of[s] # "none"
  PROVE  Cnt(x, s) \in Nat /\ Cnt(x, s) >= 1 /\ x.of[s] \in Caches
<1>1. x.of[s] \in Caches
  BY DEF Memory
<1> QED BY <1>1, SlabAssumption DEF Cnt

(* The fields of the allocator                                              *)
LEMMA Fields ==
  ASSUME NEW x \in Memory
  PROVE  /\ x.ring \in [Caches -> Seq(Slabs)] /\ x.cacheFree \in [Caches -> Nat]
         /\ x.of \in [Slabs -> Caches \cup {"none"}] /\ x.used \in [Slabs -> SUBSET Nat]
         /\ x.free \in [Slabs -> Nat] /\ x.home \in [Slabs -> Seq(Slabs \X Nat)]
         /\ x.pages \subseteq Pages /\ x.got \in (Slabs \X Nat) \cup {NONE} /\ x.stuck \in BOOLEAN
  BY DEF Memory

(* The marked blocks of a slab are finitely many.                           *)
LEMMA UsedFinite ==
  ASSUME NEW x \in Memory, UsedOK(x), NEW s \in Slabs
  PROVE  IsFiniteSet(x.used[s]) /\ Cardinality(x.used[s]) \in Nat
<1>1. CASE x.of[s] = "none"
  <2>1. x.used[s] = {}
    BY <1>1 DEF UsedOK
  <2>2. IsFiniteSet({}) /\ Cardinality({}) = 0
    BY FS_EmptySet
  <2> QED BY <2>1, <2>2
<1>2. CASE x.of[s] # "none"
  <2>1. x.used[s] \subseteq 0..(Cnt(x, s) - 1)
    BY <1>2 DEF UsedOK
  <2>2. Cnt(x, s) \in Nat
    BY <1>2, CntIs
  <2>3. IsFiniteSet(0..(Cnt(x, s) - 1))
    BY <2>2, FS_Interval
  <2>4. IsFiniteSet(x.used[s])
    BY <2>1, <2>3, FS_Subset
  <2> QED BY <2>4, FS_CardinalityType
<1> QED BY <1>1, <1>2

(* Each turn of the scan ends it or goes on behind.                         *)
LEMMA ScanRec ==
  ASSUME NEW x, NEW s
  PROVE  /\ Scan(x, s) \in [Nat -> Nat] /\ Scan(x, s)[0] = 0
         /\ \A n \in Nat : Scan(x, s)[n + 1] = Turn(x, s, Scan(x, s)[n])
<1> DEFINE step == [n \in Nat |-> [v \in Nat |-> Turn(x, s, v)]]
           Eq(g) == g = [n \in Nat |-> IF n = 0 THEN 0 ELSE Turn(x, s, g[n - 1])]
<1>1. step \in [Nat -> [Nat -> Nat]]
  <2>1. ASSUME NEW v \in Nat PROVE Turn(x, s, v) \in Nat
    BY SlabAssumption DEF Turn
  <2> QED BY <2>1
<1>2. PICK h \in [Nat -> Nat] : h[0] = 0 /\ \A n \in Nat : h[n + 1] = step[n + 1][h[n]]
  <2>1. 0 \in Nat
    OBVIOUS
  <2> HIDE DEF step
  <2> QED BY <1>1, <2>1, RecursionDefines, Zenon
<1>3. ASSUME NEW n \in Nat PROVE h[n + 1] = Turn(x, s, h[n])
  <2>1. h[n + 1] = step[n + 1][h[n]] /\ h[n] \in Nat
    BY <1>2
  <2> QED BY <2>1
<1>4. Eq(h)
  <2>1. ASSUME NEW n \in Nat, n # 0 PROVE h[n] = Turn(x, s, h[n - 1])
    <3>1. n - 1 \in Nat /\ (n - 1) + 1 = n
      BY <2>1
    <3> QED BY <3>1, <1>3
  <2>2. \A n \in Nat : h[n] = IF n = 0 THEN 0 ELSE Turn(x, s, h[n - 1])
    BY <2>1, <1>2
  <2> QED BY <2>2, <1>2
<1>5. Eq(Scan(x, s))
  <2>1. Scan(x, s) = CHOOSE g : Eq(g)
    BY DEF Scan
  <2> HIDE DEF Eq
  <2> QED BY <2>1, <1>4
<1> DEFINE g == Scan(x, s)
<1>6. g[0] = 0 /\ g = [n \in Nat |-> g[n]]
  BY <1>5
<1>7. ASSUME NEW n \in Nat PROVE g[n + 1] = Turn(x, s, g[n])
  <2>1. g[n + 1] = Turn(x, s, g[(n + 1) - 1])
    BY <1>5
  <2>2. (n + 1) - 1 = n
    OBVIOUS
  <2> QED BY <2>1, <2>2
<1>8. g = h
  <2> HIDE DEF g, step, Eq
  <2>1. \A n \in Nat : g[n] = h[n] => g[n + 1] = h[n + 1]
    BY <1>3, <1>7
  <2>2. g[0] = h[0]
    BY <1>2, <1>6
  <2> QED BY <1>6, <2>1, <2>2, RecursionIs, Zenon
<1> QED BY <1>8, <1>2, <1>3

(* After n turns the scan has ended or is at least at block n.              *)
LEMMA ScanGoesOn ==
  ASSUME NEW x, NEW s, NEW e \in Nat
  PROVE  ScanEnds(x, s, Scan(x, s)[e]) \/ Scan(x, s)[e] >= e
<1> DEFINE g == Scan(x, s)
           S == {n \in Nat : ScanEnds(x, s, g[n]) \/ g[n] >= n}
<1>1. g \in [Nat -> Nat] /\ g[0] = 0 /\ \A n \in Nat : g[n + 1] = Turn(x, s, g[n])
  BY ScanRec
<1> HIDE DEF g
<1>2. 0 \in S
  BY <1>1
<1>3. ASSUME NEW n \in Nat, n \in S PROVE n + 1 \in S
  <2>1. g[n] \in Nat /\ g[n + 1] = Turn(x, s, g[n])
    BY <1>1
  <2>2. CASE ScanEnds(x, s, g[n])
    <3>1. g[n + 1] = g[n]
      BY <2>1, <2>2 DEF Turn
    <3> QED BY <3>1, <2>2
  <2>3. CASE ~ScanEnds(x, s, g[n])
    <3>1. g[n] >= n
      BY <1>3, <2>3
    <3>2. g[n + 1] >= g[n] + 1
      BY <2>1, <2>3, SlabAssumption DEF Turn
    <3>3. g[n + 1] \in Nat
      BY <1>1
    <3> QED BY <3>1, <3>2, <3>3, <2>1
  <2> QED BY <2>2, <2>3
<1>4. \A n \in Nat : n \in S
  <2> HIDE DEF S
  <2> QED BY <1>2, <1>3, SetInduction
<1> QED BY <1>4 DEF g

(* The block that the scan finds is the slab's, and free.                   *)
LEMMA FreeBitOK ==
  ASSUME NEW x \in Memory, NEW s \in Slabs, x.of[s] # "none", NEW j, j = FreeBit(x, s), j # -1
  PROVE  j \in 0..(Cnt(x, s) - 1) /\ j \notin x.used[s]
<1> DEFINE N == Cnt(x, s)
           k == Scan(x, s)[N]
<1>1. N \in Nat
  BY CntIs
<1>2. k \in Nat
  BY <1>1, ScanRec
<1>3. ScanEnds(x, s, k) \/ k >= N
  BY <1>1, ScanGoesOn
<1>4. j = IF k >= N THEN -1 ELSE k
  BY DEF FreeBit
<1> HIDE DEF N, k
<1>5. ~(k >= N) /\ j = k
  BY <1>4
<1>6. ScanEnds(x, s, k)
  BY <1>3, <1>5
<1>7. j \notin x.used[s]
  BY <1>5, <1>6 DEF ScanEnds, N
<1> QED BY <1>1, <1>2, <1>5, <1>7 DEF N

(* The free blocks of a cache when one slab changes                         *)
OthersKept(x, y, s) == \A r \in Slabs : r # s => y.of[r] = x.of[r] /\ y.free[r] = x.free[r]

(* Where one slab changes, a cache's sum changes by its free blocks.        *)
LEMMA FreeBlocksOne ==
  ASSUME NEW x \in Memory, NEW y \in Memory, NEW s \in Slabs, NEW c \in Caches, OthersKept(x, y, s)
  PROVE  /\ FreeBlocks(x, c) \in Nat /\ FreeBlocks(y, c) \in Nat
         /\ FreeBlocks(y, c) = FreeBlocks(x, c) + (IF y.of[s] = c THEN y.free[s] ELSE 0)
                                                - (IF x.of[s] = c THEN x.free[s] ELSE 0)
<1> DEFINE f == FreeIn(x, c)
           g == FreeIn(y, c)
           e == LastPage + 2
<1>1. f \in [Nat -> Nat]
  <2>1. \A r \in Slabs : x.free[r] \in Nat
    BY Fields
  <2> QED BY <2>1 DEF FreeIn
<1>2. g \in [Nat -> Nat]
  <2>1. \A r \in Slabs : y.free[r] \in Nat
    BY Fields
  <2> QED BY <2>1 DEF FreeIn
<1>3. s \in Nat /\ e \in Nat /\ s < e
  BY SlabsAre
<1>4. \A k \in Nat : k # s => g[k] = f[k]
  BY DEF FreeIn, OthersKept
<1>5. g[s] = (IF y.of[s] = c THEN y.free[s] ELSE 0) /\ f[s] = (IF x.of[s] = c THEN x.free[s] ELSE 0)
  BY <1>3 DEF FreeIn
<1> HIDE DEF f, g, e
<1>6. FreeBelow(g)[e] = FreeBelow(f)[e] + (IF s < e THEN g[s] - f[s] ELSE 0)
  BY <1>1, <1>2, <1>3, <1>4, FreeBelowOne, ZenonT(60)
<1>7. FreeBelow(f)[e] \in Nat /\ FreeBelow(g)[e] \in Nat /\ f[s] \in Nat /\ g[s] \in Nat
  BY <1>1, <1>2, <1>3, FreeBelowRec
<1>8. FreeBelow(g)[e] = FreeBelow(f)[e] + g[s] - f[s]
  BY <1>3, <1>6, <1>7
<1>9. FreeBlocks(x, c) = FreeBelow(f)[e] /\ FreeBlocks(y, c) = FreeBelow(g)[e]
  BY DEF FreeBlocks, f, g, e
<1> QED BY <1>5, <1>7, <1>8, <1>9

(* A slab's free blocks are among its cache's.                              *)
LEMMA FreeBlocksHas ==
  ASSUME NEW x \in Memory, NEW s \in Slabs, NEW c \in Caches, x.of[s] = c
  PROVE  FreeBlocks(x, c) \in Nat /\ FreeBlocks(x, c) >= x.free[s]
<1> DEFINE z == [x EXCEPT !.free[s] = 0]
<1>1. z \in Memory
  BY DEF Memory
<1>2. z.of = x.of /\ z.free = [x.free EXCEPT ![s] = 0]
  BY DEF Memory
<1>3. DOMAIN x.free = Slabs /\ x.free[s] \in Nat
  BY Fields
<1> HIDE DEF z
<1>4. z.free[s] = 0
  BY <1>2, <1>3
<1>5. OthersKept(x, z, s)
  BY <1>2, <1>3 DEF OthersKept
<1>6. /\ FreeBlocks(x, c) \in Nat /\ FreeBlocks(z, c) \in Nat
      /\ FreeBlocks(z, c) = FreeBlocks(x, c) + (IF z.of[s] = c THEN z.free[s] ELSE 0)
                                             - (IF x.of[s] = c THEN x.free[s] ELSE 0)
  BY <1>1, <1>5, FreeBlocksOne
<1> QED BY <1>2, <1>3, <1>4, <1>6

-----------------------------------------------------------------------------
(* A block is taken                                                         *)

(* The invariant is about rings, bitmaps and counts.                        *)
LEMMA SoundSame ==
  ASSUME NEW x, Sound(x), NEW y \in Memory, y.ring = x.ring, y.cacheFree = x.cacheFree,
         y.of = x.of, y.used = x.used, y.free = x.free
  PROVE  Sound(y)
<1>1. \A s \in Slabs : Cnt(y, s) = Cnt(x, s)
  BY DEF Cnt
<1>2. UsedOK(y)
  BY <1>1 DEF Sound, UsedOK
<1>3. \A c \in Caches : FreeIn(y, c) = FreeIn(x, c)
  BY DEF FreeIn
<1>4. \A c \in Caches : FreeBlocks(y, c) = FreeBlocks(x, c)
  BY <1>3 DEF FreeBlocks
<1> QED BY <1>2, <1>4 DEF Sound, RingsOK, CacheCountsOK

(* The block that is got, if there is one, was not marked and is.           *)
Got(x, y) ==
  \/ y.got = NONE /\ Marked(y) = Marked(x)
  \/ /\ y.got \in Slabs \X Nat /\ y.got \notin Marked(x)
     /\ Marked(y) = Marked(x) \cup {y.got}

(* The first free block of a slab is marked, and counted by slab and cache. *)
LEMMA TakeBlockOK ==
  ASSUME NEW x, Sound(x), NEW s \in Slabs, x.of[s] # "none", NEW y, y = TakeBlock(x, s)
  PROVE  /\ Sound(y) /\ Got(x, y) /\ (y.got # NONE => y.got[1] = s)
         /\ y.of = x.of /\ y.ring = x.ring /\ y.home = x.home /\ y.pages = x.pages /\ y.stuck = x.stuck
<1> DEFINE j == FreeBit(x, s)
           c == x.of[s]
<1>1. x \in Memory /\ RingsOK(x) /\ UsedOK(x) /\ CacheCountsOK(x)
  BY DEF Sound
<1>2. Cnt(x, s) \in Nat /\ c \in Caches
  BY <1>1, CntIs
<1>3. y = IF j = -1 THEN [x EXCEPT !.got = NONE]
          ELSE [x EXCEPT !.used[s] = @ \cup {j}, !.free[s] = @ - 1,
                         !.cacheFree[x.of[s]] = @ - 1, !.got = <<s, j>>]
  BY DEF TakeBlock
<1>4. j # -1 => j \in 0..(Cnt(x, s) - 1) /\ j \notin x.used[s]
  BY <1>1, FreeBitOK
<1> HIDE DEF j
<1>5. CASE j = -1
  <2>1. y = [x EXCEPT !.got = NONE]
    BY <1>3, <1>5
  <2>2. /\ y \in Memory /\ y.got = NONE /\ y.ring = x.ring /\ y.cacheFree = x.cacheFree /\ y.of = x.of
        /\ y.used = x.used /\ y.free = x.free /\ y.home = x.home /\ y.pages = x.pages /\ y.stuck = x.stuck
    BY <2>1, <1>1 DEF Memory
  <2>3. Sound(y)
    BY <2>2, SoundSame
  <2>4. Got(x, y)
    BY <2>2 DEF Got, Marked
  <2> QED BY <2>2, <2>3, <2>4
<1>6. CASE j # -1
  <2>1. y = [x EXCEPT !.used[s] = @ \cup {j}, !.free[s] = @ - 1, !.cacheFree[c] = @ - 1, !.got = <<s, j>>]
    BY <1>3, <1>6
  <2>2. j \in Nat /\ j \in 0..(Cnt(x, s) - 1) /\ j \notin x.used[s]
    BY <1>2, <1>4, <1>6
  <2>3. /\ DOMAIN x.used = Slabs /\ DOMAIN x.free = Slabs /\ DOMAIN x.cacheFree = Caches
        /\ x.used \in [Slabs -> SUBSET Nat]
    BY <1>1, Fields
  <2>4. /\ y.got = <<s, j>> /\ y.ring = x.ring /\ y.of = x.of /\ y.home = x.home /\ y.pages = x.pages
        /\ y.stuck = x.stuck /\ y.used = [x.used EXCEPT ![s] = @ \cup {j}]
        /\ y.free = [x.free EXCEPT ![s] = @ - 1] /\ y.cacheFree = [x.cacheFree EXCEPT ![c] = @ - 1]
    BY <2>1, <1>1 DEF Memory
  <2>5. /\ y.used[s] = x.used[s] \cup {j} /\ \A r \in Slabs : r # s => y.used[r] = x.used[r]
        /\ y.free[s] = x.free[s] - 1 /\ \A r \in Slabs : r # s => y.free[r] = x.free[r]
        /\ y.cacheFree[c] = x.cacheFree[c] - 1 /\ \A d \in Caches : d # c => y.cacheFree[d] = x.cacheFree[d]
    BY <1>2, <2>3, <2>4
  <2>6. /\ x.used[s] \subseteq 0..(Cnt(x, s) - 1) /\ x.free[s] = Cnt(x, s) - Cardinality(x.used[s])
    BY <1>1 DEF UsedOK
  <2>7. IsFiniteSet(x.used[s]) /\ Cardinality(x.used[s]) \in Nat
    BY <1>1, UsedFinite
  <2>8. Cardinality(y.used[s]) = Cardinality(x.used[s]) + 1 /\ IsFiniteSet(y.used[s])
    BY <2>2, <2>5, <2>7, FS_AddElement
  <2>9. y.used[s] \subseteq 0..(Cnt(x, s) - 1)
    BY <2>2, <2>5, <2>6
  <2>10. Cardinality(y.used[s]) <= Cnt(x, s)
    <3>1. IsFiniteSet(0..(Cnt(x, s) - 1)) /\ Cardinality(0..(Cnt(x, s) - 1)) = Cnt(x, s)
      <4>1. 0 \in Int /\ Cnt(x, s) - 1 \in Int /\ (0 > Cnt(x, s) - 1 <=> Cnt(x, s) = 0)
        BY <1>2
      <4>2. Cardinality(0..(Cnt(x, s) - 1)) = IF 0 > Cnt(x, s) - 1 THEN 0 ELSE (Cnt(x, s) - 1) - 0 + 1
        BY <4>1, FS_Interval
      <4> QED BY <1>2, <4>1, <4>2, FS_Interval
    <3> QED BY <3>1, <2>9, FS_Subset, ZenonT(60)
  <2>11. y.free[s] \in Nat /\ y.free[s] = Cnt(x, s) - Cardinality(y.used[s]) /\ x.free[s] = y.free[s] + 1
    BY <1>2, <2>5, <2>6, <2>7, <2>8, <2>10
  <2>12. x.cacheFree[c] = FreeBlocks(x, c) /\ x.cacheFree[c] >= 1
    <3>1. x.cacheFree[c] = FreeBlocks(x, c)
      BY <1>1, <1>2 DEF CacheCountsOK
    <3>2. FreeBlocks(x, c) \in Nat /\ FreeBlocks(x, c) >= x.free[s]
      BY <1>1, <1>2, FreeBlocksHas
    <3> QED BY <3>1, <3>2, <2>11
  <2>13. y \in Memory
    <3>1. y.used \in [Slabs -> SUBSET Nat]
      BY <2>2, <2>3, <2>4
    <3>2. y.free \in [Slabs -> Nat]
      BY <2>4, <2>11, <2>5, <1>1, Fields
    <3>3. y.cacheFree \in [Caches -> Nat]
      BY <2>4, <2>12, <2>5, <1>1, <1>2, Fields
    <3>4. y.got \in (Slabs \X Nat) \cup {NONE}
      BY <2>2, <2>4
    <3>5. /\ y.ring \in [Caches -> Seq(Slabs)] /\ y.of \in [Slabs -> Caches \cup {"none"}]
          /\ y.home \in [Slabs -> Seq(Slabs \X Nat)] /\ y.pages \in SUBSET Pages /\ y.stuck \in BOOLEAN
      BY <2>4, <1>1, Fields
    <3>6. y = [ring |-> y.ring, cacheFree |-> y.cacheFree, of |-> y.of, used |-> y.used, free |-> y.free,
               home |-> y.home, pages |-> y.pages, got |-> y.got, stuck |-> y.stuck]
      BY <2>1, <1>1 DEF Memory
    <3> QED BY <3>1, <3>2, <3>3, <3>4, <3>5, <3>6 DEF Memory
  <2>14. RingsOK(y)
    BY <1>1, <2>4 DEF RingsOK
  <2>15. UsedOK(y)
    <3> SUFFICES ASSUME NEW r \in Slabs
                 PROVE  IF y.of[r] = "none" THEN y.used[r] = {} /\ y.free[r] = 0
                        ELSE /\ y.used[r] \subseteq 0..(Cnt(y, r) - 1)
                             /\ y.free[r] = Cnt(y, r) - Cardinality(y.used[r])
      BY DEF UsedOK
    <3>1. Cnt(y, r) = Cnt(x, r)
      BY <2>4 DEF Cnt
    <3>2. CASE r = s
      BY <3>1, <3>2, <2>4, <2>9, <2>11
    <3>3. CASE r # s
      BY <3>1, <3>3, <2>4, <2>5, <1>1 DEF UsedOK
    <3> QED BY <3>2, <3>3
  <2>16. CacheCountsOK(y)
    <3> SUFFICES ASSUME NEW d \in Caches PROVE y.cacheFree[d] = FreeBlocks(y, d)
      BY DEF CacheCountsOK
    <3>1. OthersKept(x, y, s)
      BY <2>4, <2>5 DEF OthersKept
    <3>2. /\ FreeBlocks(y, d) = FreeBlocks(x, d) + (IF y.of[s] = d THEN y.free[s] ELSE 0)
                                 - (IF x.of[s] = d THEN x.free[s] ELSE 0)
          /\ FreeBlocks(x, d) \in Nat
      BY <1>1, <2>13, <3>1, FreeBlocksOne
    <3>3. x.cacheFree[d] = FreeBlocks(x, d)
      BY <1>1 DEF CacheCountsOK
    <3>4. CASE d = c
      BY <3>2, <3>3, <3>4, <2>4, <2>5, <2>11
    <3>5. CASE d # c
      BY <3>2, <3>3, <3>5, <2>4, <2>5
    <3> QED BY <3>4, <3>5
  <2>17. Got(x, y)
    <3>1. y.got \in Slabs \X Nat /\ y.got \notin Marked(x)
      BY <2>2, <2>4 DEF Marked
    <3>2. Marked(y) = Marked(x) \cup {<<s, j>>}
      BY <2>2, <2>5 DEF Marked
    <3> QED BY <3>1, <3>2, <2>4 DEF Got
  <2>18. y.got[1] = s
    BY <2>4
  <2> QED BY <2>4, <2>13, <2>14, <2>15, <2>16, <2>17, <2>18 DEF Sound
<1> QED BY <1>5, <1>6

-----------------------------------------------------------------------------
(* Rings                                                                    *)

RingOK(x, c, r) ==
  /\ r \in Seq(Slabs) /\ Len(r) >= 1 /\ r[1] = Root[c]
  /\ \A k \in 1..Len(r) : x.of[r[k]] = c /\ \A l \in 1..Len(r) : r[k] = r[l] => k = l

(* The rings one by one                                                     *)
LEMMA RingsAre ==
  ASSUME NEW x \in Memory
  PROVE  RingsOK(x) <=> \A c \in Caches : RingOK(x, c, x.ring[c])
<1>1. \A c \in Caches : x.ring[c] \in Seq(Slabs)
  BY Fields
<1> QED BY <1>1 DEF RingsOK, RingOK

(* Slabs of a ring in another order, or less of them, with the root first   *)
Reorders(r, q, pi) ==
  /\ q \in Seq(Slabs) /\ Len(q) >= 1 /\ q[1] = r[1]
  /\ pi \in [1..Len(q) -> 1..Len(r)]
  /\ \A k, l \in 1..Len(q) : pi[k] = pi[l] => k = l
  /\ \A k \in 1..Len(q) : q[k] = r[pi[k]]

(* Such a sequence is a ring again.                                         *)
LEMMA RingOrder ==
  ASSUME NEW x, NEW c, NEW r, RingOK(x, c, r), NEW q, NEW pi, Reorders(r, q, pi)
  PROVE  RingOK(x, c, q)
<1> USE DEF Reorders
<1>1. \A k \in 1..Len(q) : pi[k] \in 1..Len(r)
  OBVIOUS
<1>2. q[1] = Root[c]
  BY DEF RingOK
<1>3. ASSUME NEW k \in 1..Len(q) PROVE x.of[q[k]] = c
  BY <1>1 DEF RingOK
<1>4. ASSUME NEW k \in 1..Len(q), NEW l \in 1..Len(q), q[k] = q[l] PROVE k = l
  <2>1. r[pi[k]] = r[pi[l]] /\ pi[k] \in 1..Len(r) /\ pi[l] \in 1..Len(r)
    BY <1>1, <1>4
  <2>2. pi[k] = pi[l]
    BY <2>1 DEF RingOK
  <2> QED BY <2>2
<1> QED BY <1>2, <1>3, <1>4 DEF RingOK

(* The part of a sequence behind its k-th element                           *)
LEMMA PartBehind ==
  ASSUME NEW r \in Seq(Slabs), NEW k \in 0..Len(r)
  PROVE  /\ SubSeq(r, k + 1, Len(r)) \in Seq(Slabs) /\ Len(SubSeq(r, k + 1, Len(r))) = Len(r) - k
         /\ \A i \in 1..(Len(r) - k) : SubSeq(r, k + 1, Len(r))[i] = r[k + i]
<1>1. PICK n \in Int : n = k + 1
  OBVIOUS
<1>2. Len(r) \in Int /\ \A i \in n..Len(r) : r[i] \in Slabs
  BY <1>1
<1>3. /\ SubSeq(r, n, Len(r)) \in Seq(Slabs)
      /\ Len(SubSeq(r, n, Len(r))) = IF n <= Len(r) THEN Len(r) - n + 1 ELSE 0
      /\ \A i \in 1..(Len(r) - n + 1) : SubSeq(r, n, Len(r))[i] = r[n + i - 1]
  <2> HIDE <1>1
  <2> QED BY <1>2, SubSeqProperties
<1> DEFINE b == SubSeq(r, n, Len(r))
<1>4. b = SubSeq(r, k + 1, Len(r))
  BY <1>1
<1>5. /\ b \in Seq(Slabs) /\ Len(b) = IF n <= Len(r) THEN Len(r) - n + 1 ELSE 0
      /\ \A i \in 1..(Len(r) - n + 1) : b[i] = r[n + i - 1]
  BY <1>3
<1> HIDE DEF b
<1>6. Len(b) = Len(r) - k /\ Len(r) - n + 1 = Len(r) - k
  BY <1>1, <1>2, <1>5
<1>7. ASSUME NEW i \in 1..(Len(r) - k) PROVE b[i] = r[k + i]
  <2>1. b[i] = r[n + i - 1]
    BY <1>5, <1>6
  <2>2. n + i - 1 = k + i
    BY <1>1, <1>2
  <2> QED BY <2>1, <2>2
<1> QED BY <1>4, <1>5, <1>6, <1>7

(* A ring without its k-th slab                                             *)
LEMMA WithoutIs ==
  ASSUME NEW x, NEW c \in Caches, NEW r, RingOK(x, c, r), NEW k \in 1..Len(r), NEW w, w = Without(r, r[k])
  PROVE  /\ w \in Seq(Slabs) /\ Len(w) = Len(r) - 1
         /\ \A i \in 1..(Len(r) - 1) : w[i] = IF i < k THEN r[i] ELSE r[i + 1]
<1>1. r \in Seq(Slabs) /\ Len(r) \in Nat /\ DOMAIN r = 1..Len(r)
  BY DEF RingOK
<1>2. (CHOOSE l \in DOMAIN r : r[l] = r[k]) = k
  BY <1>1 DEF RingOK
<1>3. w = SubSeq(r, 1, k - 1) \o SubSeq(r, k + 1, Len(r))
  BY <1>2 DEF Without, RemoveAt
<1>4. /\ SubSeq(r, 1, k - 1) \in Seq(Slabs) /\ Len(SubSeq(r, 1, k - 1)) = k - 1
      /\ \A i \in 1..(k - 1) : SubSeq(r, 1, k - 1)[i] = r[i]
  BY <1>1
<1>5. /\ SubSeq(r, k + 1, Len(r)) \in Seq(Slabs) /\ Len(SubSeq(r, k + 1, Len(r))) = Len(r) - k
      /\ \A i \in 1..(Len(r) - k) : SubSeq(r, k + 1, Len(r))[i] = r[k + i]
  <2>1. k \in 0..Len(r)
    BY <1>1
  <2> QED BY <1>1, <2>1, PartBehind
<1> DEFINE a == SubSeq(r, 1, k - 1)
           b == SubSeq(r, k + 1, Len(r))
<1>6. a \in Seq(Slabs) /\ b \in Seq(Slabs) /\ Len(a) = k - 1 /\ Len(b) = Len(r) - k /\ w = a \o b
  BY <1>3, <1>4, <1>5
<1>7. /\ \A i \in 1..(k - 1) : a[i] = r[i]
      /\ \A i \in 1..(Len(r) - k) : b[i] = r[k + i]
  BY <1>4, <1>5
<1> HIDE DEF a, b
<1>8. w \in Seq(Slabs) /\ Len(w) = Len(r) - 1
  <2>1. w \in Seq(Slabs) /\ Len(w) = Len(a) + Len(b)
    BY <1>6, ConcatProperties
  <2> QED BY <2>1, <1>1, <1>6
<1>9. ASSUME NEW i \in 1..(Len(r) - 1) PROVE w[i] = IF i < k THEN r[i] ELSE r[i + 1]
  <2>1. CASE i < k
    <3>1. i \in 1..(k - 1) /\ w[i] = a[i]
      BY <1>1, <1>6, <2>1
    <3> QED BY <3>1, <1>7, <2>1
  <2>2. CASE ~(i < k)
    <3>1. w[i] = b[i - (k - 1)]
      BY <1>1, <1>6, <2>2
    <3>2. i - (k - 1) \in 1..(Len(r) - k) /\ k + (i - (k - 1)) = i + 1
      BY <1>1, <2>2
    <3>3. b[i - (k - 1)] = r[k + (i - (k - 1))]
      BY <1>7, <3>2
    <3> QED BY <2>2, <3>1, <3>2, <3>3
  <2> QED BY <2>1, <2>2
<1> QED BY <1>8, <1>9

(* A slab that is not the root is taken out of its ring.                    *)
LEMMA WithoutOK ==
  ASSUME NEW x, NEW c \in Caches, NEW r, RingOK(x, c, r), NEW k \in 1..Len(r), k # 1, NEW w, w = Without(r, r[k])
  PROVE  RingOK(x, c, w) /\ \A i \in 1..Len(w) : w[i] # r[k]
<1> DEFINE pi == [i \in 1..Len(w) |-> IF i < k THEN i ELSE i + 1]
<1>1. /\ w \in Seq(Slabs) /\ Len(w) = Len(r) - 1 /\ Len(r) \in Nat
      /\ \A i \in 1..(Len(r) - 1) : w[i] = IF i < k THEN r[i] ELSE r[i + 1]
  <2>1. Len(r) \in Nat
    BY DEF RingOK
  <2> QED BY <2>1, WithoutIs
<1>2. Len(w) >= 1 /\ w[1] = r[1]
  BY <1>1
<1>3. pi \in [1..Len(w) -> 1..Len(r)] /\ \A i, l \in 1..Len(w) : pi[i] = pi[l] => i = l
  BY <1>1
<1>4. \A i \in 1..Len(w) : w[i] = r[pi[i]] /\ pi[i] # k
  BY <1>1
<1> HIDE DEF pi
<1>5. RingOK(x, c, w)
  <2>1. Reorders(r, w, pi)
    BY <1>1, <1>2, <1>3, <1>4 DEF Reorders
  <2> QED BY <2>1, RingOrder
<1>6. \A i \in 1..Len(w) : w[i] # r[k]
  <2> SUFFICES ASSUME NEW i \in 1..Len(w) PROVE w[i] # r[k]
    OBVIOUS
  <2>1. pi[i] \in 1..Len(r)
    BY <1>3
  <2> QED BY <2>1, <1>4 DEF RingOK
<1> QED BY <1>5, <1>6

(* Of a ring only its order changes, or what it leaves out.                 *)
WithRing(x, c, q) == [x EXCEPT !.ring[c] = q]
RingOnly(x, y) ==
  /\ Sound(y) /\ y.of = x.of /\ y.used = x.used /\ y.home = x.home
  /\ y.pages = x.pages /\ y.stuck = x.stuck

(* The invariant and the holders do not depend on the order of a ring.      *)
LEMMA RingChange ==
  ASSUME NEW x, Sound(x), NEW c \in Caches, NEW q, RingOK(x, c, q)
  PROVE  RingOnly(x, WithRing(x, c, q))
<1> DEFINE y == WithRing(x, c, q)
<1>1. x \in Memory /\ x.ring \in [Caches -> Seq(Slabs)] /\ q \in Seq(Slabs)
  BY Fields DEF Sound, RingOK
<1>2. /\ y \in Memory /\ y.of = x.of /\ y.used = x.used /\ y.free = x.free /\ y.home = x.home
      /\ y.pages = x.pages /\ y.stuck = x.stuck /\ y.cacheFree = x.cacheFree
      /\ y.ring = [x.ring EXCEPT ![c] = q]
  BY <1>1 DEF Memory, WithRing
<1> HIDE DEF y
<1>3. \A d \in Caches : RingOK(y, d, y.ring[d])
  <2>1. \A d \in Caches : RingOK(x, d, IF d = c THEN q ELSE x.ring[d])
    BY <1>1, RingsAre DEF Sound
  <2>2. \A d \in Caches : y.ring[d] = IF d = c THEN q ELSE x.ring[d]
    BY <1>1, <1>2
  <2> QED BY <1>2, <2>1, <2>2 DEF RingOK
<1>4. RingsOK(y)
  BY <1>2, <1>3, RingsAre
<1>5. \A s \in Slabs : Cnt(y, s) = Cnt(x, s)
  BY <1>2 DEF Cnt
<1>6. UsedOK(y)
  BY <1>2, <1>5 DEF Sound, UsedOK
<1>7. \A d \in Caches : FreeIn(y, d) = FreeIn(x, d)
  BY <1>2 DEF FreeIn
<1>8. \A d \in Caches : FreeBlocks(y, d) = FreeBlocks(x, d)
  BY <1>7 DEF FreeBlocks
<1>9. CacheCountsOK(y)
  BY <1>2, <1>8 DEF Sound, CacheCountsOK
<1>10. RingOnly(x, y)
  BY <1>2, <1>4, <1>6, <1>9 DEF Sound, RingOnly
<1> QED BY <1>10 DEF y

(* Two slabs before a part of a ring                                        *)
LEMMA TwoBefore ==
  ASSUME NEW a \in Slabs, NEW b \in Slabs, NEW t \in Seq(Slabs), NEW q, q = <<a, b>> \o t
  PROVE  /\ q \in Seq(Slabs) /\ Len(q) = Len(t) + 2 /\ q[1] = a /\ q[2] = b
         /\ \A i \in 3..(Len(t) + 2) : q[i] = t[i - 2]
<1> DEFINE h == <<a, b>>
<1>1. h \in Seq(Slabs) /\ Len(h) = 2 /\ h[1] = a /\ h[2] = b /\ q = h \o t /\ Len(t) \in Nat
  OBVIOUS
<1> HIDE DEF h
<1>2. /\ q \in Seq(Slabs) /\ Len(q) = Len(h) + Len(t)
      /\ \A i \in 1..(Len(h) + Len(t)) : q[i] = IF i <= Len(h) THEN h[i] ELSE t[i - Len(h)]
  BY <1>1, ConcatProperties
<1>3. Len(q) = Len(t) + 2 /\ q[1] = a /\ q[2] = b
  BY <1>1, <1>2
<1>4. \A i \in 3..(Len(t) + 2) : q[i] = t[i - 2]
  BY <1>1, <1>2
<1> QED BY <1>2, <1>3, <1>4

(* All but the root                                                         *)
LEMMA TailIs ==
  ASSUME NEW r \in Seq(Slabs), Len(r) >= 1
  PROVE  /\ Tail(r) \in Seq(Slabs) /\ Len(Tail(r)) = Len(r) - 1
         /\ \A i \in 1..(Len(r) - 1) : Tail(r)[i] = r[i + 1]
<1>1. r # <<>>
  OBVIOUS
<1> QED BY <1>1, HeadTailProperties

(* The chosen slab is moved in its ring, or, if it is the root, is left      *)
(* there alone.                                                             *)
LEMMA MoveToFrontOK ==
  ASSUME NEW x, Sound(x), NEW c \in Caches, NEW k \in 1..Len(x.ring[c]),
         NEW y, y = MoveToFront(x, c, x.ring[c][k])
  PROVE  /\ Sound(y) /\ y.of = x.of /\ y.used = x.used /\ y.home = x.home
         /\ y.pages = x.pages /\ y.stuck = x.stuck
<1> DEFINE r == x.ring[c]
           s == r[k]
           w == Without(r, s)
           q == <<r[1], s>> \o Tail(w)
<1>1. RingOK(x, c, r)
  BY RingsAre DEF Sound
<1>2. r \in Seq(Slabs) /\ Len(r) \in Nat /\ Len(r) >= 1 /\ s \in Slabs /\ r[1] \in Slabs
  BY <1>1 DEF RingOK
<1>3. y = IF s = Next1(r) THEN x ELSE IF s = r[1] THEN [x EXCEPT !.ring[c] = <<s>>]
          ELSE [x EXCEPT !.ring[c] = q]
  BY DEF MoveToFront
<1>4. CASE s = Next1(r)
  BY <1>3, <1>4
<1>5. CASE s # Next1(r) /\ s = r[1]
  <2> DEFINE p == <<s>>
             pi == [i \in 1..Len(p) |-> 1]
  <2>1. p \in Seq(Slabs) /\ Len(p) = 1 /\ p[1] = r[1] /\ Len(p) >= 1
    BY <1>2, <1>5
  <2>2. pi \in [1..Len(p) -> 1..Len(r)] /\ \A i, l \in 1..Len(p) : pi[i] = pi[l] => i = l
    BY <1>2, <2>1
  <2>3. \A i \in 1..Len(p) : p[i] = r[pi[i]]
    BY <2>1
  <2>4. y = WithRing(x, c, p)
    BY <1>3, <1>5 DEF WithRing
  <2> HIDE DEF p, pi, r, s, w, q
  <2>5. RingOK(x, c, p)
    <3>1. Reorders(r, p, pi)
      BY <2>1, <2>2, <2>3 DEF Reorders
    <3> QED BY <1>1, <3>1, RingOrder
  <2>6. RingOnly(x, WithRing(x, c, p))
    BY <2>5, RingChange
  <2> QED BY <2>4, <2>6 DEF RingOnly
<1>6. CASE s # Next1(r) /\ s # r[1]
  <2> DEFINE pi == [i \in 1..Len(q) |-> IF i = 1 THEN 1 ELSE IF i = 2 THEN k
                                        ELSE IF i - 1 < k THEN i - 1 ELSE i]
  <2>1. k # 1 /\ k \in 1..Len(r)
    BY <1>6
  <2>2. /\ w \in Seq(Slabs) /\ Len(w) = Len(r) - 1
        /\ \A i \in 1..(Len(r) - 1) : w[i] = IF i < k THEN r[i] ELSE r[i + 1]
    BY <1>1, WithoutIs
  <2>3. /\ Tail(w) \in Seq(Slabs) /\ Len(Tail(w)) = Len(w) - 1
        /\ \A i \in 1..(Len(w) - 1) : Tail(w)[i] = w[i + 1]
    <3>1. Len(w) >= 1
      BY <1>2, <2>1, <2>2
    <3> HIDE DEF w
    <3> QED BY <2>2, <3>1, TailIs
  <2>4. /\ q \in Seq(Slabs) /\ Len(q) = Len(Tail(w)) + 2 /\ q[1] = r[1] /\ q[2] = s
        /\ \A i \in 3..(Len(Tail(w)) + 2) : q[i] = Tail(w)[i - 2]
    <3> HIDE DEF w, r, s
    <3> QED BY <1>2, <2>3, TwoBefore
  <2>5. y = WithRing(x, c, q)
    BY <1>3, <1>6 DEF WithRing
  <2>6. s = r[k]
    OBVIOUS
  <2> HIDE DEF q, w, r, s
  <2>7. Len(q) = Len(r)
    BY <1>2, <2>2, <2>3, <2>4
  <2>8. ASSUME NEW i \in 3..Len(q) PROVE q[i] = w[i - 1]
    <3>1. i \in 3..(Len(Tail(w)) + 2) /\ i - 2 \in 1..(Len(w) - 1) /\ (i - 2) + 1 = i - 1
      BY <1>2, <2>2, <2>3, <2>7
    <3>2. q[i] = Tail(w)[i - 2] /\ Tail(w)[i - 2] = w[(i - 2) + 1]
      BY <2>3, <2>4, <3>1
    <3> QED BY <3>1, <3>2
  <2>9. ASSUME NEW i \in 1..Len(q) PROVE q[i] = r[pi[i]]
    <3>1. CASE i = 1
      BY <2>4, <3>1
    <3>2. CASE i = 2
      BY <2>4, <2>6, <3>2
    <3>3. CASE i # 1 /\ i # 2
      <4>1. i \in 3..Len(q) /\ i - 1 \in 1..(Len(r) - 1) /\ (i - 1) + 1 = i
        BY <1>2, <2>7, <3>3
      <4>2. w[i - 1] = IF i - 1 < k THEN r[i - 1] ELSE r[i]
        BY <2>2, <4>1
      <4>3. pi[i] = IF i - 1 < k THEN i - 1 ELSE i
        BY <3>3
      <4> HIDE DEF pi
      <4> QED BY <2>8, <4>1, <4>2, <4>3
    <3> QED BY <3>1, <3>2, <3>3
  <2>10. pi \in [1..Len(q) -> 1..Len(r)] /\ \A i, l \in 1..Len(q) : pi[i] = pi[l] => i = l
    BY <1>2, <2>1, <2>7
  <2>11. Len(q) >= 1
    BY <1>2, <2>7
  <2> HIDE DEF pi
  <2>12. RingOK(x, c, q)
    <3>1. Reorders(r, q, pi)
      BY <2>4, <2>9, <2>10, <2>11 DEF Reorders
    <3> QED BY <1>1, <3>1, RingOrder
  <2>13. RingOnly(x, WithRing(x, c, q))
    BY <2>12, RingChange
  <2> QED BY <2>5, <2>13 DEF RingOnly
<1> QED BY <1>4, <1>5, <1>6

(* kmalloc chooses a slab of the ring.                                      *)
LEMMA ChosenOK ==
  ASSUME NEW x, Sound(x), NEW c \in Caches
  PROVE  \E k \in 1..Len(x.ring[c]) : Chosen(x, c) = x.ring[c][k]
<1> DEFINE r == x.ring[c]
           good == {k \in 1..Len(r) : x.free[r[k]] > 0}
<1>1. Len(r) \in Nat /\ Len(r) >= 1
  BY RingsAre DEF Sound, RingOK
<1>2. Chosen(x, c) = IF good = {} THEN r[1] ELSE r[Min(good)]
  BY DEF Chosen
<1>3. CASE good = {}
  BY <1>1, <1>2, <1>3
<1>4. CASE good # {}
  <2>1. Min(good) \in good
    <3>1. good \subseteq Nat
      OBVIOUS
    <3> HIDE DEF good
    <3> QED BY <1>4, <3>1, MinIn
  <2> QED BY <1>2, <1>4, <2>1
<1> QED BY <1>3, <1>4

(* The root's next is in the ring.                                          *)
LEMMA NextOK ==
  ASSUME NEW x, Sound(x), NEW c \in Caches, NEW s, s = Next1(x.ring[c])
  PROVE  s \in Slabs /\ x.of[s] = c
<1>1. RingOK(x, c, x.ring[c])
  BY RingsAre DEF Sound
<1>2. Len(x.ring[c]) \in Nat /\ Len(x.ring[c]) >= 1
  BY <1>1 DEF RingOK
<1>3. s = IF Len(x.ring[c]) = 1 THEN x.ring[c][1] ELSE x.ring[c][2]
  BY DEF Next1
<1>4. \E k \in 1..Len(x.ring[c]) : s = x.ring[c][k]
  <2>1. CASE Len(x.ring[c]) = 1
    BY <1>3, <2>1
  <2>2. CASE Len(x.ring[c]) # 1
    <3>1. PICK n \in Nat : n = Len(x.ring[c])
      BY <1>2
    <3>2. n >= 1 /\ n # 1
      BY <1>2, <2>2, <3>1
    <3>3. 2 \in 1..n
      BY <3>2
    <3> QED BY <1>3, <2>2, <3>1, <3>3
  <2> QED BY <2>1, <2>2
<1> QED BY <1>1, <1>4 DEF RingOK

(* A page is taken from the page allocator.                                 *)
LEMMA WithoutPageOK ==
  ASSUME NEW x, Sound(x), x.pages # {}, NEW y, y = WithoutPage(x), NEW p, p = Min(x.pages)
  PROVE  /\ p \in x.pages /\ p \in Pages /\ Sound(y) /\ y.of = x.of /\ y.used = x.used /\ y.home = x.home
         /\ y.pages = x.pages \ {p} /\ y.stuck = x.stuck
<1>1. x \in Memory /\ x.pages \subseteq Pages
  BY Fields DEF Sound
<1>2. p \in x.pages
  BY <1>1, MinIn, SlabsAre
<1>3. /\ y \in Memory /\ y.of = x.of /\ y.used = x.used /\ y.home = x.home /\ y.pages = x.pages \ {p}
      /\ y.stuck = x.stuck /\ y.ring = x.ring /\ y.cacheFree = x.cacheFree /\ y.free = x.free
  BY <1>1 DEF WithoutPage, Memory
<1>4. Sound(y)
  BY <1>3, SoundSame
<1> QED BY <1>1, <1>2, <1>3, <1>4

-----------------------------------------------------------------------------
(* A new slab                                                               *)

(* A ring with a new slab behind its root                                   *)
Linked(y, c, r, p) == y.of[p] = c /\ \A k \in 1..Len(r) : r[k] # p /\ y.of[r[k]] = c

(* It is a ring.                                                            *)
LEMMA RingLinked ==
  ASSUME NEW x, NEW c, NEW r, RingOK(x, c, r), NEW p \in Slabs, NEW y, Linked(y, c, r, p)
  PROVE  RingOK(y, c, <<r[1], p>> \o Tail(r))
<1> DEFINE q == <<r[1], p>> \o Tail(r)
<1> USE DEF Linked
<1>1. r \in Seq(Slabs) /\ Len(r) \in Nat /\ Len(r) >= 1 /\ r[1] \in Slabs /\ r[1] = Root[c]
  BY DEF RingOK
<1>2. /\ Tail(r) \in Seq(Slabs) /\ Len(Tail(r)) = Len(r) - 1
      /\ \A i \in 1..(Len(r) - 1) : Tail(r)[i] = r[i + 1]
  BY <1>1, TailIs
<1>3. /\ q \in Seq(Slabs) /\ Len(q) = Len(Tail(r)) + 2 /\ q[1] = r[1] /\ q[2] = p
      /\ \A i \in 3..(Len(Tail(r)) + 2) : q[i] = Tail(r)[i - 2]
  BY <1>1, <1>2, TwoBefore
<1>11. q = <<r[1], p>> \o Tail(r)
  OBVIOUS
<1> HIDE DEF q
<1>4. Len(q) = Len(r) + 1
  BY <1>1, <1>2, <1>3
<1>5. ASSUME NEW i \in 3..Len(q) PROVE q[i] = r[i - 1] /\ i - 1 \in 2..Len(r)
  <2>1. i \in 3..(Len(Tail(r)) + 2) /\ i - 2 \in 1..(Len(r) - 1) /\ (i - 2) + 1 = i - 1
    BY <1>1, <1>2, <1>4
  <2>2. q[i] = Tail(r)[i - 2] /\ Tail(r)[i - 2] = r[(i - 2) + 1]
    BY <1>2, <1>3, <2>1
  <2>3. i - 1 \in 2..Len(r)
    BY <1>1, <1>4
  <2> QED BY <2>1, <2>2, <2>3
<1>6. ASSUME NEW i \in 1..Len(q) PROVE i = 2 \/ (i = 1 /\ q[i] = r[1]) \/ (i \in 3..Len(q) /\ q[i] = r[i - 1])
  <2>1. i = 1 \/ i = 2 \/ i \in 3..Len(q)
    BY <1>1, <1>4
  <2> QED BY <1>3, <1>5, <2>1
<1>7. 1 \in 1..Len(r)
  BY <1>1
<1>8. ASSUME NEW i \in 1..Len(q) PROVE y.of[q[i]] = c /\ (q[i] = p => i = 2)
  <2>1. CASE i = 2
    BY <1>3, <2>1
  <2>2. CASE i = 1
    BY <1>3, <1>7, <2>2
  <2>3. CASE i \in 3..Len(q)
    <3>1. i - 1 \in 1..Len(r) /\ q[i] = r[i - 1]
      BY <1>1, <1>5, <2>3
    <3> QED BY <3>1
  <2> QED BY <1>6, <2>1, <2>2, <2>3
<1>9. ASSUME NEW i \in 1..Len(q), NEW l \in 1..Len(q), q[i] = q[l] PROVE i = l
  <2> DEFINE at(n) == IF n = 1 THEN 1 ELSE n - 1
  <2>1. CASE q[i] = p
    <3>1. i = 2 /\ l = 2
      BY <1>8, <1>9, <2>1
    <3> QED BY <3>1
  <2>2. CASE q[i] # p
    <3>1. i # 2 /\ l # 2
      BY <1>3, <1>9, <2>2
    <3>2. q[i] = r[at(i)] /\ q[l] = r[at(l)] /\ at(i) \in 1..Len(r) /\ at(l) \in 1..Len(r)
      BY <1>4, <1>6, <1>7, <1>1, <3>1
    <3>3. at(i) = at(l)
      BY <1>9, <3>2, ZenonT(60) DEF RingOK
    <3> QED BY <1>1, <1>4, <3>1, <3>3
  <2> QED BY <2>1, <2>2
<1>10. Len(q) >= 1
  BY <1>1, <1>4
<1>12. RingOK(y, c, q)
  BY <1>1, <1>3, <1>8, <1>9, <1>10 DEF RingOK
<1> QED BY <1>11, <1>12

(* A page that is linked is a slab of its cache, all of it free.            *)
LEMMA LinkSlabOK ==
  ASSUME NEW x, Sound(x), NEW c \in Caches, NEW p \in Pages, x.of[p] = "none", NEW y, y = LinkSlab(x, c, p)
  PROVE  /\ Sound(y) /\ y.of = [x.of EXCEPT ![p] = c] /\ y.used = x.used /\ y.home = x.home
         /\ y.pages = x.pages /\ y.stuck = x.stuck
<1> DEFINE r == x.ring[c]
           q == <<r[1], p>> \o Tail(r)
<1>1. /\ x \in Memory /\ x.ring \in [Caches -> Seq(Slabs)] /\ x.cacheFree \in [Caches -> Nat]
      /\ x.of \in [Slabs -> Caches \cup {"none"}] /\ x.used \in [Slabs -> SUBSET Nat]
      /\ x.free \in [Slabs -> Nat]
  BY Fields DEF Sound
<1>2. p \in Slabs /\ "none" \notin Caches /\ PushCnt[c] \in Nat
  BY SlabsAre, SlabAssumption
<1>3. x.used[p] = {} /\ x.free[p] = 0
  BY <1>2 DEF Sound, UsedOK
<1>4. \A d \in Caches : RingOK(x, d, x.ring[d])
  BY <1>1, RingsAre DEF Sound
<1>5. y = [x EXCEPT !.of[p] = c, !.used[p] = {}, !.free[p] = PushCnt[c],
                    !.cacheFree[c] = @ + PushCnt[c], !.ring[c] = q]
  BY DEF LinkSlab
<1>6. /\ y.of = [x.of EXCEPT ![p] = c] /\ y.used = [x.used EXCEPT ![p] = {}]
      /\ y.free = [x.free EXCEPT ![p] = PushCnt[c]]
      /\ y.cacheFree = [x.cacheFree EXCEPT ![c] = @ + PushCnt[c]]
      /\ y.ring = [x.ring EXCEPT ![c] = q]
      /\ y.home = x.home /\ y.pages = x.pages /\ y.stuck = x.stuck /\ y.got = x.got
      /\ y = [ring |-> y.ring, cacheFree |-> y.cacheFree, of |-> y.of, used |-> y.used, free |-> y.free,
              home |-> y.home, pages |-> y.pages, got |-> y.got, stuck |-> y.stuck]
  BY <1>5, <1>1 DEF Memory
<1>7. q = <<r[1], p>> \o Tail(r) /\ r = x.ring[c]
  OBVIOUS
<1> HIDE DEF q, r
<1>8. y.used = x.used
  <2>1. x.used = [s \in Slabs |-> x.used[s]] /\ y.used = [s \in Slabs |-> IF s = p THEN {} ELSE x.used[s]]
    BY <1>1, <1>6
  <2> QED BY <1>3, <2>1
<1>9. /\ y.of[p] = c /\ y.free[p] = PushCnt[c] /\ y.cacheFree[c] = x.cacheFree[c] + PushCnt[c]
      /\ \A s \in Slabs : s # p => y.of[s] = x.of[s] /\ y.free[s] = x.free[s]
      /\ \A d \in Caches : d # c => y.cacheFree[d] = x.cacheFree[d]
  BY <1>1, <1>2, <1>6
<1>10. ASSUME NEW d \in Caches PROVE RingOK(y, d, y.ring[d])
  <2>1. \A k \in 1..Len(x.ring[d]) : x.ring[d][k] # p /\ y.of[x.ring[d][k]] = d
    <3> SUFFICES ASSUME NEW k \in 1..Len(x.ring[d]) PROVE x.ring[d][k] # p /\ y.of[x.ring[d][k]] = d
      OBVIOUS
    <3>1. x.ring[d][k] \in Slabs /\ x.of[x.ring[d][k]] = d
      BY <1>4 DEF RingOK
    <3> QED BY <1>2, <1>9, <3>1
  <2>2. CASE d = c
    <3>1. y.ring[d] = q
      BY <1>1, <1>6, <2>2
    <3>2. RingOK(x, c, r) /\ \A k \in 1..Len(r) : r[k] # p /\ y.of[r[k]] = c
      BY <1>4, <1>7, <2>1, <2>2
    <3>4. Linked(y, c, r, p)
      BY <1>9, <3>2 DEF Linked
    <3>5. RingOK(y, c, <<r[1], p>> \o Tail(r))
      BY <1>2, <3>2, <3>4, RingLinked
    <3>3. RingOK(y, c, q)
      BY <1>7, <3>5
    <3> QED BY <2>2, <3>1, <3>3
  <2>3. CASE d # c
    <3>1. y.ring[d] = x.ring[d]
      BY <1>1, <1>6, <2>3
    <3> QED BY <1>4, <2>1, <3>1 DEF RingOK
  <2> QED BY <2>2, <2>3
<1>11. y \in Memory
  <2>1. y.of \in [Slabs -> Caches \cup {"none"}] /\ y.free \in [Slabs -> Nat]
    BY <1>1, <1>2, <1>6
  <2>2. y.cacheFree \in [Caches -> Nat]
    BY <1>1, <1>2, <1>6
  <2>3. y.ring \in [Caches -> Seq(Slabs)]
    <3>1. \A d \in Caches : y.ring[d] \in Seq(Slabs)
      BY <1>10 DEF RingOK
    <3> QED BY <1>1, <1>6, <3>1
  <2>4. /\ y.home \in [Slabs -> Seq(Slabs \X Nat)] /\ y.pages \in SUBSET Pages /\ y.stuck \in BOOLEAN
        /\ y.got \in (Slabs \X Nat) \cup {NONE}
    BY <1>1, <1>6, Fields
  <2>5. y.used \in [Slabs -> SUBSET Nat]
    BY <1>1, <1>8
  <2> QED BY <1>6, <2>1, <2>2, <2>3, <2>4, <2>5 DEF Memory
<1>12. RingsOK(y)
  BY <1>10, <1>11, RingsAre
<1>13. UsedOK(y)
  <2> SUFFICES ASSUME NEW s \in Slabs
               PROVE  IF y.of[s] = "none" THEN y.used[s] = {} /\ y.free[s] = 0
                      ELSE /\ y.used[s] \subseteq 0..(Cnt(y, s) - 1)
                           /\ y.free[s] = Cnt(y, s) - Cardinality(y.used[s])
    BY DEF UsedOK
  <2>1. CASE s = p
    <3>1. Cnt(y, s) = PushCnt[c]
      BY <1>9, <2>1 DEF Cnt
    <3>2. Cardinality({}) = 0
      BY FS_EmptySet
    <3>3. y.of[s] # "none" /\ y.used[s] = {} /\ y.free[s] = PushCnt[c]
      BY <1>2, <1>3, <1>8, <1>9, <2>1
    <3>4. PushCnt[c] = PushCnt[c] - 0
      BY <1>2
    <3> QED BY <3>1, <3>2, <3>3, <3>4
  <2>2. CASE s # p
    <3>1. Cnt(y, s) = Cnt(x, s)
      BY <1>9, <2>2 DEF Cnt
    <3> QED BY <1>8, <1>9, <2>2, <3>1 DEF Sound, UsedOK
  <2> QED BY <2>1, <2>2
<1>14. CacheCountsOK(y)
  <2> SUFFICES ASSUME NEW d \in Caches PROVE y.cacheFree[d] = FreeBlocks(y, d)
    BY DEF CacheCountsOK
  <2>1. OthersKept(x, y, p)
    BY <1>9 DEF OthersKept
  <2>2. /\ FreeBlocks(x, d) \in Nat
        /\ FreeBlocks(y, d) = FreeBlocks(x, d) + (IF y.of[p] = d THEN y.free[p] ELSE 0)
                               - (IF x.of[p] = d THEN x.free[p] ELSE 0)
    BY <1>1, <1>2, <1>11, <2>1, FreeBlocksOne
  <2>3. x.cacheFree[d] = FreeBlocks(x, d) /\ x.of[p] # d
    BY <1>2 DEF Sound, CacheCountsOK
  <2>4. CASE d = c
    BY <1>2, <1>9, <2>2, <2>3, <2>4
  <2>5. CASE d # c
    BY <1>9, <2>2, <2>3, <2>5
  <2> QED BY <2>4, <2>5
<1> QED BY <1>6, <1>8, <1>11, <1>12, <1>13, <1>14 DEF Sound

-----------------------------------------------------------------------------
(* kmalloc                                                                  *)

(* A page becomes a slab.                                                   *)
LEMMA PageLinked ==
  ASSUME NEW x, Sound(x), x.pages # {}, NEW hand, PagesOK(x, hand), NEW c \in Caches,
         NEW y, y = LinkSlab(WithoutPage(x), c, Min(x.pages))
  PROVE  /\ Sound(y) /\ PagesOK(y, hand) /\ y.used = x.used /\ y.home = x.home /\ y.stuck = x.stuck
         /\ \A s \in Slabs : y.of[s] = x.of[s] \/ (x.of[s] = "none" /\ y.of[s] = c)
<1> DEFINE p == Min(x.pages)
           z == WithoutPage(x)
<1>1. /\ p \in x.pages /\ p \in Pages /\ Sound(z) /\ z.of = x.of /\ z.used = x.used /\ z.home = x.home
      /\ z.pages = x.pages \ {p} /\ z.stuck = x.stuck
  BY WithoutPageOK
<1>2. y = LinkSlab(z, c, p)
  OBVIOUS
<1> HIDE DEF p, z
<1>3. x.of[p] = "none" /\ p \notin hand
  BY <1>1 DEF PagesOK
<1>4. /\ Sound(y) /\ y.of = [z.of EXCEPT ![p] = c] /\ y.used = z.used /\ y.home = z.home
      /\ y.pages = z.pages /\ y.stuck = z.stuck
  BY <1>1, <1>2, <1>3, LinkSlabOK
<1>5. DOMAIN x.of = Slabs /\ "none" \notin Caches /\ p \in Slabs /\ Pages \subseteq Slabs
  BY <1>1, Fields, SlabsAre DEF Sound
<1>6. y.of[p] = c /\ \A s \in Slabs : s # p => y.of[s] = x.of[s]
  BY <1>1, <1>4, <1>5
<1>7. y.pages = x.pages \ {p}
  BY <1>1, <1>4
<1>8. PagesOK(y, hand)
  <2>1. y.pages \cap hand = {}
    BY <1>7 DEF PagesOK
  <2>2. ASSUME NEW s \in Pages PROVE y.of[s] = "none" <=> s \in y.pages \cup hand
    <3>1. CASE s = p
      BY <1>3, <1>5, <1>6, <1>7, <3>1
    <3>2. CASE s # p
      BY <1>5, <1>6, <1>7, <3>2 DEF PagesOK
    <3> QED BY <3>1, <3>2
  <2> QED BY <2>1, <2>2 DEF PagesOK
<1>9. \A s \in Slabs : y.of[s] = x.of[s] \/ (x.of[s] = "none" /\ y.of[s] = c)
  BY <1>3, <1>6
<1> QED BY <1>1, <1>4, <1>8, <1>9

(* A kmalloc of a small block keeps every slab, and the blocks of others.   *)
Grown(x, y) ==
  /\ y.home = x.home /\ y.stuck = x.stuck
  /\ \A s \in Slabs : y.of[s] = x.of[s] \/ (x.of[s] = "none" /\ y.of[s] = "small")
  /\ Got(x, y) /\ (y.got # NONE => y.of[y.got[1]] = "small")

(* It does so, whether it chooses a slab or makes a page one.               *)
LEMMA KmallocSmallOK ==
  ASSUME NEW x, Sound(x), NEW hand, PagesOK(x, hand), NEW y, y = KmallocSmall(x)
  PROVE  Sound(y) /\ PagesOK(y, hand) /\ Grown(x, y)
<1>0. "small" \in Caches /\ "none" # "small"
  BY SlabsAre
<1>1. CASE x.cacheFree["small"] > 0
  <2> DEFINE s == Chosen(x, "small")
             z == MoveToFront(x, "small", s)
  <2>1. PICK k \in 1..Len(x.ring["small"]) : s = x.ring["small"][k]
    BY <1>0, ChosenOK
  <2>2. z = MoveToFront(x, "small", x.ring["small"][k])
    BY <2>1
  <2>3. y = TakeBlock(z, s)
    BY <1>1 DEF KmallocSmall
  <2>4. s \in Slabs /\ x.of[s] = "small"
    <3>1. RingOK(x, "small", x.ring["small"])
      BY <1>0, RingsAre DEF Sound
    <3> HIDE DEF s, z
    <3> QED BY <2>1, <3>1 DEF RingOK
  <2> HIDE DEF z, s
  <2>5. /\ Sound(z) /\ z.of = x.of /\ z.used = x.used /\ z.home = x.home
        /\ z.pages = x.pages /\ z.stuck = x.stuck
    BY <1>0, <2>2, MoveToFrontOK
  <2>6. z.of[s] # "none"
    BY <1>0, <2>4, <2>5
  <2>7. /\ Sound(y) /\ Got(z, y) /\ (y.got # NONE => y.got[1] = s)
        /\ y.of = z.of /\ y.ring = z.ring /\ y.home = z.home /\ y.pages = z.pages /\ y.stuck = z.stuck
    BY <2>3, <2>4, <2>5, <2>6, TakeBlockOK
  <2>8. Got(x, y)
    BY <2>5, <2>7 DEF Got, Marked
  <2>9. PagesOK(y, hand)
    BY <2>5, <2>7 DEF PagesOK
  <2> QED BY <2>4, <2>5, <2>7, <2>8, <2>9 DEF Grown
<1>2. CASE ~(x.cacheFree["small"] > 0)
  <2> DEFINE z == IF x.pages = {} THEN x ELSE LinkSlab(WithoutPage(x), "small", Min(x.pages))
             s == Next1(z.ring["small"])
  <2>1. y = TakeBlock(z, s)
    BY <1>2 DEF KmallocSmall
  <2>2. /\ Sound(z) /\ PagesOK(z, hand) /\ z.used = x.used /\ z.home = x.home /\ z.stuck = x.stuck
        /\ \A r \in Slabs : z.of[r] = x.of[r] \/ (x.of[r] = "none" /\ z.of[r] = "small")
    <3>1. CASE x.pages = {}
      BY <3>1
    <3>2. CASE x.pages # {}
      <4>1. z = LinkSlab(WithoutPage(x), "small", Min(x.pages))
        BY <3>2
      <4> HIDE DEF z
      <4> QED BY <1>0, <3>2, <4>1, PageLinked
    <3> QED BY <3>1, <3>2
  <2>3. s \in Slabs /\ z.of[s] = "small"
    <3> HIDE DEF z
    <3> QED BY <1>0, <2>2, NextOK
  <2> HIDE DEF z, s
  <2>4. z.of[s] # "none"
    BY <1>0, <2>3
  <2>5. /\ Sound(y) /\ Got(z, y) /\ (y.got # NONE => y.got[1] = s)
        /\ y.of = z.of /\ y.ring = z.ring /\ y.home = z.home /\ y.pages = z.pages /\ y.stuck = z.stuck
    BY <2>1, <2>2, <2>3, <2>4, TakeBlockOK
  <2>6. Got(x, y)
    BY <2>2, <2>5 DEF Got, Marked
  <2>7. PagesOK(y, hand)
    BY <2>2, <2>5 DEF PagesOK
  <2> QED BY <2>2, <2>3, <2>5, <2>6, <2>7 DEF Grown
<1> QED BY <1>1, <1>2

(* The blocks that are marked and no structure of a slab                    *)
Clients(x) == Marked(x) \ Homes(x)
Given(x, y) ==
  \/ y.got = NONE /\ Clients(y) = Clients(x)
  \/ y.got # NONE /\ y.got \notin Clients(x) /\ Clients(y) = Clients(x) \cup {y.got}

(* The structures stay where small slabs and marks are only added.          *)
LEMMA HomesKept ==
  ASSUME NEW x, HomesOK(x), NEW y, y.home = x.home, Marked(x) \subseteq Marked(y),
         \A s \in Slabs : y.of[s] = x.of[s] \/ (x.of[s] = "none" /\ y.of[s] = "small")
  PROVE  HomesOK(y) /\ Homes(y) = Homes(x) /\ \A s \in Slabs : HomeOf(y, s) = HomeOf(x, s)
<1>1. Homes(y) = Homes(x) /\ \A s \in Slabs : HomeOf(y, s) = HomeOf(x, s)
  BY DEF Homes, HomeOf
<1>2. ASSUME NEW b \in Homes(y) PROVE b \in Marked(y) /\ y.of[b[1]] = "small"
  <2>1. b \in Marked(x) /\ x.of[b[1]] = "small"
    BY <1>1 DEF HomesOK
  <2>2. b[1] \in Slabs
    BY <2>1 DEF Marked
  <2> QED BY <2>1, <2>2
<1>3. \A s \in Slabs : y.of[s] = "big" <=> x.of[s] = "big"
  OBVIOUS
<1> QED BY <1>1, <1>2, <1>3 DEF HomesOK

(* A block of a cache is given to somebody.                                 *)
LEMMA BlockGiven ==
  ASSUME NEW x, HomesOK(x), NEW y, Got(x, y), y.home = x.home,
         \A s \in Slabs : y.of[s] = x.of[s] \/ (x.of[s] = "none" /\ y.of[s] = "small")
  PROVE  HomesOK(y) /\ Given(x, y)
<1>1. Marked(x) \subseteq Marked(y)
  BY DEF Got
<1>2. HomesOK(y) /\ Homes(y) = Homes(x)
  BY <1>1, HomesKept
<1>3. Homes(x) \subseteq Marked(x)
  BY DEF HomesOK
<1>4. CASE y.got = NONE /\ Marked(y) = Marked(x)
  BY <1>2, <1>4 DEF Given, Clients
<1>5. CASE /\ y.got \in Slabs \X Nat /\ y.got \notin Marked(x)
           /\ Marked(y) = Marked(x) \cup {y.got}
  <2>1. y.got # NONE
    BY <1>5 DEF NONE
  <2> QED BY <1>2, <1>3, <1>5, <2>1 DEF Given, Clients
<1> QED BY <1>2, <1>4, <1>5 DEF Got

(* A new slab of the big cache: its page, and two blocks of small slabs     *)
LEMMA PushBigOK ==
  ASSUME NEW x, Sound(x), ~x.stuck, PagesOK(x, {}), HomesOK(x), NEW w, w = PushBig(x)
  PROVE  Sound(w) /\ (~w.stuck => PagesOK(w, {}) /\ HomesOK(w) /\ Clients(w) = Clients(x))
<1>1. CASE x.pages = {}
  BY <1>1 DEF PushBig
<1>2. CASE x.pages # {}
  <2> DEFINE p == Min(x.pages)
             v == WithoutPage(x)
             y == KmallocSmall(v)
             z == KmallocSmall(y)
             u == LinkSlab(z, "big", p)
  <2>1. w = IF y.got = NONE \/ z.got = NONE THEN [x EXCEPT !.stuck = TRUE]
            ELSE [u EXCEPT !.home[p] = <<y.got, z.got>>]
    BY <1>2 DEF PushBig
  <2>2. "big" \in Caches /\ "small" # "big" /\ "none" # "big" /\ "none" # "small" /\ Pages \subseteq Slabs
    BY SlabsAre
  <2>3. /\ p \in x.pages /\ p \in Pages /\ Sound(v) /\ v.of = x.of /\ v.used = x.used /\ v.home = x.home
        /\ v.pages = x.pages \ {p} /\ v.stuck = x.stuck
    BY <1>2, WithoutPageOK
  <2>4. y = KmallocSmall(v) /\ z = KmallocSmall(y) /\ u = LinkSlab(z, "big", p)
    OBVIOUS
  <2> HIDE DEF p, v, y, z, u
  <2>5. PagesOK(v, {p})
    BY <2>3 DEF PagesOK
  <2>6. Sound(y) /\ PagesOK(y, {p}) /\ Grown(v, y)
    BY <2>3, <2>4, <2>5, KmallocSmallOK
  <2>7. Sound(z) /\ PagesOK(z, {p}) /\ Grown(y, z)
    BY <2>4, <2>6, KmallocSmallOK
  <2>8. CASE y.got = NONE \/ z.got = NONE
    <3>1. w = [x EXCEPT !.stuck = TRUE]
      BY <2>1, <2>8
    <3>2. x \in Memory
      BY DEF Sound
    <3>3. /\ w \in Memory /\ w.ring = x.ring /\ w.cacheFree = x.cacheFree
          /\ w.of = x.of /\ w.used = x.used /\ w.free = x.free /\ w.stuck
      BY <3>1, <3>2 DEF Memory
    <3> QED BY <3>3, SoundSame
  <2>9. CASE ~(y.got = NONE \/ z.got = NONE)
    <3> DEFINE a == y.got
               b == z.got
    <3>1. w = [u EXCEPT !.home[p] = <<a, b>>]
      BY <2>1, <2>9
    <3>2. z.of[p] = "none" /\ p \notin z.pages /\ x.of[p] = "none"
      BY <2>3, <2>7 DEF PagesOK
    <3>3. /\ Sound(u) /\ u.of = [z.of EXCEPT ![p] = "big"] /\ u.used = z.used /\ u.home = z.home
          /\ u.pages = z.pages /\ u.stuck = z.stuck
      BY <2>2, <2>3, <2>4, <2>7, <3>2, LinkSlabOK
    <3>4. /\ a \in Slabs \X Nat /\ a \notin Marked(x) /\ Marked(y) = Marked(x) \cup {a}
          /\ y.of[a[1]] = "small" /\ y.home = x.home
      <4>1. Marked(v) = Marked(x)
        BY <2>3 DEF Marked
      <4> QED BY <2>3, <2>6, <2>9, <4>1 DEF Grown, Got
    <3>5. /\ b \in Slabs \X Nat /\ b \notin Marked(y) /\ Marked(z) = Marked(y) \cup {b}
          /\ z.of[b[1]] = "small" /\ z.home = y.home
      BY <2>7, <2>9 DEF Grown, Got
    <3>6. z.of[a[1]] = "small"
      <4>1. a[1] \in Slabs
        BY <3>4
      <4> QED BY <2>2, <2>7, <3>4, <4>1 DEF Grown
    <3>7. \A s \in Slabs : z.of[s] = x.of[s] \/ (x.of[s] = "none" /\ z.of[s] = "small")
      BY <2>2, <2>3, <2>6, <2>7 DEF Grown
    <3>8. u \in Memory /\ u.home \in [Slabs -> Seq(Slabs \X Nat)] /\ p \in Slabs
      BY <2>2, <2>3, <3>3, Fields DEF Sound
    <3> HIDE DEF a, b
    <3>9. /\ w \in Memory /\ w.ring = u.ring /\ w.cacheFree = u.cacheFree /\ w.of = u.of /\ w.used = u.used
          /\ w.free = u.free /\ w.stuck = u.stuck /\ w.pages = u.pages
          /\ w.home = [u.home EXCEPT ![p] = <<a, b>>]
      <4>1. <<a, b>> \in Seq(Slabs \X Nat)
        BY <3>4, <3>5
      <4>2. [u.home EXCEPT ![p] = <<a, b>>] \in [Slabs -> Seq(Slabs \X Nat)]
        BY <3>8, <4>1
      <4> QED BY <3>1, <3>8, <4>2 DEF Memory
    <3>10. Sound(w)
      BY <3>3, <3>9, SoundSame
    <3>11. w.of[p] = "big" /\ \A s \in Slabs : s # p => w.of[s] = z.of[s]
      <4>1. DOMAIN z.of = Slabs
        BY <2>7, Fields DEF Sound
      <4> QED BY <3>3, <3>8, <3>9, <4>1
    <3>12. w.home[p] = <<a, b>> /\ \A s \in Slabs : s # p => w.home[s] = x.home[s]
      BY <3>3, <3>4, <3>5, <3>8, <3>9
    <3>13. PagesOK(w, {})
      <4>1. \A s \in Pages : w.of[s] = "none" <=> s \in w.pages
        BY <2>2, <2>7, <3>2, <3>3, <3>9, <3>11 DEF PagesOK
      <4> QED BY <4>1 DEF PagesOK
    <3>14. HomeOf(w, p) = {a, b} /\ \A s \in Slabs : s # p => HomeOf(w, s) = HomeOf(x, s)
      <4>1. HomeOf(w, p) = {a, b}
        <5>1. DOMAIN <<a, b>> = {1, 2} /\ <<a, b>>[1] = a /\ <<a, b>>[2] = b
          OBVIOUS
        <5>2. HomeOf(w, p) = {<<a, b>>[k] : k \in DOMAIN <<a, b>>}
          BY <3>12 DEF HomeOf
        <5> QED BY <5>1, <5>2
      <4> QED BY <3>12, <4>1 DEF HomeOf
    <3>15. HomeOf(x, p) = {}
      <4>1. x.home[p] = <<>>
        BY <2>2, <3>2, <3>8 DEF HomesOK
      <4>2. DOMAIN <<>> = {}
        OBVIOUS
      <4> QED BY <4>1, <4>2 DEF HomeOf
    <3>16. Homes(w) = Homes(x) \cup {a, b}
      <4>1. Homes(w) \subseteq Homes(x) \cup {a, b}
        BY <3>14 DEF Homes
      <4>2. Homes(x) \subseteq Homes(w)
        BY <3>14, <3>15 DEF Homes
      <4>3. {a, b} \subseteq Homes(w)
        BY <3>8, <3>14 DEF Homes
      <4> QED BY <4>1, <4>2, <4>3
    <3>17. Marked(w) = Marked(x) \cup {a, b}
      <4>1. Marked(w) = Marked(z)
        BY <3>3, <3>9 DEF Marked
      <4> QED BY <3>4, <3>5, <4>1
    <3>18. Homes(x) \subseteq Marked(x)
      BY DEF HomesOK
    <3>19. Clients(w) = Clients(x)
      BY <3>4, <3>5, <3>16, <3>17, <3>18 DEF Clients
    <3>20. HomesOK(w)
      <4>1. ASSUME NEW s \in Slabs
            PROVE  IF s \in Pages /\ w.of[s] = "big"
                     THEN Len(w.home[s]) = 2 /\ w.home[s][1] # w.home[s][2]
                     ELSE w.home[s] = <<>>
        <5>1. CASE s = p
          <6>1. a # b
            BY <3>4, <3>5
          <6>2. w.of[s] = "big" /\ s \in Pages /\ w.home[s] = <<a, b>>
            BY <2>3, <3>11, <3>12, <5>1
          <6>3. Len(<<a, b>>) = 2 /\ <<a, b>>[1] = a /\ <<a, b>>[2] = b
            OBVIOUS
          <6> QED BY <6>1, <6>2, <6>3
        <5>2. CASE s # p
          <6>1. w.home[s] = x.home[s] /\ (w.of[s] = "big" <=> x.of[s] = "big")
            BY <2>2, <3>7, <3>11, <3>12, <5>2
          <6> QED BY <6>1 DEF HomesOK
        <5> QED BY <5>1, <5>2
      <4>2. ASSUME NEW d \in Homes(w) PROVE d \in Marked(w) /\ w.of[d[1]] = "small"
        <5>1. CASE d \in Homes(x)
          <6>1. d \in Marked(x) /\ x.of[d[1]] = "small"
            BY <5>1 DEF HomesOK
          <6>2. d[1] \in Slabs /\ d[1] # p
            BY <2>2, <3>2, <6>1 DEF Marked
          <6> QED BY <2>2, <3>7, <3>11, <3>17, <6>1, <6>2
        <5>2. CASE d \in {a, b}
          <6>1. d[1] \in Slabs /\ z.of[d[1]] = "small" /\ d \in Marked(w)
            <7>1. CASE d = a
              BY <3>4, <3>6, <3>17, <7>1
            <7>2. CASE d = b
              BY <3>5, <3>17, <7>2 DEF b
            <7> QED BY <5>2, <7>1, <7>2
          <6> QED BY <2>2, <3>2, <3>11, <6>1
        <5> QED BY <3>16, <5>1, <5>2
      <4>3. ASSUME NEW s \in Slabs, NEW r \in Slabs, s # r PROVE HomeOf(w, s) \cap HomeOf(w, r) = {}
        <5>1. \A q \in Slabs : HomeOf(x, q) \subseteq Marked(x)
          BY <3>18 DEF Homes
        <5>2. \A q \in Slabs : HomeOf(x, q) \cap {a, b} = {}
          BY <3>4, <3>5, <5>1
        <5>3. CASE s # p /\ r # p
          BY <3>14, <4>3, <5>3 DEF HomesOK
        <5>4. CASE s = p \/ r = p
          BY <3>14, <4>3, <5>2, <5>4
        <5> QED BY <5>3, <5>4
      <4> QED BY <4>1, <4>2, <4>3 DEF HomesOK
    <3> QED BY <3>10, <3>13, <3>19, <3>20
  <2> QED BY <2>8, <2>9
<1> QED BY <1>1, <1>2

(* What the holders of blocks are told by                                   *)
Alike(x, y) == y.of = x.of /\ y.used = x.used /\ y.home = x.home

(* Memories that are alike in it have the same holders.                     *)
LEMMA AlikeOK ==
  ASSUME NEW x, NEW y, Alike(x, y), NEW hand
  PROVE  /\ PagesOK(x, hand) /\ y.pages = x.pages => PagesOK(y, hand)
         /\ HomesOK(x) => HomesOK(y)
         /\ Marked(y) = Marked(x) /\ Homes(y) = Homes(x) /\ Clients(y) = Clients(x)
<1>1. Marked(y) = Marked(x) /\ \A s \in Slabs : HomeOf(y, s) = HomeOf(x, s)
  BY DEF Alike, Marked, HomeOf
<1>2. Homes(y) = Homes(x)
  BY <1>1 DEF Homes
<1>3. HomesOK(x) => HomesOK(y)
  BY <1>1, <1>2 DEF HomesOK, Alike
<1>4. PagesOK(x, hand) /\ y.pages = x.pages => PagesOK(y, hand)
  BY DEF PagesOK, Alike
<1> QED BY <1>1, <1>2, <1>3, <1>4 DEF Clients

(* All is well, with these pages in hand.                                   *)
Well(x, hand) == Sound(x) /\ ~x.stuck /\ PagesOK(x, hand) /\ HomesOK(x)

(* A block of a slab is given to somebody.                                  *)
LEMMA BlockTaken ==
  ASSUME NEW x, Well(x, {}), NEW s \in Slabs, x.of[s] # "none", NEW y, y = TakeBlock(x, s)
  PROVE  Well(y, {}) /\ Given(x, y)
<1>1. /\ Sound(y) /\ Got(x, y) /\ y.of = x.of /\ y.home = x.home /\ y.pages = x.pages /\ y.stuck = x.stuck
  BY TakeBlockOK DEF Well
<1>2. HomesOK(y) /\ Given(x, y)
  BY <1>1, BlockGiven DEF Well
<1>3. PagesOK(y, {})
  BY <1>1 DEF PagesOK, Well
<1> QED BY <1>1, <1>2, <1>3 DEF Well

(* A kmalloc of a big block keeps the structures of slabs, those of a slab  *)
(* it pushes included.                                                      *)
LEMMA KmallocBigOK ==
  ASSUME NEW x, Well(x, {}), NEW y, y = KmallocBig(x)
  PROVE  Sound(y) /\ (~y.stuck => Well(y, {}) /\ Given(x, y))
<1>0. "big" \in Caches /\ "none" # "big"
  BY SlabsAre
<1>1. CASE x.cacheFree["big"] > 0
  <2> DEFINE s == Chosen(x, "big")
             z == MoveToFront(x, "big", s)
  <2>1. PICK k \in 1..Len(x.ring["big"]) : s = x.ring["big"][k]
    BY <1>0, ChosenOK DEF Well
  <2>2. z = MoveToFront(x, "big", x.ring["big"][k])
    BY <2>1
  <2>3. y = TakeBlock(z, s)
    BY <1>1 DEF KmallocBig
  <2>4. s \in Slabs /\ x.of[s] = "big"
    <3>1. RingOK(x, "big", x.ring["big"])
      BY <1>0, RingsAre DEF Sound, Well
    <3> HIDE DEF s, z
    <3> QED BY <2>1, <3>1 DEF RingOK
  <2> HIDE DEF z, s
  <2>5. Sound(z) /\ Alike(x, z) /\ z.pages = x.pages /\ z.stuck = x.stuck
    BY <1>0, <2>2, MoveToFrontOK DEF Well, Alike
  <2>6. Well(z, {}) /\ Clients(z) = Clients(x)
    BY <2>5, AlikeOK DEF Well
  <2>7. z.of[s] # "none"
    BY <1>0, <2>4, <2>5 DEF Alike
  <2>8. Well(y, {}) /\ Given(z, y)
    BY <2>3, <2>4, <2>6, <2>7, BlockTaken
  <2> QED BY <2>6, <2>8 DEF Well, Given
<1>2. CASE ~(x.cacheFree["big"] > 0)
  <2> DEFINE z == PushBig(x)
             s == Next1(z.ring["big"])
  <2>1. y = IF z.stuck THEN z ELSE TakeBlock(z, s)
    BY <1>2 DEF KmallocBig
  <2>2. Sound(z) /\ (~z.stuck => PagesOK(z, {}) /\ HomesOK(z) /\ Clients(z) = Clients(x))
    BY PushBigOK DEF Well
  <2>3. CASE z.stuck
    BY <2>1, <2>2, <2>3
  <2>4. CASE ~z.stuck
    <3>1. s \in Slabs /\ z.of[s] = "big"
      <4> HIDE DEF z
      <4> QED BY <1>0, <2>2, NextOK
    <3> HIDE DEF z, s
    <3>2. z.of[s] # "none" /\ Well(z, {})
      BY <1>0, <2>2, <2>4, <3>1 DEF Well
    <3>3. Well(y, {}) /\ Given(z, y)
      BY <2>1, <2>4, <3>1, <3>2, BlockTaken
    <3> QED BY <2>2, <2>4, <3>3 DEF Well, Given
  <2> QED BY <2>3, <2>4
<1> QED BY <1>1, <1>2

(* A kmalloc gives a block that nobody holds, or none.                      *)
LEMMA KmallocOK ==
  ASSUME NEW x, Well(x, {}), NEW c \in Caches,
         NEW y, y = IF c = "small" THEN KmallocSmall(x) ELSE KmallocBig(x)
  PROVE  Sound(y) /\ (~y.stuck => Well(y, {}) /\ Given(x, y))
<1>1. CASE c = "small"
  <2>1. Sound(y) /\ PagesOK(y, {}) /\ Grown(x, y)
    BY <1>1, KmallocSmallOK DEF Well
  <2>2. HomesOK(y) /\ Given(x, y)
    BY <2>1, BlockGiven DEF Well, Grown
  <2> QED BY <2>1, <2>2 DEF Well
<1>2. CASE c # "small"
  BY <1>2, KmallocBigOK
<1> QED BY <1>1, <1>2

-----------------------------------------------------------------------------
(* kfree                                                                    *)

(* The slab of the address is in its ring, and the block is marked no more. *)
InRing(x, c, s) == \E k \in 1..Len(x.ring[c]) : x.ring[c][k] = s

(* Either the slab is not found in its ring, or this block alone is freed.  *)
LEMMA PutBlockOK ==
  ASSUME NEW x, Sound(x), NEW b \in Marked(x), x.of[b[1]] # "none", NEW y, y = PutBlock(x, b)
  PROVE  /\ Sound(y) /\ y.of = x.of /\ y.ring = x.ring /\ y.home = x.home /\ y.pages = x.pages
         /\ ~y.stuck => InRing(y, x.of[b[1]], b[1]) /\ Marked(y) = Marked(x) \ {b}
<1> DEFINE s == b[1]
           j == b[2]
           c == x.of[s]
<1>1. x \in Memory /\ RingsOK(x) /\ UsedOK(x) /\ CacheCountsOK(x)
  BY DEF Sound
<1>2. s \in Slabs /\ j \in x.used[s] /\ b = <<s, j>> /\ j \in Nat
  BY DEF Marked
<1>3. Cnt(x, s) \in Nat /\ c \in Caches
  BY <1>1, <1>2, CntIs
<1>4. CASE ~InRing(x, c, s)
  <2>1. y = [x EXCEPT !.stuck = TRUE]
    BY <1>4 DEF PutBlock, InRing
  <2>2. /\ y \in Memory /\ y.ring = x.ring /\ y.cacheFree = x.cacheFree /\ y.of = x.of
        /\ y.used = x.used /\ y.free = x.free /\ y.home = x.home /\ y.pages = x.pages /\ y.stuck
    BY <2>1, <1>1 DEF Memory
  <2>3. Sound(y)
    BY <2>2, SoundSame
  <2> QED BY <2>2, <2>3
<1>5. CASE InRing(x, c, s)
  <2>1. y = [x EXCEPT !.used[s] = @ \ {j}, !.free[s] = @ + 1, !.cacheFree[c] = @ + 1]
    BY <1>5 DEF PutBlock, InRing
  <2> HIDE DEF s, j, c
  <2>3. /\ DOMAIN x.used = Slabs /\ DOMAIN x.free = Slabs /\ DOMAIN x.cacheFree = Caches
        /\ x.used \in [Slabs -> SUBSET Nat] /\ x.free \in [Slabs -> Nat] /\ x.cacheFree \in [Caches -> Nat]
    BY <1>1, Fields
  <2>4. /\ y.got = x.got /\ y.ring = x.ring /\ y.of = x.of /\ y.home = x.home /\ y.pages = x.pages
        /\ y.stuck = x.stuck /\ y.used = [x.used EXCEPT ![s] = @ \ {j}]
        /\ y.free = [x.free EXCEPT ![s] = @ + 1] /\ y.cacheFree = [x.cacheFree EXCEPT ![c] = @ + 1]
    BY <2>1, <1>1 DEF Memory
  <2>5. /\ y.used[s] = x.used[s] \ {j} /\ \A r \in Slabs : r # s => y.used[r] = x.used[r]
        /\ y.free[s] = x.free[s] + 1 /\ \A r \in Slabs : r # s => y.free[r] = x.free[r]
        /\ y.cacheFree[c] = x.cacheFree[c] + 1 /\ \A d \in Caches : d # c => y.cacheFree[d] = x.cacheFree[d]
    BY <1>2, <1>3, <2>3, <2>4
  <2>6. /\ x.used[s] \subseteq 0..(Cnt(x, s) - 1) /\ x.free[s] = Cnt(x, s) - Cardinality(x.used[s])
    BY <1>1, <1>2 DEF UsedOK, s
  <2>7. IsFiniteSet(x.used[s]) /\ Cardinality(x.used[s]) \in Nat
    BY <1>1, <1>2, UsedFinite
  <2>8. Cardinality(y.used[s]) = Cardinality(x.used[s]) - 1
    BY <1>2, <2>5, <2>7, FS_RemoveElement
  <2>11. y.free[s] = Cnt(x, s) - Cardinality(y.used[s]) /\ y.used[s] \subseteq 0..(Cnt(x, s) - 1)
    BY <1>3, <2>5, <2>6, <2>7, <2>8
  <2>13. y \in Memory
    <3>1. y.used \in [Slabs -> SUBSET Nat]
      <4>1. \A r \in Slabs : y.used[r] \subseteq Nat
        BY <1>2, <2>3, <2>5
      <4> QED BY <4>1, <2>3, <2>4
    <3>2. y.free \in [Slabs -> Nat]
      <4>1. x.free[s] \in Nat /\ x.free[s] + 1 \in Nat
        BY <1>2, <2>3
      <4>2. \A r \in Slabs : y.free[r] \in Nat
        BY <4>1, <2>3, <2>5
      <4> QED BY <4>2, <2>3, <2>4
    <3>3. y.cacheFree \in [Caches -> Nat]
      <4>1. x.cacheFree[c] \in Nat /\ x.cacheFree[c] + 1 \in Nat
        BY <1>3, <2>3 DEF c
      <4>2. \A d \in Caches : y.cacheFree[d] \in Nat
        BY <4>1, <2>3, <2>5
      <4> QED BY <4>2, <2>3, <2>4
    <3>5. /\ y.ring \in [Caches -> Seq(Slabs)] /\ y.of \in [Slabs -> Caches \cup {"none"}]
          /\ y.got \in (Slabs \X Nat) \cup {NONE}
          /\ y.home \in [Slabs -> Seq(Slabs \X Nat)] /\ y.pages \in SUBSET Pages /\ y.stuck \in BOOLEAN
      BY <2>4, <1>1, Fields
    <3>6. y = [ring |-> y.ring, cacheFree |-> y.cacheFree, of |-> y.of, used |-> y.used, free |-> y.free,
               home |-> y.home, pages |-> y.pages, got |-> y.got, stuck |-> y.stuck]
      BY <2>1, <1>1 DEF Memory
    <3> QED BY <3>1, <3>2, <3>3, <3>5, <3>6 DEF Memory
  <2>14. RingsOK(y)
    BY <1>1, <2>4 DEF RingsOK
  <2>15. UsedOK(y)
    <3> SUFFICES ASSUME NEW r \in Slabs
                 PROVE  IF y.of[r] = "none" THEN y.used[r] = {} /\ y.free[r] = 0
                        ELSE /\ y.used[r] \subseteq 0..(Cnt(y, r) - 1)
                             /\ y.free[r] = Cnt(y, r) - Cardinality(y.used[r])
      BY DEF UsedOK
    <3>1. Cnt(y, r) = Cnt(x, r)
      BY <2>4 DEF Cnt
    <3>2. CASE r = s
      <4>1. y.of[r] # "none"
        BY <2>4, <3>2 DEF s
      <4> QED BY <3>1, <3>2, <4>1, <2>11
    <3>3. CASE r # s
      BY <3>1, <3>3, <2>4, <2>5, <1>1 DEF UsedOK
    <3> QED BY <3>2, <3>3
  <2>16. CacheCountsOK(y)
    <3> SUFFICES ASSUME NEW d \in Caches PROVE y.cacheFree[d] = FreeBlocks(y, d)
      BY DEF CacheCountsOK
    <3>1. OthersKept(x, y, s)
      BY <2>4, <2>5 DEF OthersKept
    <3>2. /\ FreeBlocks(y, d) = FreeBlocks(x, d) + (IF y.of[s] = d THEN y.free[s] ELSE 0)
                                 - (IF x.of[s] = d THEN x.free[s] ELSE 0)
          /\ FreeBlocks(x, d) \in Nat
      BY <1>1, <1>2, <2>13, <3>1, FreeBlocksOne
    <3>3. x.cacheFree[d] = FreeBlocks(x, d) /\ x.free[s] \in Nat /\ x.of[s] = c /\ y.of[s] = c
      BY <1>1, <1>2, <2>3, <2>4 DEF CacheCountsOK, c
    <3>4. CASE d = c
      BY <3>2, <3>3, <3>4, <2>5
    <3>5. CASE d # c
      BY <3>2, <3>3, <3>5, <2>5
    <3> QED BY <3>4, <3>5
  <2>17. Marked(y) = Marked(x) \ {b}
    <3>1. ASSUME NEW d \in Slabs \X Nat PROVE d[2] \in y.used[d[1]] <=> (d[2] \in x.used[d[1]] /\ d # b)
      <4>1. d = <<d[1], d[2]>> /\ d[1] \in Slabs
        OBVIOUS
      <4>2. CASE d[1] = s
        BY <1>2, <2>5, <4>1, <4>2
      <4>3. CASE d[1] # s
        BY <1>2, <2>5, <4>1, <4>3
      <4> QED BY <4>2, <4>3
    <3> QED BY <3>1 DEF Marked
  <2>18. InRing(y, c, s)
    BY <1>5, <2>4 DEF InRing
  <2> QED BY <2>4, <2>13, <2>14, <2>15, <2>16, <2>17, <2>18 DEF Sound, c, s
<1> QED BY <1>4, <1>5

(* A ring that keeps its slabs where another is no slab any more            *)
Spared(x, y, r) == \A k \in 1..Len(r) : y.of[r[k]] = x.of[r[k]]

(* It is a ring there.                                                      *)
LEMMA RingSpared ==
  ASSUME NEW x, NEW y, NEW c, NEW r, RingOK(x, c, r), Spared(x, y, r)
  PROVE  RingOK(y, c, r)
BY DEF RingOK, Spared

(* A slab without marked blocks, not a root, leaves its ring and its cache. *)
LEMMA UnlinkOK ==
  ASSUME NEW x, Sound(x), NEW c \in Caches, NEW s \in Slabs, InRing(x, c, s), s # Root[c],
         x.used[s] = {}, NEW y, y = Unlink(x, c, s)
  PROVE  /\ Sound(y) /\ x.of[s] = c /\ y.of = [x.of EXCEPT ![s] = "none"] /\ y.used = x.used
         /\ y.home = [x.home EXCEPT ![s] = <<>>] /\ y.pages = x.pages /\ y.stuck = x.stuck
<1> DEFINE r == x.ring[c]
           w == Without(r, s)
<1>1. /\ x \in Memory /\ x.ring \in [Caches -> Seq(Slabs)] /\ x.cacheFree \in [Caches -> Nat]
      /\ x.of \in [Slabs -> Caches \cup {"none"}] /\ x.used \in [Slabs -> SUBSET Nat]
      /\ x.free \in [Slabs -> Nat] /\ x.home \in [Slabs -> Seq(Slabs \X Nat)]
  BY Fields DEF Sound
<1>2. \A d \in Caches : RingOK(x, d, x.ring[d])
  BY <1>1, RingsAre DEF Sound
<1>3. PICK k \in 1..Len(r) : r[k] = s
  BY DEF InRing
<1>4. x.of[s] = c /\ k # 1 /\ "none" \notin Caches /\ w = Without(r, r[k])
  <2>1. RingOK(x, c, r)
    BY <1>2
  <2> QED BY <1>3, <2>1, SlabsAre DEF RingOK
<1>5. RingOK(x, c, w) /\ \A i \in 1..Len(w) : w[i] # s
  <2>1. RingOK(x, c, r)
    BY <1>2
  <2> HIDE DEF r, w
  <2> QED BY <1>3, <1>4, <2>1, WithoutOK
<1>6. /\ y.of = [x.of EXCEPT ![s] = "none"] /\ y.used = [x.used EXCEPT ![s] = {}]
      /\ y.free = [x.free EXCEPT ![s] = 0] /\ y.home = [x.home EXCEPT ![s] = <<>>]
      /\ y.cacheFree = [x.cacheFree EXCEPT ![c] = @ - x.free[s]]
      /\ y.ring = [x.ring EXCEPT ![c] = w]
      /\ y.pages = x.pages /\ y.stuck = x.stuck /\ y.got = x.got
      /\ y = [ring |-> y.ring, cacheFree |-> y.cacheFree, of |-> y.of, used |-> y.used, free |-> y.free,
              home |-> y.home, pages |-> y.pages, got |-> y.got, stuck |-> y.stuck]
  BY <1>1 DEF Memory, Unlink
<1> HIDE DEF r, w
<1>7. y.used = x.used
  <2>1. x.used = [q \in Slabs |-> x.used[q]] /\ y.used = [q \in Slabs |-> IF q = s THEN {} ELSE x.used[q]]
    BY <1>1, <1>6
  <2> QED BY <2>1
<1>8. /\ y.of[s] = "none" /\ y.free[s] = 0 /\ y.cacheFree[c] = x.cacheFree[c] - x.free[s]
      /\ \A q \in Slabs : q # s => y.of[q] = x.of[q] /\ y.free[q] = x.free[q]
      /\ \A d \in Caches : d # c => y.cacheFree[d] = x.cacheFree[d]
  BY <1>1, <1>6
<1>9. ASSUME NEW d \in Caches PROVE RingOK(y, d, y.ring[d])
  <2>1. CASE d = c
    <3>1. y.ring[d] = w
      BY <1>1, <1>6, <2>1
    <3>2. \A i \in 1..Len(w) : w[i] \in Slabs
      BY <1>5 DEF RingOK
    <3>3. Spared(x, y, w)
      BY <1>5, <1>8, <3>2 DEF Spared
    <3> QED BY <1>5, <2>1, <3>1, <3>3, RingSpared
  <2>2. CASE d # c
    <3>1. y.ring[d] = x.ring[d] /\ RingOK(x, d, x.ring[d])
      BY <1>1, <1>2, <1>6, <2>2
    <3>2. \A i \in 1..Len(x.ring[d]) : x.ring[d][i] \in Slabs /\ x.ring[d][i] # s
      BY <1>4, <2>2, <3>1 DEF RingOK
    <3>3. Spared(x, y, x.ring[d])
      BY <1>8, <3>2 DEF Spared
    <3> QED BY <3>1, <3>3, RingSpared
  <2> QED BY <2>1, <2>2
<1>10. x.cacheFree[c] = FreeBlocks(x, c) /\ FreeBlocks(x, c) \in Nat /\ FreeBlocks(x, c) >= x.free[s]
  <2>1. x.cacheFree[c] = FreeBlocks(x, c)
    BY DEF Sound, CacheCountsOK
  <2> QED BY <1>1, <1>4, <2>1, FreeBlocksHas
<1>11. y \in Memory
  <2>1. y.of \in [Slabs -> Caches \cup {"none"}] /\ y.free \in [Slabs -> Nat]
    BY <1>1, <1>6
  <2>2. y.cacheFree \in [Caches -> Nat]
    <3>1. x.free[s] \in Nat
      BY <1>1
    <3>2. y.cacheFree[c] \in Nat
      BY <1>8, <1>10, <3>1
    <3>3. \A d \in Caches : y.cacheFree[d] \in Nat
      BY <1>1, <1>8, <3>2
    <3> QED BY <1>1, <1>6, <3>3
  <2>3. y.ring \in [Caches -> Seq(Slabs)]
    <3>1. \A d \in Caches : y.ring[d] \in Seq(Slabs)
      BY <1>9 DEF RingOK
    <3> QED BY <1>1, <1>6, <3>1
  <2>4. y.pages \in SUBSET Pages /\ y.stuck \in BOOLEAN /\ y.got \in (Slabs \X Nat) \cup {NONE}
    BY <1>1, <1>6, Fields
  <2>5. y.used \in [Slabs -> SUBSET Nat]
    BY <1>1, <1>7
  <2>6. y.home \in [Slabs -> Seq(Slabs \X Nat)]
    <3>1. <<>> \in Seq(Slabs \X Nat)
      OBVIOUS
    <3> QED BY <1>1, <1>6, <3>1
  <2> QED BY <1>6, <2>1, <2>2, <2>3, <2>4, <2>5, <2>6 DEF Memory
<1>12. RingsOK(y)
  BY <1>9, <1>11, RingsAre
<1>13. UsedOK(y)
  <2> SUFFICES ASSUME NEW q \in Slabs
               PROVE  IF y.of[q] = "none" THEN y.used[q] = {} /\ y.free[q] = 0
                      ELSE /\ y.used[q] \subseteq 0..(Cnt(y, q) - 1)
                           /\ y.free[q] = Cnt(y, q) - Cardinality(y.used[q])
    BY DEF UsedOK
  <2>1. CASE q = s
    BY <1>7, <1>8, <2>1
  <2>2. CASE q # s
    <3>1. Cnt(y, q) = Cnt(x, q)
      BY <1>8, <2>2 DEF Cnt
    <3> QED BY <1>7, <1>8, <2>2, <3>1 DEF Sound, UsedOK
  <2> QED BY <2>1, <2>2
<1>14. CacheCountsOK(y)
  <2> SUFFICES ASSUME NEW d \in Caches PROVE y.cacheFree[d] = FreeBlocks(y, d)
    BY DEF CacheCountsOK
  <2>1. OthersKept(x, y, s)
    BY <1>8 DEF OthersKept
  <2>2. /\ FreeBlocks(x, d) \in Nat
        /\ FreeBlocks(y, d) = FreeBlocks(x, d) + (IF y.of[s] = d THEN y.free[s] ELSE 0)
                               - (IF x.of[s] = d THEN x.free[s] ELSE 0)
    BY <1>1, <1>11, <2>1, FreeBlocksOne
  <2>3. x.cacheFree[d] = FreeBlocks(x, d) /\ y.of[s] # d /\ x.free[s] \in Nat
    BY <1>1, <1>4, <1>8 DEF Sound, CacheCountsOK
  <2>4. CASE d = c
    BY <1>4, <1>8, <2>2, <2>3, <2>4
  <2>5. CASE d # c
    BY <1>4, <1>8, <2>2, <2>3, <2>5
  <2> QED BY <2>4, <2>5
<1> QED BY <1>4, <1>6, <1>7, <1>11, <1>12, <1>13, <1>14 DEF Sound

(* A page goes back to the page allocator.                                  *)
PageBack(x, p) == [x EXCEPT !.pages = @ \cup {p}]

(* It changes the pages and nothing else.                                   *)
LEMMA PageBackOK ==
  ASSUME NEW x, Sound(x), NEW p \in Pages, NEW y, y = PageBack(x, p)
  PROVE  /\ Sound(y) /\ y.of = x.of /\ y.used = x.used /\ y.home = x.home
         /\ y.pages = x.pages \cup {p} /\ y.stuck = x.stuck
<1>1. x \in Memory
  BY DEF Sound
<1>2. /\ y \in Memory /\ y.of = x.of /\ y.used = x.used /\ y.home = x.home /\ y.pages = x.pages \cup {p}
      /\ y.stuck = x.stuck /\ y.ring = x.ring /\ y.cacheFree = x.cacheFree /\ y.free = x.free
  <2>1. PICK q \in SUBSET Pages : q = x.pages \cup {p}
    BY <1>1, Fields
  <2>2. y = [x EXCEPT !.pages = q]
    BY <2>1 DEF PageBack
  <2>3. /\ y \in Memory /\ y.of = x.of /\ y.used = x.used /\ y.home = x.home /\ y.pages = q
        /\ y.stuck = x.stuck /\ y.ring = x.ring /\ y.cacheFree = x.cacheFree /\ y.free = x.free
    BY <1>1, <2>2 DEF Memory
  <2> QED BY <2>1, <2>3
<1> QED BY <1>2, SoundSame

(* A slab that is not a root is a page.                                     *)
LEMMA PageOf ==
  ASSUME NEW x, Sound(x), NEW s \in Slabs, x.of[s] \in Caches, s # Root[x.of[s]]
  PROVE  s \in Pages
<1>1. x.of[0] = "small" /\ x.of[1] = "big"
  <2>1. ASSUME NEW c \in Caches PROVE x.of[Root[c]] = c
    <3>1. RingOK(x, c, x.ring[c])
      BY RingsAre DEF Sound
    <3>2. 1 \in 1..Len(x.ring[c]) /\ x.ring[c][1] = Root[c]
      BY <3>1 DEF RingOK
    <3> QED BY <3>1, <3>2 DEF RingOK
  <2>2. x.of[Root["small"]] = "small" /\ x.of[Root["big"]] = "big"
    BY <2>1, SlabsAre
  <2> QED BY <2>2 DEF Root
<1>2. s = 0 \/ s = 1 \/ s \in Pages
  BY DEF Slabs
<1> QED BY <1>1, <1>2 DEF Root

(* A marked block is of a slab.                                             *)
LEMMA MarkedOf ==
  ASSUME NEW x, Sound(x), NEW b \in Marked(x)
  PROVE  b[1] \in Slabs /\ x.of[b[1]] \in Caches
<1>1. b[1] \in Slabs /\ b[2] \in x.used[b[1]]
  BY DEF Marked
<1>2. x.of[b[1]] # "none"
  BY <1>1 DEF Sound, UsedOK
<1> QED BY <1>1, <1>2, Fields DEF Sound

(* A client's block is given back to its slab.                              *)
LEMMA BlockPut ==
  ASSUME NEW x, NEW hand, Well(x, hand), NEW b \in Clients(x), NEW y, y = PutBlock(x, b)
  PROVE  /\ Sound(y) /\ y.of = x.of /\ b[1] \in Slabs /\ x.of[b[1]] \in Caches
         /\ ~y.stuck => /\ Well(y, hand) /\ Clients(y) = Clients(x) \ {b}
                        /\ InRing(y, x.of[b[1]], b[1])
<1>1. b \in Marked(x) /\ b \notin Homes(x) /\ "none" \notin Caches
  BY SlabsAre DEF Clients
<1>2. b[1] \in Slabs /\ x.of[b[1]] \in Caches
  BY <1>1, MarkedOf DEF Well
<1>3. /\ Sound(y) /\ y.of = x.of /\ y.ring = x.ring /\ y.home = x.home /\ y.pages = x.pages
      /\ ~y.stuck => InRing(y, x.of[b[1]], b[1]) /\ Marked(y) = Marked(x) \ {b}
  BY <1>1, <1>2, PutBlockOK DEF Well
<1>4. ASSUME ~y.stuck PROVE Well(y, hand) /\ Clients(y) = Clients(x) \ {b}
  <2>1. Marked(y) = Marked(x) \ {b}
    BY <1>3, <1>4
  <2>2. Homes(y) = Homes(x) /\ \A s \in Slabs : HomeOf(y, s) = HomeOf(x, s)
    BY <1>3 DEF Homes, HomeOf
  <2>3. HomesOK(y)
    <3>1. ASSUME NEW d \in Homes(y) PROVE d \in Marked(y) /\ y.of[d[1]] = "small"
      BY <1>1, <1>3, <2>1, <2>2 DEF Well, HomesOK
    <3> QED BY <1>3, <2>2, <3>1 DEF Well, HomesOK
  <2>4. PagesOK(y, hand)
    BY <1>3 DEF Well, PagesOK
  <2> QED BY <1>3, <1>4, <2>1, <2>2, <2>3, <2>4 DEF Well, Clients
<1> QED BY <1>2, <1>3, <1>4

(* Small slabs may be given back, and no others.                            *)
Fewer(x, y) == \A s \in Slabs : y.of[s] = x.of[s] \/ (x.of[s] = "small" /\ y.of[s] = "none")

(* A small slab is unlinked: it has no structures and holds none.           *)
LEMMA UnlinkSmallOK ==
  ASSUME NEW x, NEW hand, Well(x, hand), NEW s \in Slabs, InRing(x, "small", s), s # Root["small"],
         x.used[s] = {}, NEW y, y = PageBack(Unlink(x, "small", s), s)
  PROVE  Well(y, hand) /\ Clients(y) = Clients(x) /\ Fewer(x, y)
<1> DEFINE u == Unlink(x, "small", s)
<1>0. "small" \in Caches /\ "small" # "none" /\ "small" # "big" /\ "big" # "none" /\ Pages \subseteq Slabs
  BY SlabsAre
<1>1. /\ Sound(u) /\ x.of[s] = "small" /\ u.of = [x.of EXCEPT ![s] = "none"] /\ u.used = x.used
      /\ u.home = [x.home EXCEPT ![s] = <<>>] /\ u.pages = x.pages /\ u.stuck = x.stuck
  BY <1>0, UnlinkOK DEF Well
<1>2. s \in Pages
  BY <1>0, <1>1, PageOf DEF Well
<1>3. y = PageBack(u, s)
  OBVIOUS
<1> HIDE DEF u
<1>4. /\ Sound(y) /\ y.of = u.of /\ y.used = u.used /\ y.home = u.home
      /\ y.pages = x.pages \cup {s} /\ y.stuck = x.stuck
  BY <1>1, <1>2, <1>3, PageBackOK
<1>5. x.of \in [Slabs -> Caches \cup {"none"}] /\ x.home \in [Slabs -> Seq(Slabs \X Nat)]
  BY Fields DEF Well, Sound
<1>6. y.of[s] = "none" /\ \A q \in Slabs : q # s => y.of[q] = x.of[q]
  BY <1>1, <1>4, <1>5
<1>7. y.home = x.home
  <2>1. x.home[s] = <<>>
    BY <1>0, <1>1 DEF Well, HomesOK
  <2>2. x.home = [q \in Slabs |-> x.home[q]] /\ y.home = [q \in Slabs |-> IF q = s THEN <<>> ELSE x.home[q]]
    BY <1>1, <1>4, <1>5
  <2> QED BY <2>1, <2>2
<1>8. /\ Marked(y) = Marked(x) /\ Homes(y) = Homes(x)
      /\ \A q \in Slabs : HomeOf(y, q) = HomeOf(x, q)
  BY <1>1, <1>4, <1>7 DEF Marked, Homes, HomeOf
<1>9. HomesOK(y)
  <2>1. ASSUME NEW d \in Homes(y) PROVE d \in Marked(y) /\ y.of[d[1]] = "small"
    <3>1. d \in Marked(x) /\ x.of[d[1]] = "small"
      BY <1>8 DEF Well, HomesOK
    <3>2. d[1] \in Slabs /\ d[1] # s
      BY <3>1 DEF Marked
    <3> QED BY <1>6, <1>8, <3>1, <3>2
  <2>2. \A q \in Slabs : y.of[q] = "big" <=> x.of[q] = "big"
    BY <1>0, <1>1, <1>6
  <2> QED BY <1>7, <1>8, <2>1, <2>2 DEF Well, HomesOK
<1>10. PagesOK(y, hand)
  <2>1. s \notin x.pages \cup hand
    BY <1>0, <1>1, <1>2 DEF Well, PagesOK
  <2> QED BY <1>0, <1>4, <1>6, <2>1 DEF Well, PagesOK
<1>11. Fewer(x, y)
  BY <1>1, <1>6 DEF Fewer
<1> QED BY <1>4, <1>8, <1>9, <1>10, <1>11 DEF Well, Clients

(* A kfree of a client's small block gives back that block.                 *)
LEMMA KfreeSmallOK ==
  ASSUME NEW x, NEW hand, Well(x, hand), NEW b \in Clients(x), x.of[b[1]] = "small",
         NEW y, y = KfreeSmall(x, b)
  PROVE  Sound(y) /\ (~y.stuck => Well(y, hand) /\ Clients(y) = Clients(x) \ {b} /\ Fewer(x, y))
<1> DEFINE z == PutBlock(x, b)
           s == b[1]
<1>1. /\ Sound(z) /\ z.of = x.of /\ s \in Slabs
      /\ ~z.stuck => Well(z, hand) /\ Clients(z) = Clients(x) \ {b} /\ InRing(z, "small", s)
  BY BlockPut
<1>2. y = IF ~z.stuck /\ Spare(z, "small", s)
            THEN PageBack(Unlink(z, "small", s), s) ELSE z
  BY DEF KfreeSmall, PageBack
<1> HIDE DEF z, s
<1>3. CASE ~z.stuck /\ Spare(z, "small", s)
  <2>1. Well(y, hand) /\ Clients(y) = Clients(z) /\ Fewer(z, y)
    BY <1>1, <1>2, <1>3, UnlinkSmallOK DEF Spare
  <2> QED BY <1>1, <1>3, <2>1 DEF Well, Fewer
<1>4. CASE ~(~z.stuck /\ Spare(z, "small", s))
  BY <1>1, <1>2, <1>4 DEF Fewer
<1> QED BY <1>3, <1>4

(* A big slab is unlinked: the two blocks of its structures are held by     *)
(* nobody then, and its page is in hand.                                    *)
LEMMA UnlinkBigOK ==
  ASSUME NEW x, Well(x, {}), NEW s \in Slabs, InRing(x, "big", s), s # Root["big"],
         x.used[s] = {}, NEW y, y = Unlink(x, "big", s),
         NEW a, a = x.home[s][1], NEW b, b = x.home[s][2]
  PROVE  /\ s \in Pages /\ Well(y, {s}) /\ a # b /\ Clients(y) = Clients(x) \cup {a, b}
         /\ a \notin Clients(x) /\ b \notin Clients(x)
         /\ y.of[a[1]] = "small" /\ y.of[b[1]] = "small"
<1>0. "big" \in Caches /\ "small" # "none" /\ "small" # "big" /\ "big" # "none" /\ Pages \subseteq Slabs
  BY SlabsAre
<1>1. /\ Sound(y) /\ x.of[s] = "big" /\ y.of = [x.of EXCEPT ![s] = "none"] /\ y.used = x.used
      /\ y.home = [x.home EXCEPT ![s] = <<>>] /\ y.pages = x.pages /\ y.stuck = x.stuck
  BY <1>0, UnlinkOK DEF Well
<1>2. s \in Pages
  BY <1>0, <1>1, PageOf DEF Well
<1>5. x.of \in [Slabs -> Caches \cup {"none"}] /\ x.home \in [Slabs -> Seq(Slabs \X Nat)]
  BY Fields DEF Well, Sound
<1>6. y.of[s] = "none" /\ \A q \in Slabs : q # s => y.of[q] = x.of[q]
  BY <1>1, <1>5
<1>7. y.home[s] = <<>> /\ \A q \in Slabs : q # s => y.home[q] = x.home[q]
  BY <1>1, <1>5
<1>8. HomeOf(x, s) = {a, b} /\ a # b
  <2>1. x.home[s] \in Seq(Slabs \X Nat) /\ Len(x.home[s]) = 2 /\ a # b
    BY <1>1, <1>2, <1>5 DEF Well, HomesOK
  <2>2. DOMAIN x.home[s] = {1, 2}
    BY <2>1
  <2> QED BY <2>1, <2>2 DEF HomeOf
<1>9. HomeOf(y, s) = {} /\ \A q \in Slabs : q # s => HomeOf(y, q) = HomeOf(x, q)
  <2>1. DOMAIN <<>> = {}
    OBVIOUS
  <2> QED BY <1>7, <2>1 DEF HomeOf
<1>10. \A q, r \in Slabs : q # r => HomeOf(x, q) \cap HomeOf(x, r) = {}
  BY DEF Well, HomesOK
<1>11. Homes(y) = Homes(x) \ {a, b} /\ {a, b} \subseteq Homes(x)
  <2>1. \A q \in Slabs : q # s => HomeOf(x, q) \cap {a, b} = {}
    BY <1>8, <1>10
  <2>2. Homes(y) \subseteq Homes(x) \ {a, b}
    BY <1>9, <2>1 DEF Homes
  <2>3. Homes(x) \ {a, b} \subseteq Homes(y)
    BY <1>8, <1>9 DEF Homes
  <2>4. {a, b} \subseteq Homes(x)
    BY <1>8 DEF Homes
  <2> QED BY <2>2, <2>3, <2>4
<1>12. \A d \in Homes(x) : d \in Marked(x) /\ x.of[d[1]] = "small"
  BY DEF Well, HomesOK
<1>13. Marked(y) = Marked(x)
  BY <1>1 DEF Marked
<1>14. ASSUME NEW d \in Homes(x) PROVE d \in Marked(y) /\ y.of[d[1]] = "small"
  <2>1. d \in Marked(x) /\ x.of[d[1]] = "small"
    BY <1>12
  <2>2. d[1] \in Slabs /\ d[1] # s
    BY <1>0, <1>1, <2>1 DEF Marked
  <2> QED BY <1>6, <1>13, <2>1, <2>2
<1>15. HomesOK(y)
  <2>1. ASSUME NEW q \in Slabs
        PROVE  IF q \in Pages /\ y.of[q] = "big"
                 THEN Len(y.home[q]) = 2 /\ y.home[q][1] # y.home[q][2]
                 ELSE y.home[q] = <<>>
    <3>1. CASE q = s
      BY <1>0, <1>6, <1>7, <3>1
    <3>2. CASE q # s
      BY <1>6, <1>7, <3>2 DEF Well, HomesOK
    <3> QED BY <3>1, <3>2
  <2>2. ASSUME NEW q \in Slabs, NEW r \in Slabs, q # r PROVE HomeOf(y, q) \cap HomeOf(y, r) = {}
    BY <1>9, <1>10, <2>2
  <2>3. \A d \in Homes(y) : d \in Marked(y) /\ y.of[d[1]] = "small"
    BY <1>11, <1>14
  <2> QED BY <2>1, <2>2, <2>3 DEF HomesOK
<1>16. PagesOK(y, {s})
  <2>1. s \notin x.pages
    BY <1>0, <1>1, <1>2 DEF Well, PagesOK
  <2>2. \A q \in Pages : x.of[q] = "none" <=> q \in x.pages
    BY DEF Well, PagesOK
  <2>3. \A q \in Pages : y.of[q] = "none" <=> q \in y.pages \cup {s}
    BY <1>0, <1>1, <1>6, <2>2
  <2> QED BY <1>1, <2>1, <2>3 DEF PagesOK
<1>17. Clients(y) = Clients(x) \cup {a, b}
  BY <1>11, <1>12, <1>13 DEF Clients
<1> QED BY <1>1, <1>2, <1>8, <1>11, <1>14, <1>15, <1>16, <1>17 DEF Well, Clients

(* A big slab is destroyed with its structures.                             *)
LEMMA DestroyBigOK ==
  ASSUME NEW x, Well(x, {}), NEW s \in Slabs, InRing(x, "big", s), s # Root["big"],
         x.used[s] = {}, NEW y, y = DestroyBig(x, s)
  PROVE  Sound(y) /\ (~y.stuck => Well(y, {}) /\ Clients(y) = Clients(x))
<1> DEFINE a == x.home[s][1]
           b == x.home[s][2]
           u == Unlink(x, "big", s)
           v == KfreeSmall(u, b)
           w == PageBack(v, s)
           z == KfreeSmall(w, a)
<1>1. /\ s \in Pages /\ Well(u, {s}) /\ a # b /\ Clients(u) = Clients(x) \cup {a, b}
      /\ a \notin Clients(x) /\ b \notin Clients(x)
      /\ u.of[a[1]] = "small" /\ u.of[b[1]] = "small"
  BY UnlinkBigOK
<1>2. y = IF v.stuck THEN v ELSE z
  BY DEF DestroyBig, PageBack
<1>3. v = KfreeSmall(u, b) /\ w = PageBack(v, s) /\ z = KfreeSmall(w, a)
  OBVIOUS
<1> HIDE DEF a, b, u, v, w, z
<1>4. Sound(v) /\ (~v.stuck => Well(v, {s}) /\ Clients(v) = Clients(u) \ {b} /\ Fewer(u, v))
  <2>1. b \in Clients(u)
    BY <1>1
  <2> QED BY <1>1, <1>3, <2>1, KfreeSmallOK
<1>5. CASE v.stuck
  BY <1>2, <1>4, <1>5
<1>6. CASE ~v.stuck
  <2>1. Well(v, {s}) /\ Clients(v) = Clients(x) \cup {a} /\ Fewer(u, v)
    BY <1>1, <1>4, <1>6
  <2>2. /\ Sound(w) /\ w.of = v.of /\ w.used = v.used /\ w.home = v.home
        /\ w.pages = v.pages \cup {s} /\ w.stuck = v.stuck
    BY <1>1, <1>3, <1>4, PageBackOK
  <2>3. HomesOK(w) /\ Clients(w) = Clients(v)
    BY <2>1, <2>2, AlikeOK DEF Alike, Well
  <2>4. PagesOK(w, {})
    BY <2>1, <2>2 DEF PagesOK, Well
  <2>5. Well(w, {})
    BY <1>6, <2>2, <2>3, <2>4 DEF Well
  <2>6. a \in Clients(w) /\ w.of[a[1]] = "small"
    <3>1. a \in Clients(w) /\ a \in Marked(w)
      BY <2>1, <2>3 DEF Clients
    <3>2. a[1] \in Slabs /\ w.of[a[1]] \in Caches
      BY <2>2, <3>1, MarkedOf
    <3>3. v.of[a[1]] = "small" \/ v.of[a[1]] = "none"
      BY <1>1, <2>1, <3>2 DEF Fewer
    <3>4. "none" \notin Caches
      BY SlabsAre
    <3> QED BY <2>2, <3>1, <3>2, <3>3, <3>4
  <2>7. Sound(z) /\ (~z.stuck => Well(z, {}) /\ Clients(z) = Clients(w) \ {a})
    BY <1>3, <2>5, <2>6, KfreeSmallOK
  <2> QED BY <1>1, <1>2, <1>6, <2>1, <2>3, <2>7
<1> QED BY <1>5, <1>6

(* A kfree gives back the block, and the slabs and structures that it may.  *)
LEMMA KfreeOK ==
  ASSUME NEW x, Well(x, {}), NEW b \in Clients(x),
         NEW y, y = IF x.of[b[1]] = "small" THEN KfreeSmall(x, b) ELSE KfreeBig(x, b)
  PROVE  Sound(y) /\ (~y.stuck => Well(y, {}) /\ Clients(y) = Clients(x) \ {b})
<1>1. CASE x.of[b[1]] = "small"
  BY <1>1, KfreeSmallOK
<1>2. CASE x.of[b[1]] # "small"
  <2> DEFINE z == PutBlock(x, b)
             s == b[1]
  <2>1. /\ Sound(z) /\ z.of = x.of /\ s \in Slabs /\ x.of[s] \in Caches
        /\ ~z.stuck => Well(z, {}) /\ Clients(z) = Clients(x) \ {b} /\ InRing(z, x.of[s], s)
    BY BlockPut
  <2>2. y = IF ~z.stuck /\ Spare(z, "big", s) THEN DestroyBig(z, s) ELSE z
    BY <1>2 DEF KfreeBig
  <2>3. x.of[s] = "big"
    BY <1>2, <2>1 DEF Caches
  <2> HIDE DEF z, s
  <2>4. CASE ~z.stuck /\ Spare(z, "big", s)
    <3>1. Sound(y) /\ (~y.stuck => Well(y, {}) /\ Clients(y) = Clients(z))
      BY <2>1, <2>2, <2>3, <2>4, DestroyBigOK DEF Spare
    <3> QED BY <2>1, <2>4, <3>1
  <2>5. CASE ~(~z.stuck /\ Spare(z, "big", s))
    BY <2>1, <2>2, <2>5
  <2> QED BY <2>4, <2>5
<1> QED BY <1>1, <1>2

-----------------------------------------------------------------------------
(* The invariant holds                                                      *)

(* The sum of a function that is 0 but at one number                        *)
LEMMA FreeBelowOnly ==
  ASSUME NEW g \in [Nat -> Nat], NEW s \in Nat, \A k \in Nat : k # s => g[k] = 0, NEW e \in Nat, s < e
  PROVE  FreeBelow(g)[e] = g[s]
<1> DEFINE f == [k \in Nat |-> 0]
           S == {n \in Nat : FreeBelow(f)[n] = 0}
<1>1. f \in [Nat -> Nat] /\ \A k \in Nat : f[k] = 0
  OBVIOUS
<1> HIDE DEF f
<1>2. FreeBelow(f)[0] = 0 /\ \A n \in Nat : FreeBelow(f)[n + 1] = FreeBelow(f)[n] + f[n]
  BY <1>1, FreeBelowRec
<1>3. 0 \in S /\ \A n \in Nat : n \in S => n + 1 \in S
  BY <1>1, <1>2
<1>4. \A n \in Nat : n \in S
  <2> HIDE DEF S
  <2> QED BY <1>3, SetInduction
<1>5. FreeBelow(f)[e] = 0 /\ f[s] = 0
  BY <1>1, <1>4
<1>6. \A k \in Nat : k # s => g[k] = f[k]
  BY <1>1
<1>7. FreeBelow(g)[e] = FreeBelow(f)[e] + (IF s < e THEN g[s] - f[s] ELSE 0)
  BY <1>1, <1>6, FreeBelowOne
<1>8. g[s] \in Nat
  OBVIOUS
<1> QED BY <1>5, <1>7, <1>8

(* At first all blocks of the roots are free, and the pages all there.      *)
LEMMA InitInv == Init => IInv
<1> SUFFICES ASSUME Init PROVE IInv
  OBVIOUS
<1>0. /\ "small" \in Caches /\ "big" \in Caches /\ "none" \notin Caches /\ "small" # "big"
      /\ Pages \subseteq Slabs /\ 0 \notin Pages /\ 1 \notin Pages /\ 0 \in Slabs /\ 1 \in Slabs
      /\ \A c \in Caches : Root[c] \in Slabs
  BY SlabsAre DEF Pages
<1>1. /\ m.ring = [c \in Caches |-> <<Root[c]>>] /\ m.cacheFree = RootCnt
      /\ m.of = [s \in Slabs |-> IF s = 0 THEN "small" ELSE IF s = 1 THEN "big" ELSE "none"]
      /\ m.used = [s \in Slabs |-> {}]
      /\ m.free = [s \in Slabs |-> IF s = 0 THEN RootCnt.small ELSE IF s = 1 THEN RootCnt.big ELSE 0]
      /\ m.home = [s \in Slabs |-> <<>>] /\ m.pages = Pages /\ m.got = NONE /\ m.stuck = FALSE
      /\ m = [ring |-> m.ring, cacheFree |-> m.cacheFree, of |-> m.of, used |-> m.used, free |-> m.free,
              home |-> m.home, pages |-> m.pages, got |-> m.got, stuck |-> m.stuck]
      /\ clients = {} /\ answer = "none"
  BY DEF Init
<1>2. RootCnt["small"] \in Nat /\ RootCnt["big"] \in Nat /\ RootCnt \in [Caches -> Nat]
  BY <1>0, SlabAssumption
<1>3. m \in Memory
  <2>1. m.ring \in [Caches -> Seq(Slabs)]
    <3>1. \A c \in Caches : <<Root[c]>> \in Seq(Slabs)
      BY <1>0
    <3> QED BY <1>1, <3>1
  <2>2. m.of \in [Slabs -> Caches \cup {"none"}]
    BY <1>0, <1>1
  <2>3. m.free \in [Slabs -> Nat] /\ m.used \in [Slabs -> SUBSET Nat]
    BY <1>1, <1>2
  <2>4. m.home \in [Slabs -> Seq(Slabs \X Nat)]
    <3>1. <<>> \in Seq(Slabs \X Nat)
      OBVIOUS
    <3> QED BY <1>1, <3>1
  <2>5. /\ m.cacheFree \in [Caches -> Nat] /\ m.pages \in SUBSET Pages
        /\ m.got \in (Slabs \X Nat) \cup {NONE} /\ m.stuck \in BOOLEAN
    BY <1>1, <1>2
  <2> QED BY <1>1, <2>1, <2>2, <2>3, <2>4, <2>5 DEF Memory
<1>4. \A c \in Caches : m.of[Root[c]] = c
  BY <1>0, <1>1 DEF Root, Caches
<1>5. RingsOK(m)
  <2> SUFFICES ASSUME NEW c \in Caches PROVE RingOK(m, c, m.ring[c])
    BY <1>3, RingsAre
  <2>1. /\ m.ring[c] \in Seq(Slabs) /\ Len(m.ring[c]) = 1 /\ m.ring[c][1] = Root[c]
    BY <1>0, <1>1
  <2> QED BY <1>4, <2>1 DEF RingOK
<1>6. UsedOK(m)
  <2>1. Cardinality({}) = 0
    BY FS_EmptySet
  <2>2. ASSUME NEW s \in Slabs
        PROVE  IF m.of[s] = "none" THEN m.used[s] = {} /\ m.free[s] = 0
               ELSE m.used[s] \subseteq 0..(Cnt(m, s) - 1) /\ m.free[s] = Cnt(m, s) - Cardinality(m.used[s])
    <3>1. m.used[s] = {}
      BY <1>1
    <3>2. CASE s = 0
      <4>1. Cnt(m, s) = RootCnt["small"] /\ m.free[s] = RootCnt["small"]
        BY <1>0, <1>1, <3>2 DEF Cnt
      <4> QED BY <1>0, <1>1, <1>2, <2>1, <3>1, <3>2, <4>1
    <3>3. CASE s = 1
      <4>1. Cnt(m, s) = RootCnt["big"] /\ m.free[s] = RootCnt["big"]
        BY <1>0, <1>1, <3>3 DEF Cnt
      <4> QED BY <1>0, <1>1, <1>2, <2>1, <3>1, <3>3, <4>1
    <3>4. CASE s # 0 /\ s # 1
      BY <1>1, <3>1, <3>4
    <3> QED BY <3>2, <3>3, <3>4
  <2> QED BY <2>2 DEF UsedOK
<1>7. CacheCountsOK(m)
  <2> SUFFICES ASSUME NEW c \in Caches PROVE m.cacheFree[c] = FreeBlocks(m, c)
    BY DEF CacheCountsOK
  <2> DEFINE g == FreeIn(m, c)
             s == Root[c]
  <2>1. s \in Nat /\ LastPage + 2 \in Nat /\ s < LastPage + 2 /\ s \in Slabs
    BY SlabsAre
  <2>2. \A r \in Slabs : m.free[r] \in Nat
    BY <1>3, Fields
  <2>3. g \in [Nat -> Nat]
    BY <2>2 DEF FreeIn
  <2>4. g[s] = RootCnt[c]
    <3>1. m.free[s] = RootCnt[c]
      BY <1>0, <1>1 DEF Root, Caches
    <3> QED BY <1>4, <2>1, <3>1 DEF FreeIn
  <2>5. \A k \in Nat : k # s => g[k] = 0
    <3>1. \A k \in Slabs : m.of[k] = c => k = s
      BY <1>0, <1>1 DEF Root, Caches
    <3> QED BY <3>1 DEF FreeIn
  <2> HIDE DEF g, s
  <2>6. FreeBelow(g)[LastPage + 2] = g[s]
    BY <2>1, <2>3, <2>5, FreeBelowOnly
  <2> QED BY <1>1, <2>4, <2>6 DEF FreeBlocks, g
<1>8. PagesOK(m, {})
  BY <1>0, <1>1 DEF PagesOK
<1>9. Homes(m) = {} /\ Marked(m) = {} /\ \A s \in Slabs : HomeOf(m, s) = {}
  <2>1. DOMAIN <<>> = {}
    OBVIOUS
  <2>2. \A s \in Slabs : HomeOf(m, s) = {}
    BY <1>1, <2>1 DEF HomeOf
  <2>3. Marked(m) = {}
    BY <1>1 DEF Marked
  <2> QED BY <2>2, <2>3 DEF Homes
<1>10. HomesOK(m)
  BY <1>0, <1>1, <1>9 DEF HomesOK
<1> QED BY <1>1, <1>3, <1>5, <1>6, <1>7, <1>8, <1>9, <1>10 DEF IInv, Sound, HoldersOK, Answers

(* What the last block was is not asked again.                              *)
LEMMA GotForgotten ==
  ASSUME NEW x, Sound(x), NEW y, y = [x EXCEPT !.got = NONE]
  PROVE  Sound(y) /\ y.stuck = x.stuck /\ (Well(x, {}) => Well(y, {}) /\ Clients(y) = Clients(x))
<1>1. x \in Memory
  BY DEF Sound
<1>2. /\ y \in Memory /\ y.of = x.of /\ y.used = x.used /\ y.home = x.home /\ y.pages = x.pages
      /\ y.stuck = x.stuck /\ y.ring = x.ring /\ y.cacheFree = x.cacheFree /\ y.free = x.free
  BY <1>1 DEF Memory
<1>3. Sound(y)
  BY <1>2, SoundSame
<1>4. Well(x, {}) => Well(y, {}) /\ Clients(y) = Clients(x)
  BY <1>2, <1>3, AlikeOK DEF Alike, Well
<1> QED BY <1>2, <1>3, <1>4

(* The invariant in these words                                             *)
LEMMA InvIs ==
  /\ IInv <=> Sound(m) /\ answer \in Answers /\ (~m.stuck => Well(m, {}) /\ clients = Clients(m))
  /\ IInv' <=> Sound(m') /\ answer' \in Answers /\ (~m'.stuck => Well(m', {}) /\ clients' = Clients(m'))
<1>1. ASSUME NEW x, HomesOK(x) PROVE Homes(x) \subseteq Marked(x)
  BY <1>1 DEF HomesOK
<1>2. HomesOK(m) => (HoldersOK <=> clients = Clients(m))
  BY <1>1 DEF HoldersOK, Clients
<1>3. HomesOK(m') => (HoldersOK' <=> clients' = Clients(m'))
  <2>1. HoldersOK' <=> clients' \cap Homes(m') = {} /\ clients' \cup Homes(m') = Marked(m')
    BY DEF HoldersOK, Homes, HomeOf, Marked
  <2> QED BY <1>1, <2>1 DEF Clients
<1>4. IInv' <=> /\ Sound(m') /\ answer' \in Answers
                /\ ~m'.stuck => PagesOK(m', {}) /\ HomesOK(m') /\ HoldersOK'
  BY DEF IInv, Sound, RingsOK, UsedOK, CacheCountsOK, Cnt, FreeBlocks, FreeIn, PagesOK, HomesOK, Homes,
         HomeOf, Marked, Answers, Memory
<1> QED BY <1>2, <1>3, <1>4 DEF IInv, Well

(* kmalloc                                                                  *)
LEMMA KmallocInv ==
  ASSUME IInv, NEW c \in Caches, Kmalloc(c)
  PROVE  IInv'
<1> DEFINE x == IF c = "small" THEN KmallocSmall(m) ELSE KmallocBig(m)
<1>1. Well(m, {}) /\ clients = Clients(m)
  BY InvIs DEF Kmalloc
<1>2. Sound(x) /\ (~x.stuck => Well(x, {}) /\ Given(m, x))
  BY <1>1, KmallocOK
<1>3. /\ m' = [x EXCEPT !.got = NONE]
      /\ IF x.stuck THEN answer' = "stuck" /\ UNCHANGED clients
         ELSE IF x.got = NONE
           THEN /\ answer' = IF m.cacheFree[c] > 0 THEN "refused" ELSE "out of memory"
                /\ UNCHANGED clients
         ELSE answer' = "block" /\ clients' = clients \cup {x.got}
  BY DEF Kmalloc
<1> HIDE DEF x
<1>4. Sound(m') /\ m'.stuck = x.stuck /\ (Well(x, {}) => Well(m', {}) /\ Clients(m') = Clients(x))
  BY <1>2, <1>3, GotForgotten
<1>5. answer' \in Answers
  BY <1>3 DEF Answers
<1>6. ASSUME ~m'.stuck PROVE Well(m', {}) /\ clients' = Clients(m')
  <2>1. Well(m', {}) /\ Clients(m') = Clients(x) /\ Given(m, x) /\ ~x.stuck
    BY <1>2, <1>4, <1>6
  <2>2. clients' = Clients(x)
    BY <1>1, <1>3, <2>1 DEF Given
  <2> QED BY <2>1, <2>2
<1> QED BY <1>4, <1>5, <1>6, InvIs

(* kfree                                                                    *)
LEMMA KfreeInv ==
  ASSUME IInv, NEW b \in clients, Kfree(b)
  PROVE  IInv'
<1>1. Well(m, {}) /\ clients = Clients(m) /\ b \in Clients(m)
  BY InvIs DEF Kfree
<1>2. m' = IF m.of[b[1]] = "small" THEN KfreeSmall(m, b) ELSE KfreeBig(m, b)
  BY DEF Kfree
<1>3. Sound(m') /\ (~m'.stuck => Well(m', {}) /\ Clients(m') = Clients(m) \ {b})
  BY <1>1, <1>2, KfreeOK
<1>4. clients' = clients \ {b} /\ answer' \in Answers
  BY DEF Kfree, Answers
<1> QED BY <1>1, <1>3, <1>4, InvIs

(* No call breaks the invariant.                                            *)
THEOREM InductiveSlabs == Spec => []IInv
<1>1. ASSUME IInv, [Next]_vars PROVE IInv'
  <2>1. CASE \E c \in Caches : Kmalloc(c)
    BY <1>1, <2>1, KmallocInv
  <2>2. CASE \E b \in clients : Kfree(b)
    BY <1>1, <2>2, KfreeInv
  <2>3. CASE UNCHANGED vars
    <3>1. m' = m /\ clients' = clients /\ answer' = answer
      BY <2>3 DEF vars
    <3> QED BY <1>1, <3>1, InvIs
  <2> QED BY <1>1, <2>1, <2>2, <2>3 DEF Next
<1> QED BY InitInv, <1>1, PTL DEF Spec

(* The bitmaps mark exactly the blocks that clients and the structures of   *)
(* slabs have, never one for two, and no page is given back while a block   *)
(* of it is held: of kmalloc and kfree, whatever pushes or destroys a slab, *)
(* and the structures of one slab in another, on the way.                   *)
THEOREM BlocksHaveOneHolder == Spec => []OneHolder
<1>1. IInv => OneHolder
  <2> SUFFICES ASSUME IInv, ~m.stuck
               PROVE  /\ clients \cap Inner = {}
                      /\ clients \cup Inner = {b \in Blocks : b[2] \in m.used[b[1]]}
                      /\ \A s, r \in Slabs : s # r => Structures(s) \cap Structures(r) = {}
                      /\ \A s \in Pages : Exists(s) <=> s \notin m.pages
    BY DEF OneHolder
  <2>1. Sound(m) /\ PagesOK(m, {}) /\ HomesOK(m) /\ HoldersOK
    BY DEF IInv
  <2>2. \A s \in Slabs : Structures(s) = HomeOf(m, s)
    BY DEF Structures, HomeOf
  <2>3. \A s \in Slabs : ~Exists(s) => HomeOf(m, s) = {}
    <3>1. DOMAIN <<>> = {} /\ "none" # "big"
      BY SlabsAre
    <3> QED BY <2>1, <3>1 DEF Exists, HomesOK, HomeOf
  <2>4. Inner = Homes(m)
    BY <2>2, <2>3 DEF Inner, Homes
  <2>5. {b \in Blocks : b[2] \in m.used[b[1]]} = Marked(m)
    <3>1. ASSUME NEW s \in Slabs, NEW j, j \in m.used[s] PROVE Exists(s) /\ j \in 0..(Cnt(m, s) - 1)
      BY <2>1, <3>1 DEF Sound, UsedOK, Exists
    <3>2. ASSUME NEW s \in Slabs, Exists(s) PROVE 0..(Cnt(m, s) - 1) \subseteq Nat
      OBVIOUS
    <3>3. ASSUME NEW b \in Blocks PROVE b \in Slabs \X Nat
      <4>1. PICK s \in Slabs : Exists(s) /\ b \in {s} \X (0..(Cnt(m, s) - 1))
        BY DEF Blocks
      <4> QED BY <3>2, <4>1
    <3>4. ASSUME NEW b \in Marked(m) PROVE b \in Blocks /\ b[2] \in m.used[b[1]]
      <4>1. b[1] \in Slabs /\ b = <<b[1], b[2]>> /\ b[2] \in m.used[b[1]]
        BY DEF Marked
      <4>2. Exists(b[1]) /\ b \in {b[1]} \X (0..(Cnt(m, b[1]) - 1))
        BY <3>1, <4>1
      <4> QED BY <4>1, <4>2 DEF Blocks
    <3> QED BY <3>3, <3>4 DEF Marked
  <2>6. \A s, r \in Slabs : s # r => Structures(s) \cap Structures(r) = {}
    BY <2>1, <2>2 DEF HomesOK
  <2>7. \A s \in Pages : Exists(s) <=> s \notin m.pages
    BY <2>1 DEF PagesOK, Exists
  <2> QED BY <2>1, <2>4, <2>5, <2>6, <2>7 DEF HoldersOK
<1> QED BY <1>1, InductiveSlabs, PTL

(* A slab counts the blocks that its bitmap does not mark, and a cache      *)
(* those of its slabs, the slabs that MoveToFront loses from its ring       *)
(* included: kmalloc asks the count of the cache whether it needs a slab.   *)
THEOREM CountsAreExact == Spec => []CountsAgree
<1>1. IInv => CountsAgree
  <2> SUFFICES ASSUME IInv PROVE CountsAgree
    OBVIOUS
  <2>1. Sound(m) /\ answer \in Answers /\ m \in Memory
    BY DEF IInv, Sound
  <2>2. TypeOK
    <3>1. ASSUME NEW c \in Caches PROVE ToSet(m.ring[c]) \subseteq Slabs /\ m.cacheFree[c] \in Nat
      <4>1. m.ring[c] \in Seq(Slabs) /\ m.cacheFree[c] \in Nat
        BY <2>1, Fields
      <4> QED BY <4>1 DEF ToSet
    <3> QED BY <2>1, <3>1, Fields DEF TypeOK, Answers
  <2>3. \A s \in Slabs : Exists(s) => m.free[s] = Cnt(m, s) - Cardinality(m.used[s])
    BY <2>1 DEF Sound, UsedOK, Exists
  <2>4. \A c \in Caches : m.cacheFree[c] = FreeBlocks(m, c)
    BY <2>1 DEF Sound, CacheCountsOK
  <2> QED BY <2>2, <2>3, <2>4 DEF CountsAgree
<1> QED BY <1>1, InductiveSlabs, PTL
=============================================================================
