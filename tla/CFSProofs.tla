----------------------------- MODULE CFSProofs ------------------------------
(***************************************************************************)
(* Proofs about CFS, for any set of tasks, any quantum and any delay of    *)
(* the creations: the virtual run times of the tasks present never drift   *)
(* apart by more than a slice and such a delay, and every step is one the  *)
(* run queue allows.                                                       *)
(***************************************************************************)
EXTENDS CFS, TLAPS, FiniteSetTheorems, WellFoundedInduction

(* The processor never runs out of tasks: its init task stays.              *)
InitStays == InitPid \in Present /\ prio[InitPid] = Normal /\ IsFiniteSet(queue)

SlicesIn == \A t \in Pids : res[t] \in 1..LongestSlice

(* The smallest run time of the tasks present has been higher than it is,   *)
(* by g: a newcomer lowered it, by no more than its creation was late.      *)
(* Against that mark nobody is ahead by more than a slice, the init task    *)
(* has reached it, so that a creation that reads it starts no lower, and    *)
(* none still under way is further below it than MaxStale.  What is left of *)
(* the current task's slice and what it has had of it are a slice.          *)
Against(g) ==
  /\ \A t \in Present : vrt[t] \in 0..(g + LongestSlice + 5)
  /\ vrt[InitPid] >= g
  /\ \A t \in creating : vrt[t] \in (g - MaxStale)..(g + LongestSlice + 5)
  /\ vrt[current] + res[current] <= g + LongestSlice

RunTimesBounded == \E g \in 0..MaxStale : Against(g)

IInv == TypeOK /\ InitStays /\ SlicesIn /\ RunTimesBounded

-----------------------------------------------------------------------------
(* The operators CFS is built from.                                         *)

(* A set of natural numbers that is not empty has a smallest one.           *)
LEMMA NatMinSmallest ==
  ASSUME NEW S \in SUBSET Nat, S # {}
  PROVE  \E m \in S : \A x \in S : m <= x
<1> DEFINE R == OpToRel(<, Nat)
<1>1. PICK m \in S : \A x \in S : ~(<<x, m>> \in R)
  <2>1. IsWellFoundedOn(R, Nat)
    BY NatLessThanWellFounded
  <2> HIDE DEF R
  <2> QED BY <2>1, WFMin, Zenon
<1>2. \A x \in S : m <= x
  <2> SUFFICES ASSUME NEW x \in S, x < m PROVE FALSE
    OBVIOUS
  <2>1. <<x, m>> \in {ss \in Nat \X Nat : ss[1] < ss[2]}
    OBVIOUS
  <2>2. <<x, m>> \in R
    BY <2>1, Zenon DEF R, OpToRel
  <2> QED BY <1>1, <2>2, Zenon
<1> QED BY <1>2

(* So has a set of integers that are not too far below 0.                   *)
LEMMA MinSmallest ==
  ASSUME NEW S \in SUBSET Int, S # {}, \A x \in S : x >= -MaxStale
  PROVE  Min(S) \in S /\ \A x \in S : Min(S) <= x
<1> USE CFSAssumption
<1> DEFINE T == {x + MaxStale : x \in S}
<1>1. T \in SUBSET Nat /\ T # {}
  <2>1. \A x \in S : x + MaxStale \in Nat
    OBVIOUS
  <2> QED BY <2>1
<1>2. PICK m \in T : \A y \in T : m <= y
  BY <1>1, NatMinSmallest, Zenon
<1>3. PICK n \in S : m = n + MaxStale
  OBVIOUS
<1>4. \A x \in S : n <= x
  BY <1>2, <1>3
<1> QED BY <1>3, <1>4 DEF Min

(* The larger of two numbers.                                               *)
LEMMA MaxOfTwo ==
  ASSUME NEW a \in Int, NEW b \in Int
  PROVE  Max({a, b}) \in {a, b} /\ Max({a, b}) >= a /\ Max({a, b}) >= b
<1>1. \E m \in {a, b} : \A y \in {a, b} : m >= y
  OBVIOUS
<1> QED BY <1>1 DEF Max

(* _CFSTree_comparator is a total order: the leftmost node exists and none  *)
(* has run for less.                                                        *)
LEMMA LeftmostExists ==
  ASSUME NEW v \in [Pids -> Int], NEW S \in SUBSET Pids, S # {},
         \A u \in S : v[u] >= 0
  PROVE  Leftmost(v, S) \in S /\ \A u \in S : v[Leftmost(v, S)] <= v[u]
<1> DEFINE V == {v[t] : t \in S}
           least == Min(V)
           first == {t \in S : v[t] = least}
<1>1. least \in V /\ \A u \in S : least <= v[u]
  <2>1. V \in SUBSET Int /\ V # {}
    OBVIOUS
  <2>2. \A x \in V : x >= -MaxStale
    <3>1. \A u \in S : v[u] >= -MaxStale
      BY CFSAssumption
    <3> QED BY <3>1
  <2>3. Min(V) \in V /\ \A x \in V : Min(V) <= x
    BY <2>1, <2>2, MinSmallest, Zenon
  <2> QED BY <2>3
<1>2. PICK p \in first : \A u \in first : p <= u
  <2>1. first \in SUBSET Nat /\ first # {}
    BY <1>1, CFSAssumption
  <2> QED BY <2>1, NatMinSmallest, Zenon
<1>3. \A u \in S \ {p} : Before(v, p, u)
  <2> SUFFICES ASSUME NEW u \in S \ {p} PROVE Before(v, p, u)
    OBVIOUS
  <2>1. v[p] = least /\ least <= v[u] /\ least \in Int /\ v[u] \in Int
    BY <1>1
  <2>2. u \in Nat /\ p \in Nat
    BY CFSAssumption
  <2>3. v[u] = least => p <= u
    BY <1>2
  <2> QED BY <2>1, <2>2, <2>3 DEF Before
<1>4. p \in S
  OBVIOUS
<1>5. Leftmost(v, S) \in S /\ \A u \in S \ {Leftmost(v, S)} : Before(v, Leftmost(v, S), u)
  BY <1>3, <1>4 DEF Leftmost
<1> QED BY <1>5 DEF Before

(* What Rebase takes away is the smallest run time there is, whoever it is  *)
(* that has it.                                                             *)
LEMMA RebaseBounds ==
  ASSUME NEW v \in [Pids -> Int], NEW P \in SUBSET Pids, P # {},
         \A u \in P : v[u] >= -MaxStale, NEW C \in SUBSET Pids, Rebase(v, P, C)
  PROVE  \E least \in Int, p \in P :
           /\ least = v[p] /\ \A u \in P : least <= v[u] /\ vrt'[u] = v[u] - least
           /\ creating' \subseteq C
           /\ \A t \in creating' : vrt'[t] = v[t] - least /\ vrt'[t] >= -MaxStale
           /\ vrt' \in [Pids -> Int]
<1> DEFINE V == {v[u] : u \in P}
           least == Min(V)
<1>1. least \in V /\ \A u \in P : least <= v[u]
  <2>1. V \in SUBSET Int /\ V # {} /\ \A x \in V : x >= -MaxStale
    OBVIOUS
  <2>2. Min(V) \in V /\ \A x \in V : Min(V) <= x
    BY <2>1, MinSmallest, Zenon
  <2> QED BY <2>2
<1>2. /\ creating' = {t \in C : v[t] - least >= -MaxStale}
      /\ vrt' = [t \in Pids |-> IF t \in P \cup creating' THEN v[t] - least ELSE 0]
  BY DEF Rebase
<1>3. PICK p \in P : least = v[p]
  BY <1>1
<1> HIDE DEF least
<1>4. least \in Int /\ creating' \subseteq C
  BY <1>2, <1>3
<1>5. \A u \in P \cup creating' : vrt'[u] = v[u] - least
  BY <1>2, <1>4
<1>6. vrt' \in [Pids -> Int]
  BY <1>2, <1>4
<1>7. \A t \in creating' : vrt'[t] >= -MaxStale
  BY <1>2, <1>5
<1> QED BY <1>1, <1>3, <1>4, <1>5, <1>6, <1>7

(* A slice is at least one tick and at most the longest: a heavy task never *)
(* has the processor to itself.                                             *)
LEMMA SliceRange ==
  ASSUME TypeOK, InitStays
  PROVE  /\ NewSlice(prio[current]) \in 1..LongestSlice /\ Ran(current) \in 1..6
         /\ LongestSlice \in Nat /\ Quantum <= LongestSlice
<1> USE CFSAssumption DEF TypeOK
<1> DEFINE half == Quantum \div 2
           turn == Quantum \div taskNum
           w == Weight(prio[current])
<1>1. w \in 1..6 /\ Weight(Killed) = 6 /\ (prio[current] = Normal => w = 1)
  BY DEF Weight, Normal, Trapped, Killed
<1>2. taskNum \in Nat \ {0} /\ (prio[current] # Normal => taskNum >= 2)
  <2>1. taskNum = Cardinality(queue) + 1 /\ Cardinality(queue) \in Nat
    BY FS_AddElement, FS_CardinalityType DEF InitStays, taskNum, Present
  <2>2. ASSUME prio[current] # Normal PROVE Cardinality(queue) # 0
    <3>1. queue # {}
      BY <2>2 DEF InitStays, Present
    <3> QED BY <3>1, FS_EmptySet DEF InitStays
  <2> QED BY <2>1, <2>2
<1>3. half \in Nat /\ turn \in 0..Quantum
  <2>1. \A q, n \in Nat : n # 0 => q \div n \in Nat /\ q \div n <= q
    OBVIOUS
  <2> QED BY <1>2, <2>1
<1>4. taskNum >= 2 => turn <= half
  <2>1. \A q, n \in Nat : n >= 2 => q \div n <= q \div 2
    <3> SUFFICES ASSUME NEW q \in Nat, NEW n \in Nat, n >= 2 PROVE q \div n <= q \div 2
      OBVIOUS
    <3>1. PICK k \in Nat : k = q \div n /\ k * n <= q
      OBVIOUS
    <3>2. k * 2 <= k * n
      OBVIOUS
    <3>3. k * 2 <= q
      BY <3>1, <3>2
    <3> QED BY <3>1, <3>3
  <2> QED BY <1>2, <2>1
<1>5. /\ Max({1, turn}) \in 1..Quantum /\ Max({1, half}) \in Nat \ {0}
      /\ (taskNum >= 2 => Max({1, turn}) <= Max({1, half}))
  <2> DEFINE m == Max({1, turn})
             h == Max({1, half})
  <2>1. m \in {1, turn} /\ m >= 1 /\ m >= turn
    BY <1>3, MaxOfTwo
  <2>2. h \in {1, half} /\ h >= 1 /\ h >= half
    <3> HIDE DEF half
    <3>1. half \in Int /\ 1 \in Int
      BY <1>3
    <3> QED BY <3>1, MaxOfTwo, Zenon
  <2> HIDE DEF turn, half, m, h
  <2>3. m \in 1..Quantum /\ h \in Nat \ {0} /\ (taskNum >= 2 => m <= h)
    BY <1>3, <1>4, <2>1, <2>2
  <2> QED BY <2>3 DEF m, h
<1>6. /\ LongestSlice \in Nat /\ Quantum <= LongestSlice
      /\ 6 * Max({1, half}) <= LongestSlice
  <2> DEFINE heavy == 6 * Max({1, half})
  <2>1. heavy \in Nat /\ LongestSlice = Max({Quantum, heavy})
    BY <1>1, <1>5 DEF LongestSlice
  <2> HIDE DEF heavy
  <2>2. LongestSlice \in {Quantum, heavy} /\ LongestSlice >= Quantum /\ LongestSlice >= heavy
    <3>1. /\ Max({Quantum, heavy}) \in {Quantum, heavy}
          /\ Max({Quantum, heavy}) >= Quantum /\ Max({Quantum, heavy}) >= heavy
      <4>1. Quantum \in Int /\ heavy \in Int
        BY <2>1
      <4> QED BY <4>1, MaxOfTwo, Zenon
    <3> QED BY <2>1, <3>1
  <2>3. LongestSlice \in Nat /\ Quantum <= LongestSlice /\ heavy <= LongestSlice
    BY <2>1, <2>2
  <2> QED BY <2>3 DEF heavy
<1>7. NewSlice(prio[current]) = w * Max({1, turn})
  BY DEF NewSlice
<1>8. w * Max({1, turn}) \in 1..LongestSlice
  <2> DEFINE m == Max({1, turn})
             h == Max({1, half})
  <2> HIDE DEF w, m, h, turn, half
  <2>1. CASE prio[current] = Normal
    <3>1. w = 1 /\ m \in 1..Quantum /\ LongestSlice \in Nat /\ Quantum <= LongestSlice
      BY <1>1, <1>5, <1>6, <2>1 DEF m
    <3>2. w * m = m
      BY <3>1
    <3> QED BY <3>1, <3>2 DEF m
  <2>2. CASE prio[current] # Normal
    <3>1. /\ w \in 1..6 /\ m \in 1..Quantum /\ h \in Nat /\ m <= h
          /\ LongestSlice \in Nat /\ 6 * h <= LongestSlice
      BY <1>1, <1>2, <1>5, <1>6, <2>2 DEF m, h
    <3>2. w * m \in 1..(6 * h)
      BY <3>1
    <3> QED BY <3>1, <3>2 DEF m
  <2> QED BY <2>1, <2>2
<1> QED BY <1>1, <1>6, <1>7, <1>8 DEF Ran

-----------------------------------------------------------------------------
(* The steps.                                                               *)

(* At first the init task runs alone, with a whole quantum.                 *)
LEMMA InitIInv == Init => IInv
<1> SUFFICES ASSUME Init PROVE IInv
  OBVIOUS
<1> USE CFSAssumption DEF Init, Normal
<1>1. TypeOK
  <2>1. /\ queue \subseteq Pids /\ current \in Pids \ queue
        /\ vrt \in [Pids -> Int] /\ res \in [Pids -> Int]
        /\ prio \in [Pids -> {Normal, Trapped, Killed}]
        /\ releasing \subseteq Pids /\ gone \subseteq Pids
        /\ creating \subseteq Pids \ Present
    BY DEF Present
  <2>2. need \in BOOLEAN
    BY Zenon
  <2> QED BY <2>1, <2>2, Zenon DEF TypeOK
<1>2. InitStays
  BY FS_EmptySet DEF InitStays, Present
<1>3. SlicesIn /\ RunTimesBounded
  <2>1. LongestSlice \in Nat /\ Quantum <= LongestSlice
    BY <1>1, <1>2, SliceRange
  <2>2. 0 \in 0..MaxStale /\ Against(0)
    BY <2>1 DEF Against, Present
  <2>3. SlicesIn
    BY <2>1 DEF SlicesIn
  <2> QED BY <2>2, <2>3 DEF RunTimesBounded
<1> QED BY <1>1, <1>2, <1>3 DEF IInv

(* When run times are taken relative to another smallest one, the mark they *)
(* are held against moves with it, down to 0 at most.                       *)
LEMMA RebaseKeeps ==
  ASSUME NEW v \in [Pids -> Int], NEW g \in 0..MaxStale, LongestSlice \in Nat,
         NEW P \in SUBSET Pids, InitPid \in P, NEW C \in SUBSET Pids,
         \A u \in P : v[u] >= g - MaxStale /\ v[u] <= g + LongestSlice + 5,
         v[InitPid] >= g, \A t \in C : v[t] \in (g - MaxStale)..(g + LongestSlice + 5),
         Rebase(v, P, C)
  PROVE  /\ vrt' \in [Pids -> Int] /\ creating' \subseteq C
         /\ \E h \in 0..MaxStale :
              /\ \A u \in P : vrt'[u] \in 0..(h + LongestSlice + 5)
              /\ vrt'[InitPid] >= h
              /\ \A t \in creating' : vrt'[t] \in (h - MaxStale)..(h + LongestSlice + 5)
              /\ \A u \in P, r \in Int : v[u] + r <= g + LongestSlice
                                       => vrt'[u] + r <= h + LongestSlice
              /\ \A p \in P : (\A u \in P : v[p] <= v[u]) => vrt'[p] = 0
<1> USE CFSAssumption
<1>1. PICK least \in Int, p \in P :
           /\ least = v[p] /\ \A u \in P : least <= v[u] /\ vrt'[u] = v[u] - least
           /\ creating' \subseteq C
           /\ \A t \in creating' : vrt'[t] = v[t] - least /\ vrt'[t] >= -MaxStale
           /\ vrt' \in [Pids -> Int]
  <2>1. \A u \in P : v[u] >= -MaxStale
    OBVIOUS
  <2>2. P # {}
    OBVIOUS
  <2> QED BY <2>1, <2>2, RebaseBounds
<1>2. PICK h \in 0..MaxStale : h >= g - least /\ h \in {g - least, 0}
  <2>1. g - least <= MaxStale /\ g - least \in Int
    BY <1>1
  <2>2. CASE g - least >= 0
    BY <2>1, <2>2
  <2>3. CASE ~(g - least >= 0)
    BY <2>1, <2>3
  <2> QED BY <2>2, <2>3
<1>3. \A u \in P : vrt'[u] \in 0..(h + LongestSlice + 5)
  BY <1>1, <1>2
<1>4. vrt'[InitPid] >= h
  BY <1>1, <1>2
<1>5. \A t \in creating' : vrt'[t] \in (h - MaxStale)..(h + LongestSlice + 5)
  <2> SUFFICES ASSUME NEW t \in creating' PROVE vrt'[t] \in (h - MaxStale)..(h + LongestSlice + 5)
    OBVIOUS
  <2>1. vrt'[t] = v[t] - least /\ vrt'[t] >= -MaxStale /\ v[t] >= g - MaxStale
       /\ v[t] <= g + LongestSlice + 5 /\ v[t] \in Int
    BY <1>1
  <2> QED BY <1>2, <2>1
<1>6. \A u \in P, r \in Int : v[u] + r <= g + LongestSlice => vrt'[u] + r <= h + LongestSlice
  <2> SUFFICES ASSUME NEW u \in P, NEW r \in Int, v[u] + r <= g + LongestSlice
               PROVE  vrt'[u] + r <= h + LongestSlice
    OBVIOUS
  <2>1. vrt'[u] = v[u] - least /\ v[u] \in Int
    BY <1>1
  <2> QED BY <1>2, <2>1
<1>7. \A q \in P : (\A u \in P : v[q] <= v[u]) => vrt'[q] = 0
  BY <1>1
<1> QED BY <1>1, <1>3, <1>4, <1>5, <1>6, <1>7

(* Task_schedule, for the run times and slices an interrupt leaves: the     *)
(* task chosen is one that has run least, and it is there.                  *)
LEMMA ScheduleStep ==
  ASSUME IInv, NEW v \in [Pids -> Int], NEW g \in 0..MaxStale,
         \A t \in Present : v[t] \in 0..(g + LongestSlice + 5),
         v[InitPid] >= g, \A t \in creating : v[t] \in (g - MaxStale)..(g + LongestSlice + 5),
         Schedule(v), res' \in [Pids -> Int], SlicesIn'
  PROVE  /\ queue' \subseteq Pids /\ current' \in Pids \ queue'
         /\ vrt' \in [Pids -> Int] /\ gone' \subseteq Pids
         /\ creating' \subseteq Pids \ Present'
         /\ InitPid \in Present' /\ IsFiniteSet(queue')
         /\ RunTimesBounded'
<1> USE CFSAssumption DEF IInv, TypeOK, InitStays
<1> DEFINE Kept(P) == /\ P \in SUBSET Pids /\ P \subseteq Present /\ InitPid \in P
                      /\ IsFiniteSet(P)
                      /\ current' = Leftmost(v, P) /\ queue' = P \ {current'}
                      /\ Rebase(v, P, creating)
<1>1. IsFiniteSet(Present)
  BY FS_AddElement DEF Present
<1>2. (\E P : Kept(P)) /\ gone' \subseteq Pids
  <2>1. CASE /\ current' = Leftmost(v, Present) /\ queue' = Present \ {current'}
             /\ Rebase(v, Present, creating) /\ UNCHANGED gone
    <3>1. Kept(Present)
      BY <1>1, <2>1 DEF Present
    <3> QED BY <2>1, <3>1
  <2>2. CASE /\ prio[current] = Killed /\ gone' = gone \cup {current}
             /\ current' = Leftmost(v, queue) /\ queue' = queue \ {current'}
             /\ Rebase(v, queue, creating)
    <3>1. InitPid \in queue
      BY <2>2 DEF Present, Normal, Killed
    <3>2. Kept(queue)
      BY <2>2, <3>1 DEF Present
    <3> QED BY <2>2, <3>2
  <2> QED BY <2>1, <2>2 DEF Schedule
<1>3. PICK P : Kept(P)
  BY <1>2
<1>4. current' \in P /\ \A u \in P : v[current'] <= v[u]
  <2>1. \A u \in P : v[u] >= 0
    BY <1>3, SliceRange
  <2> QED BY <1>3, <2>1, LeftmostExists
<1>5. /\ vrt' \in [Pids -> Int] /\ creating' \subseteq creating
      /\ \E h \in 0..MaxStale :
           /\ \A u \in P : vrt'[u] \in 0..(h + LongestSlice + 5)
           /\ vrt'[InitPid] >= h
           /\ \A t \in creating' : vrt'[t] \in (h - MaxStale)..(h + LongestSlice + 5)
           /\ \A p \in P : (\A u \in P : v[p] <= v[u]) => vrt'[p] = 0
  <2>1. \A u \in P : v[u] >= g - MaxStale /\ v[u] <= g + LongestSlice + 5
    BY <1>3, SliceRange
  <2>2. LongestSlice \in Nat
    BY SliceRange
  <2>3. P \in SUBSET Pids /\ InitPid \in P /\ Rebase(v, P, creating)
    BY <1>3
  <2>4. creating \in SUBSET Pids
    OBVIOUS
  <2> QED BY <2>1, <2>2, <2>3, <2>4, RebaseKeeps
<1>6. Present' = P /\ IsFiniteSet(queue') /\ queue' \subseteq Pids
  <2>1. IsFiniteSet(P \ {current'})
    BY <1>3, FS_RemoveElement, Zenon
  <2>2. queue' = P \ {current'} /\ P \subseteq Pids
    BY <1>3
  <2> QED BY <1>4, <2>1, <2>2 DEF Present
<1>7. RunTimesBounded'
  <2>1. PICK h \in 0..MaxStale :
           /\ \A u \in P : vrt'[u] \in 0..(h + LongestSlice + 5)
           /\ vrt'[InitPid] >= h
           /\ \A t \in creating' : vrt'[t] \in (h - MaxStale)..(h + LongestSlice + 5)
           /\ vrt'[current'] = 0
    BY <1>4, <1>5
  <2>2. res'[current'] <= LongestSlice /\ res'[current'] \in Int /\ LongestSlice \in Nat
    <3>1. current' \in Pids /\ LongestSlice \in Nat
      BY <1>3, <1>4, SliceRange
    <3>2. res'[current'] \in 1..LongestSlice
      BY <3>1 DEF SlicesIn
    <3> QED BY <3>1, <3>2
  <2>3. Against(h)'
    BY <1>6, <2>1, <2>2 DEF Against
  <2> QED BY <2>3 DEF RunTimesBounded
<1>8. creating' \subseteq Pids \ Present'
  BY <1>3, <1>5, <1>6
<1> QED BY <1>2, <1>3, <1>4, <1>5, <1>6, <1>7, <1>8

(* Task_updateCurState, from the HPET or from Task_releaseProcessor: what   *)
(* the current task ran is added to its run time and taken from its slice.  *)
LEMMA UpdateStep ==
  ASSUME IInv, NEW r \in {0, res[current]}, UpdateAndSchedule(r), UNCHANGED prio,
         releasing' \subseteq Pids
  PROVE  IInv'
<1> USE CFSAssumption DEF IInv, TypeOK
<1> DEFINE v == [vrt EXCEPT ![current] = @ + Ran(current)]
           left == r - Ran(current)
<1>1. /\ Ran(current) \in 1..6 /\ NewSlice(prio[current]) \in 1..LongestSlice
      /\ LongestSlice \in Nat /\ res[current] \in 1..LongestSlice
  BY SliceRange DEF SlicesIn
<1>2. PICK g \in 0..MaxStale : Against(g)
  BY DEF RunTimesBounded
<1>3. /\ v \in [Pids -> Int] /\ v[InitPid] >= g
      /\ \A t \in Present : v[t] \in 0..(g + LongestSlice + 5)
      /\ \A t \in creating : v[t] \in (g - MaxStale)..(g + LongestSlice + 5)
  <2>1. v \in [Pids -> Int] /\ \A t \in Pids : v[t] >= vrt[t]
    BY <1>1
  <2>2. v[current] \in 0..(g + LongestSlice + 5)
    BY <1>1, <1>2 DEF Against, Present
  <2>3. \A t \in Present \ {current} : v[t] \in 0..(g + LongestSlice + 5)
    BY <1>2 DEF Against, Present
  <2>4. v[InitPid] >= g
    BY <1>2, <2>1 DEF Against
  <2>5. \A t \in creating : v[t] \in (g - MaxStale)..(g + LongestSlice + 5)
    BY <1>2 DEF Against, Present
  <2> HIDE DEF v
  <2> QED BY <2>1, <2>2, <2>3, <2>4, <2>5
<1>4. CASE left <= 0
  <2>1. Schedule(v) /\ res' = [res EXCEPT ![current] = NewSlice(prio[current])] /\ need' = FALSE
    BY <1>4 DEF UpdateAndSchedule
  <2>2. res' \in [Pids -> Int] /\ SlicesIn'
    BY <1>1, <2>1 DEF SlicesIn
  <2> HIDE DEF v
  <2>3. /\ queue' \subseteq Pids /\ current' \in Pids \ queue'
        /\ vrt' \in [Pids -> Int] /\ gone' \subseteq Pids
        /\ creating' \subseteq Pids \ Present'
        /\ InitPid \in Present' /\ IsFiniteSet(queue')
        /\ RunTimesBounded'
    BY <1>3, <2>1, <2>2, ScheduleStep
  <2>4. need' \in BOOLEAN
    BY <2>1, Zenon
  <2>5. TypeOK'
    BY <2>2, <2>3, <2>4, Zenon
  <2>6. InitStays'
    BY <2>3 DEF InitStays
  <2> QED BY <2>2, <2>3, <2>5, <2>6, Zenon
<1>5. CASE ~(left <= 0)
  <2>1. /\ Rebase(v, Present, creating) /\ res' = [res EXCEPT ![current] = left]
        /\ need' = FALSE /\ UNCHANGED <<queue, current, gone>>
    BY <1>5 DEF UpdateAndSchedule
  <2>2. r = res[current] /\ left \in 1..LongestSlice /\ v[current] + left <= g + LongestSlice
    BY <1>1, <1>2, <1>5 DEF Against
  <2>3. /\ vrt' \in [Pids -> Int] /\ creating' \subseteq creating
        /\ \E h \in 0..MaxStale :
             /\ \A u \in Present : vrt'[u] \in 0..(h + LongestSlice + 5)
             /\ vrt'[InitPid] >= h
             /\ \A t \in creating' : vrt'[t] \in (h - MaxStale)..(h + LongestSlice + 5)
             /\ \A u \in Present, q \in Int : v[u] + q <= g + LongestSlice
                                           => vrt'[u] + q <= h + LongestSlice
    <3>1. \A u \in Present : v[u] >= g - MaxStale /\ v[u] <= g + LongestSlice + 5
      BY <1>1, <1>3
    <3>2. Present \in SUBSET Pids /\ InitPid \in Present
      BY DEF InitStays, Present
    <3> HIDE DEF v
    <3> QED BY <1>1, <1>3, <2>1, <3>1, <3>2, RebaseKeeps
  <2>4. TypeOK' /\ InitStays' /\ Present' = Present
    <3>1. need' \in BOOLEAN
      BY <2>1, Zenon
    <3>2. res' \in [Pids -> Int]
      BY <2>1, <2>2
    <3>3. Present' = Present /\ creating' \subseteq Pids \ Present'
      BY <2>1, <2>3 DEF Present
    <3> HIDE DEF v, left
    <3> QED BY <2>1, <2>3, <3>1, <3>2, <3>3, Zenon DEF InitStays
  <2>5. SlicesIn'
    BY <2>1, <2>2 DEF SlicesIn
  <2>6. RunTimesBounded'
    <3>1. PICK h \in 0..MaxStale :
             /\ \A u \in Present : vrt'[u] \in 0..(h + LongestSlice + 5)
             /\ vrt'[InitPid] >= h
             /\ \A t \in creating' : vrt'[t] \in (h - MaxStale)..(h + LongestSlice + 5)
             /\ \A u \in Present, q \in Int : v[u] + q <= g + LongestSlice
                                           => vrt'[u] + q <= h + LongestSlice
      BY <2>3
    <3>2. current \in Present /\ left \in Int /\ res'[current'] = left /\ current' = current
      BY <2>1, <2>2 DEF Present
    <3> HIDE DEF v, left
    <3>3. vrt'[current'] + res'[current'] <= h + LongestSlice
      BY <2>2, <3>1, <3>2
    <3>4. Against(h)'
      BY <2>4, <3>1, <3>3 DEF Against
    <3> QED BY <3>4 DEF RunTimesBounded
  <2> QED BY <2>4, <2>5, <2>6
<1> QED BY <1>1, <1>4, <1>5

(* HPET or its IPI; Task_releaseProcessor; any other interrupt.             *)
LEMMA InterruptStep ==
  ASSUME IInv, Tick \/ OtherInterrupt \/ ReleaseFlag \/ ReleaseIPI
  PROVE  IInv'
<1>1. CASE Tick
  <2>1. UpdateAndSchedule(res[current]) /\ UNCHANGED prio /\ releasing' \subseteq Pids
    BY <1>1 DEF Tick, IInv, TypeOK
  <2> QED BY <2>1, UpdateStep
<1>2. CASE ReleaseIPI
  <2>1. UpdateAndSchedule(0) /\ UNCHANGED prio /\ releasing' \subseteq Pids
    BY <1>2 DEF ReleaseIPI, IInv, TypeOK
  <2> QED BY <2>1, UpdateStep
<1>3. CASE OtherInterrupt
  <2>1. Schedule(vrt) /\ need' = FALSE /\ UNCHANGED <<res, prio, releasing>>
    BY <1>3 DEF OtherInterrupt
  <2>2. SlicesIn' /\ res' \in [Pids -> Int]
    BY <2>1 DEF IInv, TypeOK, SlicesIn
  <2>3. PICK g \in 0..MaxStale : Against(g)
    BY DEF IInv, RunTimesBounded
  <2>4. /\ queue' \subseteq Pids /\ current' \in Pids \ queue'
        /\ vrt' \in [Pids -> Int] /\ gone' \subseteq Pids
        /\ creating' \subseteq Pids \ Present'
        /\ InitPid \in Present' /\ IsFiniteSet(queue')
        /\ RunTimesBounded'
    BY <2>1, <2>2, <2>3, ScheduleStep DEF IInv, TypeOK, Against
  <2>5. need' \in BOOLEAN
    BY <2>1, Zenon
  <2>6. TypeOK'
    BY <2>1, <2>2, <2>4, <2>5, Zenon DEF IInv, TypeOK
  <2>7. InitStays'
    BY <2>1, <2>4 DEF IInv, InitStays
  <2> QED BY <2>2, <2>4, <2>6, <2>7 DEF IInv
<1>4. CASE ReleaseFlag
  <2>1. /\ UNCHANGED <<queue, current, vrt, res, prio, gone, creating>>
        /\ need' = TRUE /\ releasing' = releasing \cup {current}
    BY <1>4 DEF ReleaseFlag
  <2>2. need' \in BOOLEAN
    BY <2>1, Zenon
  <2>3. releasing' \subseteq Pids
    BY <2>1 DEF IInv, TypeOK
  <2>4. TypeOK'
    BY <2>1, <2>2, <2>3, Zenon DEF IInv, TypeOK, Present
  <2> QED BY <2>1, <2>4 DEF IInv, InitStays, SlicesIn, RunTimesBounded, Against, Present
<1> QED BY <1>1, <1>2, <1>3, <1>4

(* Task_exit and traps change priorities, never that of the init task.      *)
LEMMA PriorityStep ==
  ASSUME IInv, NEW p \in {Trapped, Killed}, SetPriority(p)
  PROVE  IInv'
<1>1. /\ current # InitPid /\ prio' = [prio EXCEPT ![current] = p]
      /\ UNCHANGED <<queue, current, vrt, res, need, releasing, gone, creating>>
  BY DEF SetPriority
<1>2. prio' \in [Pids -> {Normal, Trapped, Killed}] /\ prio'[InitPid] = prio[InitPid]
  BY <1>1, CFSAssumption DEF IInv, TypeOK
<1>3. TypeOK'
  BY <1>1, <1>2, Zenon DEF IInv, TypeOK, Present
<1> QED BY <1>1, <1>2, <1>3 DEF IInv, InitStays, SlicesIn, RunTimesBounded, Against, Present

(* Task_createTask, the reading: the init task has reached every mark the   *)
(* smallest run time ever set.                                              *)
LEMMA CreateReadStep ==
  ASSUME IInv, NEW t \in Pids, CreateRead(t)
  PROVE  IInv'
<1> USE CFSAssumption
<1>1. /\ t \notin Present /\ t \notin creating /\ creating' = creating \cup {t}
      /\ vrt' = [vrt EXCEPT ![t] = vrt[InitPid]]
      /\ UNCHANGED <<queue, current, res, prio, need, releasing, gone>>
  BY DEF CreateRead, StartVrt
<1>2. vrt' \in [Pids -> Int] /\ creating' \subseteq Pids \ Present' /\ Present' = Present
  BY <1>1 DEF IInv, TypeOK, Present
<1>3. TypeOK'
  BY <1>1, <1>2, Zenon DEF IInv, TypeOK
<1>4. InitStays' /\ SlicesIn'
  BY <1>1, <1>2 DEF IInv, InitStays, SlicesIn
<1>5. RunTimesBounded'
  <2>1. PICK g \in 0..MaxStale : Against(g)
    BY DEF IInv, RunTimesBounded
  <2>2. vrt'[t] \in (g - MaxStale)..(g + LongestSlice + 5)
    <3>1. vrt'[t] = vrt[InitPid] /\ InitPid \in Present
      BY <1>1 DEF IInv, TypeOK, InitStays
    <3>2. vrt[InitPid] \in 0..(g + LongestSlice + 5) /\ LongestSlice \in Nat
      BY <2>1, <3>1, SliceRange DEF Against, IInv
    <3> QED BY <3>1, <3>2
  <2>3. \A u \in Pids \ {t} : vrt'[u] = vrt[u]
    BY <1>1 DEF IInv, TypeOK
  <2>4. \A u \in creating' : vrt'[u] \in (g - MaxStale)..(g + LongestSlice + 5)
    <3> SUFFICES ASSUME NEW u \in creating', u # t PROVE vrt'[u] \in (g - MaxStale)..(g + LongestSlice + 5)
      BY <2>2
    <3>1. u \in creating /\ u \in Pids
      BY <1>1 DEF IInv, TypeOK
    <3> QED BY <2>1, <2>3, <3>1 DEF Against
  <2>5. \A u \in Present : vrt'[u] = vrt[u]
    BY <1>1, <2>3 DEF IInv, TypeOK, Present
  <2>6. InitPid \in Present /\ current \in Present
    BY DEF IInv, InitStays, Present
  <2>7. Against(g)'
    BY <1>1, <1>2, <2>1, <2>4, <2>5, <2>6 DEF Against
  <2> QED BY <2>7 DEF RunTimesBounded
<1> QED BY <1>3, <1>4, <1>5 DEF IInv

(* ... and the insertion: it lowers the smallest run time by no more than   *)
(* there is to MaxStale.                                                    *)
LEMMA CreateInsertStep ==
  ASSUME IInv, NEW t \in Pids, CreateInsert(t)
  PROVE  IInv'
<1> USE CFSAssumption DEF IInv, TypeOK
<1> DEFINE P == Present \cup {t}
           C == creating \ {t}
<1>1. /\ t \in creating /\ queue' = queue \cup {t} /\ Rebase(vrt, P, C)
      /\ UNCHANGED <<current, res, prio, need, releasing, gone>>
  BY DEF CreateInsert
<1>2. Present' = P /\ P \in SUBSET Pids /\ InitPid \in P /\ current' \in Pids \ queue'
  BY <1>1 DEF Present, InitStays
<1>3. PICK g \in 0..MaxStale : Against(g)
  BY DEF RunTimesBounded
<1>4. LongestSlice \in Nat
  BY SliceRange
<1>5. /\ vrt' \in [Pids -> Int] /\ creating' \subseteq C
      /\ \E h \in 0..MaxStale :
           /\ \A u \in P : vrt'[u] \in 0..(h + LongestSlice + 5)
           /\ vrt'[InitPid] >= h
           /\ \A u \in creating' : vrt'[u] \in (h - MaxStale)..(h + LongestSlice + 5)
           /\ \A u \in P, q \in Int : vrt[u] + q <= g + LongestSlice
                                   => vrt'[u] + q <= h + LongestSlice
  <2>1. \A u \in Present : vrt[u] >= g - MaxStale /\ vrt[u] <= g + LongestSlice + 5
    BY <1>3, <1>4 DEF Against
  <2>2. vrt[t] >= g - MaxStale /\ vrt[t] <= g + LongestSlice + 5
    BY <1>1, <1>3, <1>4 DEF Against
  <2>3. /\ \A u \in P : vrt[u] >= g - MaxStale /\ vrt[u] <= g + LongestSlice + 5
        /\ \A u \in C : vrt[u] \in (g - MaxStale)..(g + LongestSlice + 5)
        /\ vrt[InitPid] >= g /\ C \in SUBSET Pids /\ vrt \in [Pids -> Int]
    BY <1>3, <2>1, <2>2 DEF Against
  <2> HIDE DEF P, C
  <2> QED BY <1>1, <1>2, <1>4, <2>3, RebaseKeeps
<1>6. TypeOK'
  BY <1>1, <1>2, <1>5, Zenon
<1>7. InitStays' /\ SlicesIn'
  BY <1>1, <1>2, FS_AddElement DEF InitStays, SlicesIn
<1>8. RunTimesBounded'
  <2>1. PICK h \in 0..MaxStale :
           /\ \A u \in P : vrt'[u] \in 0..(h + LongestSlice + 5)
           /\ vrt'[InitPid] >= h
           /\ \A u \in creating' : vrt'[u] \in (h - MaxStale)..(h + LongestSlice + 5)
           /\ \A u \in P, q \in Int : vrt[u] + q <= g + LongestSlice
                                   => vrt'[u] + q <= h + LongestSlice
    BY <1>5
  <2>2. vrt'[current] + res[current] <= h + LongestSlice
    BY <1>3, <2>1 DEF Against, Present
  <2>3. Against(h)'
    BY <1>1, <1>2, <2>1, <2>2 DEF Against
  <2> QED BY <2>3 DEF RunTimesBounded
<1> QED BY <1>6, <1>7, <1>8

(* The strengthened invariant holds in every reachable state: it bounds the *)
(* run times of tasks whose creation read the init task's long before.      *)
THEOREM Inductive == Spec => []IInv
<1>1. IInv /\ [Next]_vars => IInv'
  <2> SUFFICES ASSUME IInv, [Next]_vars PROVE IInv'
    OBVIOUS
  <2>1. CASE UNCHANGED vars
    BY <2>1, Zenon DEF vars, IInv, TypeOK, InitStays, SlicesIn, RunTimesBounded, Against, Present
  <2>2. CASE Next
    BY <2>2, InterruptStep, PriorityStep, CreateReadStep, CreateInsertStep DEF Next
  <2> QED BY <2>1, <2>2
<1> QED BY <1>1, InitIInv, PTL DEF Spec

(* LagBounded for any tasks, any quantum and any delay between a creation's *)
(* reading and its insertion: whatever tasks are created, killed, trapped   *)
(* or give up the processor, the virtual run times of those present stay    *)
(* within one slice, one tick and one such delay.                           *)
THEOREM FairAccounting == Spec => []LagBounded
<1>1. IInv => LagBounded
  <2> SUFFICES ASSUME IInv, NEW t \in Present
               PROVE  vrt[t] \in 0..(LongestSlice + Weight(Killed) - 1 + MaxStale)
    BY DEF IInv, LagBounded
  <2>1. Weight(Killed) = 6
    BY DEF Weight, Killed
  <2>2. PICK g \in 0..MaxStale : Against(g)
    BY DEF IInv, RunTimesBounded
  <2>3. vrt[t] \in 0..(g + LongestSlice + 5) /\ LongestSlice \in Nat
    BY <2>2, SliceRange DEF Against, IInv
  <2> QED BY <2>1, <2>2, <2>3, CFSAssumption
<1> QED BY <1>1, Inductive, PTL

(* What ImplementsRunQueue says of single steps: Task_schedule and          *)
(* Task_createTask's insertion do what the run queue allows, and nothing    *)
(* else does.                                                               *)
RunsAsQueue == FairQueue!Init /\ [][FairQueue!Next]_(FairQueue!vars)

(* RunsAsQueue for any tasks: the first state is one of the run queue, and  *)
(* every step is a step of the run queue or leaves it as it is.             *)
THEOREM RefinesRunQueue == Spec => RunsAsQueue
<1>1. Init => FairQueue!Init
  BY CFSAssumption DEF Init, FairQueue!Init
<1>2. IInv /\ [Next]_vars => [FairQueue!Next]_(FairQueue!vars)
  <2> SUFFICES ASSUME IInv, [Next]_vars
               PROVE  FairQueue!Next \/ UNCHANGED <<queue, current>>
    BY DEF FairQueue!vars
  <2>1. ASSUME NEW v \in [Pids -> Int], \A u \in Present : v[u] >= 0, Schedule(v)
        PROVE  FairQueue!Next
    <3>1. CASE current' = Leftmost(v, Present) /\ queue' = Present \ {current'}
      <4>1. current' \in Present /\ current' \in Pids
        BY <2>1, <3>1, LeftmostExists DEF IInv, TypeOK, Present
      <4>2. FairQueue!Dispatch(current')
        BY <3>1, <4>1 DEF FairQueue!Dispatch, Present
      <4> QED BY <4>1, <4>2 DEF FairQueue!Next
    <3>2. CASE /\ prio[current] = Killed
               /\ current' = Leftmost(v, queue) /\ queue' = queue \ {current'}
      <4>1. InitPid \in queue
        BY <3>2 DEF IInv, InitStays, Present, Normal, Killed
      <4>2. current' \in queue /\ current' \in Pids /\ current' # current
        BY <2>1, <3>2, <4>1, LeftmostExists DEF IInv, TypeOK, Present
      <4>3. FairQueue!Dispatch(current')
        BY <3>2, <4>2 DEF FairQueue!Dispatch
      <4> QED BY <4>2, <4>3 DEF FairQueue!Next
    <3> QED BY <2>1, <3>1, <3>2 DEF Schedule
  <2>2. vrt \in [Pids -> Int] /\ \A u \in Present : vrt[u] >= 0
    BY SliceRange DEF IInv, TypeOK, RunTimesBounded, Against
  <2>3. ASSUME NEW r \in {0, res[current]}, UpdateAndSchedule(r)
        PROVE  FairQueue!Next \/ UNCHANGED <<queue, current>>
    <3> DEFINE v == [vrt EXCEPT ![current] = @ + Ran(current)]
    <3>1. v \in [Pids -> Int] /\ \A u \in Present : v[u] >= 0
      <4>1. Ran(current) \in 1..6 /\ Present \subseteq Pids /\ current \in Pids
        BY SliceRange DEF IInv, TypeOK, Present
      <4>2. v \in [Pids -> Int] /\ \A u \in Pids : v[u] >= vrt[u]
        BY <2>2, <4>1
      <4> HIDE DEF v
      <4> QED BY <2>2, <4>1, <4>2
    <3>2. Schedule(v) \/ UNCHANGED <<queue, current>>
      BY <2>3 DEF UpdateAndSchedule
    <3> QED BY <2>1, <3>1, <3>2
  <2>4. ASSUME NEW t \in Pids, CreateInsert(t)
        PROVE  FairQueue!Next
    <3>1. FairQueue!Arrive(t)
      BY <2>4 DEF CreateInsert, Present, FairQueue!Arrive, IInv, TypeOK
    <3> QED BY <3>1 DEF FairQueue!Next
  <2> QED BY <2>1, <2>2, <2>3, <2>4
          DEF Next, Tick, OtherInterrupt, ReleaseFlag, ReleaseIPI, SetPriority, CreateRead, vars
<1> QED BY <1>1, <1>2, Inductive, PTL DEF Spec, RunsAsQueue
=============================================================================
