----------------------------- MODULE SIMDProofs -----------------------------
(***************************************************************************)
(* Proofs about SIMD, for any processors, tasks, save areas and values:    *)
(* the registers of a processor are used untrapped by their owner only,    *)
(* and a task keeps its values although dead tasks stay the owners of      *)
(* registers and save to blocks that are not theirs any more, but for the  *)
(* values that such a save hits and those of a first user.                 *)
(***************************************************************************)
EXTENDS SIMD, TLAPS

(* The save area of a live task is its own, and every block that a task has *)
(* belongs to a live one.                                                   *)
AreasOwned ==
  /\ \A t \in live : simdRegs[t] # None => owner[simdRegs[t]] = t
  /\ \A b \in Blocks : owner[b] \in Tasks => owner[b] \in live

(* On a processor whose registers have had no owner nobody has computed,    *)
(* and a new task does not inherit the values of the one before it.         *)
UnusedAtFirst ==
  /\ \A c \in Cpus : domain[c] = None => \A t \in Tasks : home[t] = c => mine[t] = Empty
  /\ \A t \in Tasks \ live : mine[t] = Empty

(* Every processor runs a live task of its own.                             *)
Running == \A c \in Cpus : current[c] \in live /\ home[current[c]] = c

Types ==
  /\ live \subseteq Tasks /\ home \in [Tasks -> Cpus]
  /\ current \in [Cpus -> Tasks] /\ TS \in [Cpus -> BOOLEAN]
  /\ reg = [c \in Cpus |-> reg[c]] /\ domain \in [Cpus -> Tasks \cup {None}]
  /\ simdRegs \in [Tasks -> Blocks \cup {None}]
  /\ owner \in [Blocks -> Tasks \cup {"other", None}]
  /\ area = [b \in Blocks |-> area[b]] /\ mine = [t \in Tasks |-> mine[t]]

IInv == Types /\ Running /\ UntrappedIsOwner /\ ValuesFound /\ AreasOwned /\ UnusedAtFirst

(* At first nobody computes and there is no save area.                      *)
LEMMA InitIInv == Init => IInv
<1> SUFFICES ASSUME Init PROVE IInv
  OBVIOUS
<1> USE SIMDAssumption DEF Init
<1>1. Types /\ Running
  BY DEF Types, Running, Inits, Empty
<1>2. UntrappedIsOwner /\ ValuesFound /\ UnusedAtFirst
  BY DEF UntrappedIsOwner, ValuesFound, UnusedAtFirst, Inits
<1>3. AreasOwned
  BY DEF AreasOwned, Inits
<1> QED BY <1>1, <1>2, <1>3 DEF IInv

(* Task_schedule sets TS and touches no registers.                          *)
LEMMA SwitchStep ==
  ASSUME IInv, NEW c \in Cpus, NEW t \in Tasks, Switch(c, t) PROVE IInv'
<1> USE SIMDAssumption DEF Switch, TSAfterSwitch, IInv, Types
<1>1. Types' /\ Running'
  BY DEF Running
<1>2. UntrappedIsOwner' /\ AreasOwned' /\ UnusedAtFirst'
  BY DEF UntrappedIsOwner, AreasOwned, UnusedAtFirst
<1>3. ValuesFound'
  BY DEF ValuesFound, Kept
<1> QED BY <1>1, <1>2, <1>3

(* Task_createTask: the structure has no area, whoever used it before.      *)
LEMMA CreateStep ==
  ASSUME IInv, NEW t \in Tasks, NEW c \in Cpus, Create(t, c) PROVE IInv'
<1> USE SIMDAssumption DEF Create, IInv, Types
<1>1. Types' /\ Running'
  BY DEF Running
<1>2. UntrappedIsOwner' /\ AreasOwned' /\ UnusedAtFirst'
  BY DEF UntrappedIsOwner, AreasOwned, UnusedAtFirst
<1>3. ValuesFound'
  <2> SUFFICES ASSUME NEW u \in live' \ lost', mine'[u] # Empty PROVE Kept(u)'
    BY Zenon DEF ValuesFound
  <2>1. u \in live \ lost /\ u # t /\ mine[u] # Empty
    BY DEF UnusedAtFirst
  <2>2. Kept(u)
    BY <2>1 DEF ValuesFound
  <2> QED BY <2>1, <2>2 DEF Kept
<1> QED BY <1>1, <1>2, <1>3

(* Task_exit: what it frees is no other live task's area, and the owner of  *)
(* the registers may stay behind.                                           *)
LEMMA ExitStep ==
  ASSUME IInv, NEW c \in Cpus, NEW t \in Tasks, Exit(c, t) PROVE IInv'
<1> USE SIMDAssumption DEF Exit, IInv, Types, TSAfterSwitch
<1>1. Types'
  OBVIOUS
<1>2. Running'
  BY DEF Running
<1>3. UntrappedIsOwner' /\ UnusedAtFirst'
  BY DEF UntrappedIsOwner, UnusedAtFirst
<1>4. AreasOwned'
  BY DEF AreasOwned
<1>5. ValuesFound'
  <2> SUFFICES ASSUME NEW u \in live' \ lost', mine'[u] # Empty PROVE Kept(u)'
    BY Zenon DEF ValuesFound
  <2>1. u \in live \ lost /\ u # current[c] /\ u \in Tasks /\ mine'[u] = mine[u]
    OBVIOUS
  <2>2. Kept(u)
    BY <2>1 DEF ValuesFound
  <2> QED BY <2>1, <2>2 DEF Kept
<1> QED BY <1>1, <1>2, <1>3, <1>4, <1>5

(* A vector instruction changes the values of the owner only.               *)
LEMMA ComputeStep ==
  ASSUME IInv, NEW c \in Cpus, NEW v \in Values, Compute(c, v) PROVE IInv'
<1> USE SIMDAssumption DEF Compute, IInv, Types
<1>1. Types' /\ Running'
  BY DEF Running
<1>2. UntrappedIsOwner' /\ AreasOwned' /\ UnusedAtFirst'
  BY DEF UntrappedIsOwner, AreasOwned, UnusedAtFirst, Running
<1>3. ValuesFound'
  <2> SUFFICES ASSUME NEW u \in live' \ lost', mine'[u] # Empty PROVE Kept(u)'
    BY Zenon DEF ValuesFound
  <2>1. domain[c] = current[c] /\ home[current[c]] = c
    BY DEF UntrappedIsOwner, Running
  <2>2. CASE u = current[c]
    BY <2>1, <2>2 DEF Kept
  <2>3. CASE u # current[c]
    <3>1. mine'[u] = mine[u] /\ Kept(u)
      BY <2>3 DEF ValuesFound
    <3> QED BY <2>1, <2>3, <3>1 DEF Kept
  <2> QED BY <2>2, <2>3
<1> QED BY <1>1, <1>2, <1>3

(* Other code gets and gives back only blocks that are no task's.           *)
LEMMA OtherStep ==
  ASSUME IInv, NEW b \in Blocks, OtherAlloc(b) \/ OtherFree(b) PROVE IInv'
<1>1. /\ \A a \in Blocks : owner[a] \in Tasks => owner'[a] = owner[a] /\ area'[a] = area[a]
      /\ \A a \in Blocks : owner'[a] \in Tasks => owner'[a] = owner[a]
      /\ owner' \in [Blocks -> Tasks \cup {"other", None}]
      /\ area' = [a \in Blocks |-> area'[a]]
      /\ UNCHANGED <<live, home, current, TS, reg, domain, simdRegs, mine, lost>>
  <2>1. CASE OtherAlloc(b)
    BY <2>1, SIMDAssumption DEF OtherAlloc, IInv, Types
  <2>2. CASE OtherFree(b)
    BY <2>2, SIMDAssumption DEF OtherFree, IInv, Types
  <2> QED BY <2>1, <2>2
<1> USE <1>1 DEF IInv, Types
<1>2. Types' /\ Running'
  BY DEF Running
<1>3. UntrappedIsOwner' /\ UnusedAtFirst'
  BY DEF UntrappedIsOwner, UnusedAtFirst
<1>4. AreasOwned'
  BY SIMDAssumption DEF AreasOwned
<1>5. ValuesFound'
  <2> SUFFICES ASSUME NEW u \in live' \ lost', mine'[u] # Empty PROVE Kept(u)'
    BY Zenon DEF ValuesFound
  <2>1. Kept(u)
    BY DEF ValuesFound
  <2> QED BY <2>1 DEF Kept
<1> QED BY <1>2, <1>3, <1>4, <1>5

(* The trap of the owner, or of the first one.                              *)
LEMMA TrapOwnStep ==
  ASSUME IInv, NEW c \in Cpus, Trap(c), TrapOwn(c) PROVE IInv'
<1> USE SIMDAssumption DEF Trap, TrapOwn, IInv, Types
<1>1. Types' /\ Running'
  BY DEF Running
<1>2. UntrappedIsOwner' /\ AreasOwned' /\ UnusedAtFirst'
  BY DEF UntrappedIsOwner, AreasOwned, UnusedAtFirst
<1>3. ValuesFound'
  <2> SUFFICES ASSUME NEW u \in live' \ lost', mine'[u] # Empty PROVE Kept(u)'
    BY Zenon DEF ValuesFound
  <2>1. Kept(u) /\ u \in Tasks /\ home[u] \in Cpus
    BY DEF ValuesFound
  <2>2. home[u] = c => domain[c] # None
    BY <2>1 DEF UnusedAtFirst
  <2> QED BY <2>1, <2>2 DEF Kept
<1> QED BY <1>1, <1>2, <1>3

(* SIMD_switchToCur: the registers go to a block that is no other task's,   *)
(* or a task's that is counted as lost, and the task's values come back.    *)
LEMMA TrapSwitchStep ==
  ASSUME IInv, NEW c \in Cpus, Trap(c), TrapSwitch(c) PROVE IInv'
<1> DEFINE cur == current[c]
<1> USE SIMDAssumption DEF IInv
<1>1. PICK to \in Target(c) :
        /\ lost' = lost \cup Overwritten(c, to) \cup Unsaved(c)
        /\ \/ /\ simdRegs[cur] # None
              /\ area' = Saved(c, to)
              /\ reg' = [reg EXCEPT ![c] = Saved(c, to)[simdRegs[cur]]]
              /\ UNCHANGED <<simdRegs, owner>>
           \/ /\ simdRegs[cur] = None
              /\ \E b \in Blocks :
                   /\ owner[b] = None
                   /\ owner' = [owner EXCEPT ![b] = cur]
                   /\ simdRegs' = [simdRegs EXCEPT ![cur] = b]
                   /\ area' = [Saved(c, to) EXCEPT ![b] = reg[c]]
              /\ UNCHANGED reg
  BY DEF TrapSwitch
<1>2. /\ TS' = [TS EXCEPT ![c] = FALSE] /\ domain' = [domain EXCEPT ![c] = cur]
      /\ UNCHANGED <<live, home, current, mine>>
      /\ domain[c] \notin {None, cur}
  BY DEF Trap, TrapSwitch
<1>3. /\ cur \in live /\ home[cur] = c /\ cur \in Tasks
      /\ domain[c] \in Tasks /\ domain[c] # cur
  BY <1>2 DEF Types, Running
<1>4. to \in Blocks \cup {None} /\ (domain[c] \in live => to = simdRegs[domain[c]])
  BY <1>3 DEF Target, Types
<1>5. UntrappedIsOwner' /\ UnusedAtFirst' /\ Running'
  BY <1>2, <1>3 DEF UntrappedIsOwner, UnusedAtFirst, Running, Types
<1>6. \A u \in live \ lost' : mine[u] # Empty =>
        /\ u \in Tasks /\ home[u] \in Cpus /\ Kept(u)
        /\ IsOwn(u, c) => simdRegs[u] # None /\ to = simdRegs[u]
        /\ ~IsOwn(u, c) => to = None \/ owner[to] # u
  BY <1>1, <1>2, <1>4 DEF ValuesFound, Overwritten, Unsaved, IsOwn, Types
<1>7. \A b \in Blocks : Saved(c, to)[b] = IF b = to THEN reg[c] ELSE area[b]
  BY <1>4 DEF Saved, Types
<1>8. Saved(c, to) = [b \in Blocks |-> Saved(c, to)[b]]
  BY <1>4 DEF Saved, Types
<1>9. CASE simdRegs[cur] # None
  <2>1. /\ area' = Saved(c, to) /\ UNCHANGED <<simdRegs, owner>>
        /\ reg' = [reg EXCEPT ![c] = Saved(c, to)[simdRegs[cur]]]
    BY <1>1, <1>9
  <2>2. Types' /\ AreasOwned'
    BY <1>2, <1>3, <1>8, <2>1 DEF Types, AreasOwned
  <2>3. ASSUME NEW u \in live \ lost', mine[u] # Empty PROVE Kept(u)'
    <3>1. /\ u \in Tasks /\ home[u] \in Cpus /\ Kept(u)
          /\ IsOwn(u, c) => simdRegs[u] # None /\ to = simdRegs[u]
          /\ ~IsOwn(u, c) => to = None \/ owner[to] # u
      BY <1>6, <2>3
    <3>2. CASE u = cur
      <4>1. /\ simdRegs[u] \in Blocks /\ owner[simdRegs[u]] = u
            /\ area[simdRegs[u]] = mine[u] /\ to # simdRegs[u]
        BY <1>3, <1>9, <3>1, <3>2 DEF Kept, IsOwn, Types
      <4>2. reg'[c] = mine[u]
        BY <1>7, <2>1, <3>2, <4>1 DEF Types
      <4> QED BY <1>2, <1>3, <3>2, <4>2 DEF Kept, Types
    <3>3. CASE u # cur /\ IsOwn(u, c)
      <4>1. simdRegs[u] \in Blocks /\ owner[simdRegs[u]] = u /\ reg[c] = mine[u]
        BY <3>1, <3>3 DEF Kept, IsOwn, AreasOwned, Types
      <4> QED BY <1>2, <1>7, <2>1, <3>1, <3>3, <4>1 DEF Kept, IsOwn, Types
    <3>4. CASE u # cur /\ ~IsOwn(u, c) /\ domain[home[u]] = u
      <4>1. home[u] # c
        BY <3>4 DEF IsOwn
      <4> QED BY <1>2, <2>1, <3>1, <3>4, <4>1 DEF Kept, Types
    <3>5. CASE u # cur /\ ~IsOwn(u, c) /\ domain[home[u]] # u
      <4>1. /\ simdRegs[u] \in Blocks /\ owner[simdRegs[u]] = u
            /\ area[simdRegs[u]] = mine[u] /\ to # simdRegs[u]
        BY <3>1, <3>5 DEF Kept, Types
      <4>2. area'[simdRegs[u]] = mine[u] /\ domain'[home[u]] # u
        BY <1>2, <1>7, <2>1, <3>1, <3>5, <4>1 DEF Types
      <4> QED BY <1>2, <2>1, <4>1, <4>2 DEF Kept, Types
    <3> QED BY <3>2, <3>3, <3>4, <3>5
  <2>4. ValuesFound'
    BY <1>2, <2>3 DEF ValuesFound
  <2> QED BY <1>5, <2>2, <2>4
<1>10. CASE simdRegs[cur] = None
  <2>1. PICK b \in Blocks :
          /\ owner[b] = None
          /\ owner' = [owner EXCEPT ![b] = cur]
          /\ simdRegs' = [simdRegs EXCEPT ![cur] = b]
          /\ area' = [Saved(c, to) EXCEPT ![b] = reg[c]] /\ UNCHANGED reg
    BY <1>1, <1>10
  <2>2. Types'
    BY <1>2, <1>3, <1>8, <2>1 DEF Types
  <2>3. AreasOwned'
    BY <1>2, <1>3, <2>1 DEF AreasOwned, Types
  <2>4. ASSUME NEW u \in live \ lost', mine[u] # Empty PROVE Kept(u)'
    <3>1. /\ u \in Tasks /\ home[u] \in Cpus /\ Kept(u)
          /\ IsOwn(u, c) => simdRegs[u] # None /\ to = simdRegs[u]
          /\ ~IsOwn(u, c) => to = None \/ owner[to] # u
      BY <1>6, <2>4
    <3>2. u # cur
      BY <1>3, <1>10, <3>1 DEF Kept
    <3>3. simdRegs'[u] = simdRegs[u]
      BY <2>1, <3>1, <3>2 DEF Types
    <3>4. CASE IsOwn(u, c)
      <4>1. /\ simdRegs[u] \in Blocks /\ owner[simdRegs[u]] = u /\ reg[c] = mine[u]
            /\ simdRegs[u] # b
        BY <2>1, <3>1, <3>4 DEF Kept, IsOwn, AreasOwned, Types
      <4>2. area'[simdRegs[u]] = mine[u] /\ owner'[simdRegs[u]] = u
        BY <1>7, <1>8, <2>1, <3>1, <3>4, <4>1 DEF Types
      <4> QED BY <1>2, <3>1, <3>2, <3>3, <3>4, <4>1, <4>2 DEF Kept, IsOwn, Types
    <3>5. CASE ~IsOwn(u, c) /\ domain[home[u]] = u
      <4>1. home[u] # c
        BY <3>5 DEF IsOwn
      <4> QED BY <1>2, <2>1, <3>1, <3>5, <4>1 DEF Kept, Types
    <3>6. CASE ~IsOwn(u, c) /\ domain[home[u]] # u
      <4>1. /\ simdRegs[u] \in Blocks /\ owner[simdRegs[u]] = u
            /\ area[simdRegs[u]] = mine[u] /\ to # simdRegs[u] /\ simdRegs[u] # b
        BY <2>1, <3>1, <3>6 DEF Kept, Types
      <4>2. /\ area'[simdRegs[u]] = mine[u] /\ owner'[simdRegs[u]] = u
            /\ domain'[home[u]] # u
        BY <1>2, <1>7, <1>8, <2>1, <3>1, <3>2, <3>6, <4>1 DEF Types
      <4> QED BY <1>2, <3>3, <4>1, <4>2 DEF Kept, Types
    <3> QED BY <3>4, <3>5, <3>6
  <2>5. ValuesFound'
    BY <1>2, <2>4 DEF ValuesFound
  <2> QED BY <1>5, <2>2, <2>3, <2>5
<1> QED BY <1>9, <1>10

(* The strengthened invariant holds in every reachable state.               *)
THEOREM Inductive == Spec => []IInv
<1>1. IInv /\ [Next]_vars => IInv'
  <2> SUFFICES ASSUME IInv, [Next]_vars PROVE IInv'
    OBVIOUS
  <2>1. CASE UNCHANGED vars
    BY <2>1 DEF vars, IInv, Types, Running, UntrappedIsOwner, ValuesFound, AreasOwned,
         UnusedAtFirst, Kept
  <2>2. ASSUME NEW c \in Cpus, Trap(c) PROVE IInv'
    BY <2>2, TrapOwnStep, TrapSwitchStep DEF Trap
  <2>3. CASE Next
    BY <2>2, <2>3, SwitchStep, CreateStep, ExitStep, ComputeStep, OtherStep DEF Next
  <2> QED BY <2>1, <2>3
<1> QED BY InitIInv, <1>1, PTL DEF Spec

(* UntrappedIsOwner for any number of processors and tasks: vector          *)
(* instructions run without a trap in the owner of the registers only.      *)
THEOREM OnlyOwnerComputes == Spec => []UntrappedIsOwner
<1>1. IInv => UntrappedIsOwner
  BY DEF IInv
<1> QED BY Inductive, <1>1, PTL

(* ValuesFound for any number of processors, tasks and blocks: a task finds *)
(* its values again unless the first user's or a dead owner's trap took     *)
(* them, and there is no other way to lose them (simd.c:66-79).             *)
THEOREM ValuesKept == Spec => []ValuesFound
<1>1. IInv => ValuesFound
  BY DEF IInv
<1> QED BY Inductive, <1>1, PTL
=============================================================================
