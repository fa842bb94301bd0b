--------------------------- MODULE SchedulerProofs ---------------------------
(***************************************************************************)
(* Proofs about Scheduler, for any number of processors and tasks.  The    *)
(* strengthened invariant IInv is carried through every step, once for the *)
(* paths of the processors and once for the recycler; the first theorems   *)
(* follow from it.  Beside it two more are carried through the steps: that *)
(* every task is in one place from its creation to the release of its      *)
(* stack, and that the counters, which are changed apart from what they    *)
(* count, are exact up to the updates already due.                         *)
(***************************************************************************)
EXTENDS Scheduler, FiniteSetTheorems, TLAPS

(* The initial state satisfies the strengthened invariant.                 *)
LEMMA InitIInv == Init => IInv
<1> USE SchedulerAssumption DEF Init, IdleTasks
<1>1. Init => TypeOK
  <2> SUFFICES ASSUME Init PROVE TypeOK
    OBVIOUS
  <2>1. current \in [Cpus -> Tasks] /\ target \in [Cpus -> Tasks \cup {None}]
    OBVIOUS
  <2>2. tree \in [Cpus -> SUBSET Tasks] /\ taskNum \in [Cpus -> Int]
    OBVIOUS
  <2>3. life \in [Tasks -> {"unborn", "live", "killed", "freed"}]
    OBVIOUS
  <2>4. pc \in [Cpus -> {"task", "createInc", "pick", "switch"} \cup KillPath]
    BY DEF KillPath
  <2>5. /\ killedTree \in SUBSET Tasks /\ inKillTree \in SUBSET Tasks
        /\ killedTaskNum \in Int /\ recycTskState \in Int /\ treeLock \in {0, 1}
        /\ rMost \in Tasks \cup {None}
    OBVIOUS
  <2>6. rpc \in {"idle", "getMax", "gotLock", "checkFlag", "delNode", "decNum", "retire", "free"}
    OBVIOUS
  <2> QED BY <2>1, <2>2, <2>3, <2>4, <2>5, <2>6, Zenon DEF TypeOK
<1>2. Init => HomeInv /\ RunInv
  BY DEF HomeInv, RunInv, KillPath
<1>3. Init => RecyclerInv /\ BuriedInv /\ RecyclerCpuStackOwned
  BY DEF RecyclerInv, Announced, BuriedInv, Buried, RecyclerCpuStackOwned
<1> QED BY <1>1, <1>2, <1>3 DEF IInv

(* Task_createTask: the new task was neither queued nor current anywhere.  *)
LEMMA CreateStep ==
  ASSUME IInv, NEW c \in Cpus, CreateInc(c) \/ \E t \in Tasks : CreateIns(c, t)
  PROVE  IInv'
<1> USE SchedulerAssumption DEF IInv, TypeOK, HomeInv, RunInv, Goto, killVars, recVars
<1>1. CASE CreateInc(c)
  <2> USE <1>1 DEF CreateInc
  <2>1. TypeOK' /\ HomeInv' /\ RunInv'
    BY DEF KillPath
  <2>2. RecyclerInv' /\ BuriedInv' /\ RecyclerCpuStackOwned'
    BY DEF RecyclerInv, BuriedInv, Buried, Announced, RecyclerCpuStackOwned
  <2> QED BY <2>1, <2>2
<1>2. ASSUME NEW t \in Tasks, CreateIns(c, t)
      PROVE  IInv'
  <2> USE <1>2 DEF CreateIns
  <2>1. TypeOK'
    <3>1. tree' \in [Cpus -> SUBSET Tasks]
      OBVIOUS
    <3>2. life' \in [Tasks -> {"unborn", "live", "killed", "freed"}]
      OBVIOUS
    <3> QED BY <3>1, <3>2
  <2>2. HomeInv'
    OBVIOUS
  <2>3. RunInv'
    BY DEF KillPath
  <2>4. RecyclerInv'
    BY DEF RecyclerInv, Announced
  <2>5. BuriedInv' /\ RecyclerCpuStackOwned'
    BY DEF BuriedInv, Buried, RecyclerInv, RecyclerCpuStackOwned
  <2> QED BY <2>1, <2>2, <2>3, <2>4, <2>5
<1> QED BY <1>1, <1>2

(* Task_exit and the choice Task_schedule makes for the current task.      *)
LEMMA LeaveStep ==
  ASSUME IInv, NEW c \in Cpus, Exit(c) \/ Requeue(c) \/ Bury(c)
  PROVE  IInv'
<1> USE SchedulerAssumption DEF IInv, TypeOK, HomeInv, RunInv, Goto, cpuVars, killVars, recVars
<1>1. CASE Exit(c)
  <2> USE <1>1 DEF Exit
  <2>1. TypeOK' /\ HomeInv'
    OBVIOUS
  <2>2. RunInv'
    <3> SUFFICES ASSUME NEW d \in Cpus
                 PROVE  /\ life'[current[d]] # "unborn"
                        /\ pc[d] \in KillPath => life'[current[d]] \in {"killed", "freed"}
                        /\ pc[d] = "createInc" => life'[current[d]] = "live"
      OBVIOUS
    <3>1. CASE d = c
      BY <3>1 DEF KillPath
    <3>2. CASE d # c
      BY <3>2
    <3> QED BY <3>1, <3>2
  <2>3. RecyclerInv'
    BY DEF RecyclerInv, Announced, IdleTasks
  <2>4. BuriedInv' /\ RecyclerCpuStackOwned'
    BY DEF BuriedInv, Buried, RecyclerInv, RecyclerCpuStackOwned
  <2> QED BY <2>1, <2>2, <2>3, <2>4
<1>2. CASE Requeue(c)
  <2> USE <1>2 DEF Requeue
  <2>1. TypeOK' /\ HomeInv' /\ RunInv'
    BY DEF KillPath, BuriedInv
  <2>2. RecyclerInv'
    BY DEF RecyclerInv, Announced
  <2>3. BuriedInv' /\ RecyclerCpuStackOwned'
    BY DEF BuriedInv, Buried, RecyclerInv, RecyclerCpuStackOwned
  <2> QED BY <2>1, <2>2, <2>3
<1>3. CASE Bury(c)
  <2> USE <1>3 DEF Bury, ToKilledTree
  <2>1. TypeOK' /\ HomeInv' /\ RunInv'
    BY DEF KillPath
  <2>2. RecyclerInv'
    BY DEF RecyclerInv, Announced
  <2>3. BuriedInv' /\ RecyclerCpuStackOwned'
    BY DEF BuriedInv, Buried, RecyclerInv, RecyclerCpuStackOwned
  <2> QED BY <2>1, <2>2, <2>3
<1> QED BY <1>1, <1>2, <1>3

(* The burial of the current task and the switch away from it.             *)
LEMMA BurialStep ==
  ASSUME IInv, NEW c \in Cpus,
         \/ KillIns(c) \/ KillNum(c) \/ KillFlag(c) \/ KillDec(c)
         \/ (\E t \in Tasks : Pick(c, t)) \/ Switch(c)
  PROVE  IInv'
<1> USE SchedulerAssumption DEF IInv, TypeOK, HomeInv, RunInv, Goto, killVars, recVars
<1>1. CASE KillIns(c)
  <2> USE <1>1 DEF KillIns
  <2>1. TypeOK' /\ HomeInv' /\ RunInv'
    BY DEF KillPath
  <2>2. RecyclerInv'
    BY DEF RecyclerInv, Announced
  <2>3. BuriedInv' /\ RecyclerCpuStackOwned'
    BY DEF BuriedInv, Buried, KillPath, RecyclerCpuStackOwned
  <2> QED BY <2>1, <2>2, <2>3
<1>2. CASE KillNum(c)
  BY <1>2 DEF KillNum, KillPath, RecyclerInv, Announced, BuriedInv, Buried,
              RecyclerCpuStackOwned
<1>3. CASE KillFlag(c)
  <2> USE <1>3 DEF KillFlag
  <2>1. TypeOK' /\ HomeInv' /\ RunInv'
    BY DEF KillPath
  <2>2. RecyclerInv'
    BY DEF RecyclerInv, Announced
  <2>3. BuriedInv' /\ RecyclerCpuStackOwned'
    BY DEF BuriedInv, Buried, KillPath, RecyclerCpuStackOwned
  <2> QED BY <2>1, <2>2, <2>3
<1>4. CASE KillDec(c)
  BY <1>4 DEF KillDec, KillPath, RecyclerInv, Announced, BuriedInv, Buried,
              RecyclerCpuStackOwned
<1>5. ASSUME NEW t \in Tasks, Pick(c, t)
      PROVE  IInv'
  <2> USE <1>5 DEF Pick
  <2>1. TypeOK' /\ HomeInv' /\ RunInv'
    BY DEF KillPath
  <2>2. RecyclerInv' /\ RecyclerCpuStackOwned'
    BY DEF RecyclerInv, Announced, RecyclerCpuStackOwned
  <2>3. BuriedInv'
    BY DEF BuriedInv, Buried
  <2> QED BY <2>1, <2>2, <2>3
<1>6. CASE Switch(c)
  <2> USE <1>6 DEF Switch
  <2>1. TypeOK' /\ HomeInv' /\ RunInv'
    BY DEF KillPath
  <2>2. RecyclerInv' /\ RecyclerCpuStackOwned'
    BY DEF RecyclerInv, Announced, RecyclerCpuStackOwned
  <2>3. BuriedInv'
    BY DEF BuriedInv, Buried
  <2> QED BY <2>1, <2>2, <2>3
<1> QED BY <1>1, <1>2, <1>3, <1>4, <1>5, <1>6

(* The recycler moves no processor; only RecFree changes a task's life.    *)
LEMMA RecyclerIInv ==
  ASSUME IInv, RecyclerStep
  PROVE  IInv'
<1> USE SchedulerAssumption DEF IInv, RGoto, RecyclerRuns, cpuVars, killVars
<1>1. UNCHANGED cpuVars
  BY DEF RecyclerStep, RecAnnounce, RecLookup, RecGetMax, RecBackOff, RecLock, RecDel,
         RecNum, RecRetire, RecFree
<1>2. CASE ~RecFree
  <2>1. UNCHANGED life /\ UNCHANGED inKillTree /\ killedTree' \subseteq killedTree
    BY <1>2 DEF RecyclerStep, RecAnnounce, RecLookup, RecGetMax, RecBackOff, RecLock, RecDel,
                RecNum, RecRetire
  <2>2. rMost' \in Tasks \cup {None}
    BY <1>2 DEF RecyclerStep, RecAnnounce, RecLookup, RecGetMax, RecBackOff, RecLock, RecDel,
                RecNum, RecRetire, TypeOK
  <2>3. TypeOK'
    <3>1. killedTree' \in SUBSET Tasks
      BY <2>1 DEF TypeOK
    <3>2. killedTaskNum' \in Int /\ recycTskState' \in Int /\ treeLock' \in {0, 1}
      BY <1>2 DEF RecyclerStep, RecAnnounce, RecLookup, RecGetMax, RecBackOff, RecLock, RecDel,
                  RecNum, RecRetire, TypeOK
    <3>3. rpc' \in {"idle", "getMax", "gotLock", "checkFlag", "delNode", "decNum", "retire",
                    "free"}
      BY <1>2 DEF RecyclerStep, RecAnnounce, RecLookup, RecGetMax, RecBackOff, RecLock, RecDel,
                  RecNum, RecRetire, TypeOK
    <3>4. inKillTree' \in SUBSET Tasks /\ life' \in [Tasks -> {"unborn", "live", "killed", "freed"}]
      BY <2>1 DEF TypeOK
    <3> QED
      BY <1>1, <2>1, <2>2, <3>1, <3>2, <3>3, <3>4, Zenon DEF TypeOK
  <2>4. HomeInv' /\ RunInv' /\ RecyclerCpuStackOwned'
    BY <1>1, <2>1 DEF HomeInv, RunInv, RecyclerCpuStackOwned
  <2>5. RecyclerInv'
    BY <1>1, <1>2, <2>1
    DEF RecyclerStep, RecAnnounce, RecLookup, RecGetMax, RecBackOff, RecLock, RecDel,
        RecNum, RecRetire, RecyclerInv, Announced, TypeOK
  <2>6. BuriedInv'
    BY <1>1, <1>2, <2>1
    DEF RecyclerStep, RecAnnounce, RecLookup, RecGetMax, RecBackOff, RecLock, RecDel,
        RecNum, RecRetire, BuriedInv, Buried
  <2> QED BY <2>3, <2>4, <2>5, <2>6
<1>3. CASE RecFree
  <2> USE <1>3 DEF RecFree, TypeOK
  <2>1. rMost \in inKillTree /\ life[rMost] \in {"killed", "freed"}
    BY DEF BuriedInv, Buried
  <2>2. TypeOK'
    OBVIOUS
  <2>3. HomeInv' /\ RunInv'
    BY <2>1 DEF HomeInv, RunInv, BuriedInv, Buried, KillPath
  <2>4. RecyclerInv' /\ RecyclerCpuStackOwned'
    BY <2>1 DEF RecyclerInv, Announced, RecyclerCpuStackOwned
  <2>5. BuriedInv'
    BY <2>1 DEF BuriedInv, Buried
  <2> QED BY <2>2, <2>3, <2>4, <2>5
<1> QED BY <1>2, <1>3

(* The strengthened invariant holds in every reachable state, whatever the *)
(* interleaving of processors and recycler.                                *)
THEOREM Inductive == Spec => []IInv
<1>1. IInv /\ [Next]_vars => IInv'
  <2> SUFFICES ASSUME IInv, [Next]_vars
               PROVE  IInv'
    OBVIOUS
  <2>1. CASE UNCHANGED vars
    BY <2>1 DEF vars, cpuVars, killVars, recVars, IInv, TypeOK, HomeInv, RunInv, RecyclerInv,
                BuriedInv, Buried, Announced, RecyclerCpuStackOwned
  <2>2. ASSUME NEW c \in Cpus,
               \/ \E t \in Tasks : CreateIns(c, t)
               \/ Exit(c) \/ Requeue(c) \/ Bury(c) \/ KernelPath(c)
        PROVE  IInv'
    BY <2>2, CreateStep, LeaveStep, BurialStep DEF KernelPath
  <2> QED BY <2>1, <2>2, RecyclerIInv DEF Next
<1> QED BY <1>1, InitIInv, PTL DEF Spec

(* Every variable keeps its type: no counter, tree or current task ever    *)
(* gets a value of another kind.                                           *)
THEOREM TypeCorrect == Spec => []TypeOK
<1>1. IInv => TypeOK
  BY DEF IInv
<1> QED BY <1>1, Inductive, PTL

(* recycTskState does what it is for: no processor spins with interrupts   *)
(* off for the lock its own preempted recycler holds.                      *)
THEOREM RecyclerNeverBlocksItself == Spec => []NoSpinOnOwnRecycler
<1>1. IInv => NoSpinOnOwnRecycler
  BY DEF IInv, RecyclerInv, Announced, NoSpinOnOwnRecycler
<1> QED BY <1>1, Inductive, PTL

(* Task_Flag_InKillTree does what it is for: a task structure is freed     *)
(* under a processor only in the last steps of Task_schedule.              *)
THEOREM FreedLate == Spec => []FreedOnlyWhenLeaving
<1>1. IInv => FreedOnlyWhenLeaving
  BY SchedulerAssumption DEF IInv, TypeOK, BuriedInv, FreedOnlyWhenLeaving
<1> QED BY <1>1, Inductive, PTL

(* The recycler never frees the stack its own processor stands on.         *)
THEOREM OwnStackSafe == Spec => []RecyclerCpuStackOwned
<1>1. IInv => RecyclerCpuStackOwned
  BY DEF IInv
<1> QED BY <1>1, Inductive, PTL

(* No step brings a buried task back to a processor, takes it out of the    *)
(* killed tree except for the recycler, or revives a freed one.             *)
THEOREM BurialIsFinal == Spec => BuriedNeverReturns
<1>1. IInv /\ [Next]_vars =>
        [\A t \in Tasks :
           /\ t \in killedTree =>
                /\ \A c \in Cpus : current'[c] = t => current[c] = t
                /\ t \in killedTree' \/ rMost = t
           /\ life[t] = "freed" => life'[t] = "freed"]_vars
  <2> SUFFICES ASSUME IInv, Next, NEW t \in Tasks
               PROVE  /\ t \in killedTree =>
                           /\ \A c \in Cpus : current'[c] = t => current[c] = t
                           /\ t \in killedTree' \/ rMost = t
                      /\ life[t] = "freed" => life'[t] = "freed"
    OBVIOUS
  <2> USE SchedulerAssumption DEF IInv, TypeOK, Goto, cpuVars, killVars, recVars
  <2>1. ASSUME NEW c \in Cpus,
               \/ \E u \in Tasks : CreateIns(c, u)
               \/ CreateInc(c) \/ Exit(c) \/ Requeue(c) \/ Bury(c)
        PROVE  /\ killedTree' = killedTree /\ current' = current
               /\ life[t] = "freed" => life'[t] = "freed"
    BY <2>1 DEF CreateIns, CreateInc, Exit, Requeue, Bury
  <2>2. ASSUME NEW c \in Cpus,
               \/ KillIns(c) \/ KillNum(c) \/ KillFlag(c) \/ KillDec(c)
               \/ \E u \in Tasks : Pick(c, u)
        PROVE  killedTree \subseteq killedTree' /\ current' = current /\ life' = life
    BY <2>2 DEF KillIns, KillNum, KillFlag, KillDec, Pick
  <2>3. ASSUME NEW c \in Cpus, Switch(c), t \in killedTree
        PROVE  /\ killedTree' = killedTree /\ life' = life
               /\ \A d \in Cpus : current'[d] = t => current[d] = t
    BY <2>3 DEF Switch, BuriedInv, Buried
  <2>4. ASSUME RecyclerStep
        PROVE  /\ current' = current
               /\ t \in killedTree => t \in killedTree' \/ rMost = t
               /\ life[t] = "freed" => life'[t] = "freed"
    BY <2>4 DEF RecyclerStep, RGoto, RecAnnounce, RecLookup, RecGetMax, RecBackOff, RecLock,
                RecDel, RecNum, RecRetire, RecFree
  <2>5. ASSUME NEW c \in Cpus, Switch(c)
        PROVE  life' = life
    BY <2>5 DEF Switch
  <2> QED BY <2>1, <2>2, <2>3, <2>4, <2>5 DEF Next, KernelPath
<1> QED BY <1>1, Inductive, PTL DEF Spec, BuriedNeverReturns

-----------------------------------------------------------------------------
(* Where a task is.  It runs, waits or is chosen on its own processor only. *)

Alive(t)  == life[t] \in {"live", "killed"}
Runs(t)   == current[Home[t]] = t /\ pc[Home[t]] \in {"task", "createInc", "killIns"}
Waits(t)  == t \in tree[Home[t]]
Chosen(t) == pc[Home[t]] = "switch" /\ target[Home[t]] = t
Dead(t)   == t \in killedTree
Held(t)   == rpc \in {"decNum", "retire", "free"} /\ rMost = t

(* A living task is in a place and in no other, and one that is not born or *)
(* is freed is nowhere; what the recycler has found stays in the tree until *)
(* it takes it out.                                                         *)
PlaceInv ==
  /\ \A t \in Tasks :
       /\ Alive(t) <=> Runs(t) \/ Waits(t) \/ Chosen(t) \/ Dead(t) \/ Held(t)
       /\ Runs(t) => ~Waits(t) /\ ~Chosen(t) /\ ~Dead(t) /\ ~Held(t)
       /\ Waits(t) => ~Chosen(t) /\ ~Dead(t) /\ ~Held(t)
       /\ Chosen(t) => ~Dead(t) /\ ~Held(t)
       /\ Dead(t) => ~Held(t)
  /\ rpc \in {"checkFlag", "delNode"} => rMost \in killedTree

(* At first the init tasks run and task0 waits.                             *)
LEMMA InitPlace == Init => PlaceInv
<1> SUFFICES ASSUME Init, NEW t \in Tasks
             PROVE  /\ Alive(t) <=> Runs(t) \/ Waits(t) \/ Chosen(t) \/ Dead(t) \/ Held(t)
                    /\ ~Chosen(t) /\ ~Dead(t) /\ ~Held(t) /\ ~(Runs(t) /\ Waits(t))
  BY DEF PlaceInv, Init
<1> USE SchedulerAssumption DEF Init
<1>1. ~Chosen(t) /\ ~Dead(t) /\ ~Held(t)
  BY DEF Chosen, Dead, Held
<1>2. Runs(t) <=> t \in IdleTasks
  BY DEF Runs, IdleTasks
<1>3. Waits(t) <=> t = Task0
  BY DEF Waits
<1>4. Alive(t) <=> t \in IdleTasks \cup {Task0}
  BY DEF Alive
<1>5. Task0 \notin IdleTasks
  BY DEF IdleTasks
<1> QED BY <1>1, <1>2, <1>3, <1>4, <1>5

(* Task_createTask, Task_exit, and the first steps of Task_schedule.        *)
LEMMA TaskPlace ==
  ASSUME IInv, PlaceInv, NEW c \in Cpus,
         \/ \E t \in Tasks : CreateIns(c, t)
         \/ CreateInc(c) \/ Exit(c) \/ Requeue(c) \/ Bury(c)
  PROVE  PlaceInv'
<1> USE SchedulerAssumption DEF IInv, TypeOK, Goto, killVars, recVars, cpuVars
<1> USE DEF PlaceInv, Alive, Runs, Waits, Chosen, Dead, Held
<1>1. ASSUME NEW t \in Tasks, CreateIns(c, t) PROVE PlaceInv'
  BY <1>1 DEF CreateIns
<1>2. CASE CreateInc(c)
  BY <1>2 DEF CreateInc
<1>3. CASE Exit(c)
  BY <1>3 DEF Exit
<1>4. CASE Requeue(c)
  BY <1>4 DEF Requeue, HomeInv
<1>5. CASE Bury(c)
  BY <1>5 DEF Bury
<1> QED BY <1>1, <1>2, <1>3, <1>4, <1>5

(* The burial of the current task and the switch away from it.              *)
LEMMA SwitchPlace ==
  ASSUME IInv, PlaceInv, NEW c \in Cpus,
         \/ KillIns(c) \/ KillNum(c) \/ KillFlag(c) \/ KillDec(c)
         \/ (\E t \in Tasks : Pick(c, t)) \/ Switch(c)
  PROVE  PlaceInv'
<1> USE SchedulerAssumption DEF IInv, TypeOK, Goto, killVars, recVars, cpuVars
<1> USE DEF PlaceInv, Alive, Runs, Waits, Chosen, Dead, Held
<1>1. CASE KillIns(c)
  BY <1>1 DEF KillIns, HomeInv
<1>2. CASE KillNum(c) \/ KillFlag(c) \/ KillDec(c)
  BY <1>2 DEF KillNum, KillFlag, KillDec
<1>3. ASSUME NEW t \in Tasks, Pick(c, t) PROVE PlaceInv'
  BY <1>3 DEF Pick, HomeInv
<1>4. CASE Switch(c)
  BY <1>4 DEF Switch, HomeInv
<1> QED BY <1>1, <1>2, <1>3, <1>4

(* The recycler takes a task from the killed tree and, at last, frees it.   *)
LEMMA RecyclerPlace ==
  ASSUME IInv, PlaceInv, RecyclerStep
  PROVE  PlaceInv'
<1> USE SchedulerAssumption DEF IInv, TypeOK, RGoto, RecyclerRuns, cpuVars, killVars
<1>1. UNCHANGED cpuVars
  BY DEF RecyclerStep, RecAnnounce, RecLookup, RecGetMax, RecBackOff, RecLock, RecDel,
         RecNum, RecRetire, RecFree
<1> USE DEF PlaceInv, Alive, Runs, Waits, Chosen, Dead, Held
<1>2. CASE RecAnnounce \/ RecLookup \/ RecGetMax \/ RecBackOff \/ RecLock
  BY <1>1, <1>2 DEF RecAnnounce, RecLookup, RecGetMax, RecBackOff, RecLock
<1>3. CASE RecDel
  BY <1>1, <1>3 DEF RecDel
<1>4. CASE RecNum \/ RecRetire
  BY <1>1, <1>4 DEF RecNum, RecRetire
<1>5. CASE RecFree
  BY <1>1, <1>5 DEF RecFree
<1> QED BY <1>2, <1>3, <1>4, <1>5 DEF RecyclerStep

(* Every reachable state has each living task in one place: what            *)
(* Task_createTask, Task_schedule, Task_switch and the recycler move they   *)
(* take from one and put into another.                                      *)
THEOREM InductivePlace == Spec => []PlaceInv
<1>1. IInv /\ PlaceInv /\ [Next]_vars => PlaceInv'
  <2> SUFFICES ASSUME IInv, PlaceInv, [Next]_vars PROVE PlaceInv'
    OBVIOUS
  <2>1. CASE UNCHANGED vars
    BY <2>1 DEF vars, cpuVars, killVars, recVars, PlaceInv, Alive, Runs, Waits, Chosen, Dead, Held
  <2>2. CASE Next
    BY <2>2, TaskPlace, SwitchPlace, RecyclerPlace DEF Next, KernelPath
  <2> QED BY <2>1, <2>2
<1> QED BY <1>1, InitPlace, Inductive, PTL DEF Spec

(* OnePlace for any tasks and processors: a task is in exactly one place    *)
(* from its creation to the release of its stack.                           *)
THEOREM NeverLostNorTwice == Spec => []OnePlace
<1>1. IInv /\ PlaceInv => OnePlace
  <2> SUFFICES ASSUME IInv, PlaceInv, NEW t \in Tasks
               PROVE  Cardinality(Places(t)) = IF Alive(t) THEN 1 ELSE 0
    BY DEF OnePlace, Alive
  <2> DEFINE runs == {<<"runs", c>> : c \in {d \in Cpus : current[d] = t
                                       /\ pc[d] \in {"task", "createInc", "killIns"}}}
             waits == {<<"waits", c>> : c \in {d \in Cpus : t \in tree[d]}}
             chosen == {<<"chosen", c>> : c \in {d \in CpusAt("switch") : target[d] = t}}
             buried == {<<"buried", x>> : x \in {t} \cap killedTree}
             recycled == {<<"recycled", x>> : x \in IF rpc \in {"decNum", "retire", "free"}
                                                       THEN {t} \cap {rMost} ELSE {}}
  <2>1. Home[t] \in Cpus
    BY SchedulerAssumption
  <2>2. runs = IF Runs(t) THEN {<<"runs", Home[t]>>} ELSE {}
    BY <2>1 DEF Runs, IInv, HomeInv
  <2>3. waits = IF Waits(t) THEN {<<"waits", Home[t]>>} ELSE {}
    BY <2>1 DEF Waits, IInv, HomeInv
  <2>4. chosen = IF Chosen(t) THEN {<<"chosen", Home[t]>>} ELSE {}
    BY <2>1 DEF Chosen, CpusAt, IInv, HomeInv
  <2>5. buried = IF Dead(t) THEN {<<"buried", t>>} ELSE {}
    BY DEF Dead
  <2>6. recycled = IF Held(t) THEN {<<"recycled", t>>} ELSE {}
    BY DEF Held
  <2>7. Places(t) = runs \cup waits \cup chosen \cup buried \cup recycled
    BY DEF Places
  <2> HIDE DEF runs, waits, chosen, buried, recycled
  <2>8. /\ Alive(t) <=> Runs(t) \/ Waits(t) \/ Chosen(t) \/ Dead(t) \/ Held(t)
        /\ Runs(t) => ~Waits(t) /\ ~Chosen(t) /\ ~Dead(t) /\ ~Held(t)
        /\ Waits(t) => ~Chosen(t) /\ ~Dead(t) /\ ~Held(t)
        /\ Chosen(t) => ~Dead(t) /\ ~Held(t)
        /\ Dead(t) => ~Held(t)
    BY DEF PlaceInv
  <2>9. CASE ~Alive(t)
    <3>1. Places(t) = {}
      BY <2>2, <2>3, <2>4, <2>5, <2>6, <2>7, <2>8, <2>9
    <3> QED BY <2>9, <3>1, FS_EmptySet
  <2>10. CASE Alive(t)
    <3>1. \E x : Places(t) = {x}
      <4>1. CASE Runs(t)
        <5>1. Places(t) = {<<"runs", Home[t]>>}
          BY <2>2, <2>3, <2>4, <2>5, <2>6, <2>7, <2>8, <4>1
        <5> QED BY <5>1, Zenon
      <4>2. CASE Waits(t)
        <5>1. Places(t) = {<<"waits", Home[t]>>}
          BY <2>2, <2>3, <2>4, <2>5, <2>6, <2>7, <2>8, <4>2
        <5> QED BY <5>1, Zenon
      <4>3. CASE Chosen(t)
        <5>1. Places(t) = {<<"chosen", Home[t]>>}
          BY <2>2, <2>3, <2>4, <2>5, <2>6, <2>7, <2>8, <4>3
        <5> QED BY <5>1, Zenon
      <4>4. CASE Dead(t)
        <5>1. Places(t) = {<<"buried", t>>}
          BY <2>2, <2>3, <2>4, <2>5, <2>6, <2>7, <2>8, <4>4
        <5> QED BY <5>1, Zenon
      <4>5. CASE Held(t)
        <5>1. Places(t) = {<<"recycled", t>>}
          BY <2>2, <2>3, <2>4, <2>5, <2>6, <2>7, <2>8, <4>5
        <5> QED BY <5>1, Zenon
      <4> QED BY <2>8, <2>10, <4>1, <4>2, <4>3, <4>4, <4>5
    <3> QED BY <2>10, <3>1, FS_Singleton
  <2> QED BY <2>9, <2>10
<1> QED BY <1>1, Inductive, InductivePlace, PTL

-----------------------------------------------------------------------------
(* What the counters count.                                                 *)

Counted(c) ==
  {t \in Tasks : Home[t] = c /\ t \notin inKillTree /\ life[t] \in {"live", "killed"}}
Due(c)     == {d \in CpusAt("createInc") : Home[target[d]] = c}
One(b)     == IF b THEN 1 ELSE 0

TaskNumInv ==
  \A c \in Cpus :
    /\ IsFiniteSet(Counted(c))
    /\ taskNum[c] = Cardinality(Counted(c)) + One(pc[c] = "killDec") - Cardinality(Due(c))

KilledNumInv ==
  /\ IsFiniteSet(killedTree)
  /\ killedTaskNum = Cardinality(killedTree) - Cardinality(CpusAt("killNum"))
                     + One(rpc = "decNum")
  /\ \A c \in Cpus : pc[c] \in {"killNum", "killFlag"} => current[c] \in killedTree

(* The sets of processors are finite, and so have a size.                   *)
LEMMA CpuSets ==
  /\ \A l : IsFiniteSet(CpusAt(l)) /\ Cardinality(CpusAt(l)) \in Nat
  /\ \A c : IsFiniteSet(Due(c)) /\ Cardinality(Due(c)) \in Nat
<1>1. \A S \in SUBSET Cpus : IsFiniteSet(S) /\ Cardinality(S) \in Nat
  BY SchedulerAssumption, FS_Subset, FS_CardinalityType
<1> QED BY <1>1 DEF CpusAt, Due

(* At first a processor has its init task, and one of them task0 as well.   *)
LEMMA InitCounts == Init => TaskNumInv /\ KilledNumInv
<1> SUFFICES ASSUME Init PROVE TaskNumInv /\ KilledNumInv
  OBVIOUS
<1> USE SchedulerAssumption DEF Init
<1>1. TaskNumInv
  <2> SUFFICES ASSUME NEW c \in Cpus
               PROVE  /\ IsFiniteSet(Counted(c)) /\ Cardinality(Due(c)) = 0
                      /\ taskNum[c] = Cardinality(Counted(c)) /\ Cardinality(Counted(c)) \in Nat
    BY DEF TaskNumInv, One
  <2>1. Cardinality(Due(c)) = 0
    <3>1. CpusAt("createInc") = {}
      BY DEF CpusAt
    <3>2. Due(c) = {}
      BY <3>1 DEF Due
    <3> QED BY <3>2, FS_EmptySet, Zenon
  <2>2. \A t \in Tasks : t \in Counted(c) <=> t = Idle[c] \/ (t = Task0 /\ c = Home[Task0])
    BY DEF Counted, IdleTasks
  <2>3. Task0 # Idle[c] /\ Idle[c] \in Tasks /\ Task0 \in Tasks /\ Counted(c) \subseteq Tasks
    BY DEF Counted
  <2>4. taskNum[c] = IF c = Home[Task0] THEN 2 ELSE 1
    OBVIOUS
  <2> HIDE SchedulerAssumption DEF Init
  <2>5. IsFiniteSet({Idle[c]}) /\ Cardinality({Idle[c]}) = 1
    BY FS_Singleton
  <2>6. CASE c = Home[Task0]
    <3>1. Counted(c) = {Idle[c]} \cup {Task0}
      BY <2>2, <2>3, <2>6
    <3>2. /\ IsFiniteSet({Idle[c]} \cup {Task0})
          /\ Cardinality({Idle[c]} \cup {Task0}) =
               IF Task0 \in {Idle[c]} THEN Cardinality({Idle[c]}) ELSE Cardinality({Idle[c]}) + 1
      BY <2>5, FS_AddElement, Zenon
    <3>3. Task0 \notin {Idle[c]}
      BY <2>3
    <3>4. IsFiniteSet(Counted(c)) /\ Cardinality(Counted(c)) = Cardinality({Idle[c]}) + 1
      BY <3>1, <3>2, <3>3, Zenon
    <3> QED BY <2>1, <2>4, <2>5, <2>6, <3>4
  <2>7. CASE c # Home[Task0]
    <3>1. Counted(c) = {Idle[c]}
      BY <2>2, <2>3, <2>7
    <3>2. IsFiniteSet(Counted(c)) /\ Cardinality(Counted(c)) = 1
      BY <2>5, <3>1, Zenon
    <3> QED BY <2>1, <2>4, <2>7, <3>2
  <2> QED BY <2>6, <2>7
<1>2. KilledNumInv
  <2>1. CpusAt("killNum") = {}
    BY DEF CpusAt
  <2>2. IsFiniteSet({}) /\ Cardinality({}) = 0
    BY FS_EmptySet, Zenon
  <2>3. Cardinality(CpusAt("killNum")) = 0 /\ IsFiniteSet(killedTree) /\ Cardinality(killedTree) = 0
    BY <2>1, <2>2
  <2> QED BY <2>3 DEF KilledNumInv, One
<1> QED BY <1>1, <1>2

(* A step that changes neither what is counted nor the counter.             *)
LEMMA TaskNumKept ==
  ASSUME TaskNumInv, UNCHANGED taskNum,
         \A c \in Cpus : /\ Counted(c)' = Counted(c) /\ Due(c)' = Due(c)
                         /\ pc'[c] = "killDec" <=> pc[c] = "killDec"
  PROVE  TaskNumInv'
<1> SUFFICES ASSUME NEW c \in Cpus
             PROVE  /\ IsFiniteSet(Counted(c)')
                    /\ taskNum'[c] = Cardinality(Counted(c)') + One(pc'[c] = "killDec")
                                     - Cardinality(Due(c)')
  BY Zenon DEF TaskNumInv, One
<1> QED BY DEF TaskNumInv, One

(* Task_createTask: the new task counts before the counter knows of it.     *)
LEMMA CreateCounts ==
  ASSUME IInv, TaskNumInv, NEW c \in Cpus,
         CreateInc(c) \/ \E t \in Tasks : CreateIns(c, t)
  PROVE  TaskNumInv'
<1> USE SchedulerAssumption DEF Goto
<1>1. ASSUME NEW t \in Tasks, CreateIns(c, t)
      PROVE  TaskNumInv'
  <2> USE <1>1
  <2>1. /\ life' = [life EXCEPT ![t] = "live"] /\ life[t] = "unborn"
        /\ pc[c] = "task" /\ pc' = [pc EXCEPT ![c] = "createInc"]
        /\ target' = [target EXCEPT ![c] = t]
        /\ UNCHANGED <<taskNum, inKillTree>>
    BY DEF CreateIns, killVars
  <2>2. t \notin inKillTree
    BY <2>1 DEF IInv, BuriedInv, Buried
  <2>3. \A e \in Cpus :
          /\ Counted(e)' = IF e = Home[t] THEN Counted(e) \cup {t} ELSE Counted(e)
          /\ t \notin Counted(e)
    BY <2>1, <2>2 DEF Counted, IInv, TypeOK
  <2>4. \A e \in Cpus :
          /\ Due(e)' = IF e = Home[t] THEN Due(e) \cup {c} ELSE Due(e)
          /\ c \notin Due(e)
    BY <2>1 DEF Due, CpusAt, IInv, TypeOK
  <2>5. \A e \in Cpus : pc'[e] = "killDec" <=> pc[e] = "killDec"
    BY <2>1 DEF IInv, TypeOK
  <2> SUFFICES ASSUME NEW e \in Cpus
               PROVE  /\ IsFiniteSet(Counted(e)')
                      /\ taskNum'[e] = Cardinality(Counted(e)') + One(pc'[e] = "killDec")
                                       - Cardinality(Due(e)')
    BY Zenon DEF TaskNumInv, One
  <2>6. /\ IsFiniteSet(Counted(e)) /\ Cardinality(Counted(e)) \in Nat
        /\ taskNum[e] = Cardinality(Counted(e)) + One(pc[e] = "killDec") - Cardinality(Due(e))
    BY FS_CardinalityType DEF TaskNumInv
  <2>7. IsFiniteSet(Due(e)) /\ Cardinality(Due(e)) \in Nat
    BY CpuSets
  <2>8. /\ IsFiniteSet(Counted(e) \cup {t})
        /\ Cardinality(Counted(e) \cup {t}) = Cardinality(Counted(e)) + 1
        /\ Cardinality(Due(e) \cup {c}) = Cardinality(Due(e)) + 1
    BY <2>3, <2>4, <2>6, <2>7, FS_AddElement, Zenon
  <2> HIDE <1>1
  <2>9. CASE e = Home[t]
    <3>1. Counted(e)' = Counted(e) \cup {t} /\ Due(e)' = Due(e) \cup {c}
      BY <2>3, <2>4, <2>9
    <3> QED BY <2>1, <2>5, <2>6, <2>7, <2>8, <3>1 DEF One
  <2>10. CASE e # Home[t]
    <3>1. Counted(e)' = Counted(e) /\ Due(e)' = Due(e)
      BY <2>3, <2>4, <2>10
    <3> QED BY <2>1, <2>5, <2>6, <3>1 DEF One
  <2> QED BY <2>9, <2>10
<1>2. CASE CreateInc(c)
  <2> DEFINE h == Home[target[c]]
  <2>1. /\ pc[c] = "createInc" /\ pc' = [pc EXCEPT ![c] = "task"]
        /\ taskNum' = [taskNum EXCEPT ![h] = @ + 1]
        /\ target' = [target EXCEPT ![c] = None]
        /\ UNCHANGED <<life, inKillTree>>
    BY <1>2 DEF CreateInc, killVars
  <2>2. h \in Cpus
    BY <2>1 DEF IInv, HomeInv
  <2>3. \A e \in Cpus : Counted(e)' = Counted(e)
    BY <2>1 DEF Counted
  <2>4. \A e \in Cpus :
          /\ Due(e)' = IF e = h THEN Due(e) \ {c} ELSE Due(e)
          /\ e = h => c \in Due(e)
    BY <2>1, <2>2 DEF Due, CpusAt, IInv, TypeOK
  <2>5. \A e \in Cpus : /\ pc'[e] = "killDec" <=> pc[e] = "killDec"
                        /\ taskNum'[e] = IF e = h THEN taskNum[e] + 1 ELSE taskNum[e]
    BY <2>1, <2>2 DEF IInv, TypeOK
  <2> HIDE DEF h
  <2> SUFFICES ASSUME NEW e \in Cpus
               PROVE  /\ IsFiniteSet(Counted(e)')
                      /\ taskNum'[e] = Cardinality(Counted(e)') + One(pc'[e] = "killDec")
                                       - Cardinality(Due(e)')
    BY Zenon DEF TaskNumInv, One
  <2>6. /\ IsFiniteSet(Counted(e)) /\ Cardinality(Counted(e)) \in Nat
        /\ taskNum[e] = Cardinality(Counted(e)) + One(pc[e] = "killDec") - Cardinality(Due(e))
    BY FS_CardinalityType DEF TaskNumInv
  <2>7. IsFiniteSet(Due(e)) /\ Cardinality(Due(e)) \in Nat
    BY CpuSets
  <2>8. CASE e = h
    <3>1. Cardinality(Due(e) \ {c}) = Cardinality(Due(e)) - 1
      BY <2>4, <2>7, <2>8, FS_RemoveElement, Zenon
    <3>2. Counted(e)' = Counted(e) /\ Due(e)' = Due(e) \ {c}
      BY <2>3, <2>4, <2>8
    <3> QED BY <2>5, <2>6, <2>7, <2>8, <3>1, <3>2 DEF One
  <2>9. CASE e # h
    <3>1. Counted(e)' = Counted(e) /\ Due(e)' = Due(e)
      BY <2>3, <2>4, <2>9
    <3> QED BY <2>5, <2>6, <2>9, <3>1 DEF One
  <2> QED BY <2>8, <2>9
<1> QED BY <1>1, <1>2

(* The burial of a task: it stops to count with its flag, and the counter   *)
(* follows.                                                                 *)
LEMMA BurialCounts ==
  ASSUME IInv, TaskNumInv, NEW c \in Cpus, KillFlag(c) \/ KillDec(c)
  PROVE  TaskNumInv'
<1> USE SchedulerAssumption DEF Goto
<1>1. CASE KillFlag(c)
  <2> DEFINE t == current[c]
  <2>1. /\ pc[c] = "killFlag" /\ pc' = [pc EXCEPT ![c] = "killDec"]
        /\ inKillTree' = inKillTree \cup {t}
        /\ UNCHANGED <<taskNum, target, life>>
    BY <1>1 DEF KillFlag
  <2>2. t \in Tasks /\ Home[t] = c /\ t \notin inKillTree /\ life[t] \in {"live", "killed"}
    BY <2>1 DEF IInv, TypeOK, HomeInv, RunInv, BuriedInv, KillPath
  <2>3. \A e \in Cpus :
          /\ Counted(e)' = IF e = c THEN Counted(e) \ {t} ELSE Counted(e)
          /\ e = c => t \in Counted(e)
    BY <2>1, <2>2 DEF Counted
  <2>4. \A e \in Cpus : Due(e)' = Due(e)
    BY <2>1 DEF Due, CpusAt, IInv, TypeOK
  <2>5. \A e \in Cpus : (pc'[e] = "killDec") <=> (pc[e] = "killDec" \/ e = c)
    BY <2>1 DEF IInv, TypeOK
  <2> HIDE DEF t
  <2> SUFFICES ASSUME NEW e \in Cpus
               PROVE  /\ IsFiniteSet(Counted(e)')
                      /\ taskNum'[e] = Cardinality(Counted(e)') + One(pc'[e] = "killDec")
                                       - Cardinality(Due(e)')
    BY Zenon DEF TaskNumInv, One
  <2>6. /\ IsFiniteSet(Counted(e)) /\ Cardinality(Counted(e)) \in Nat
        /\ taskNum[e] = Cardinality(Counted(e)) + One(pc[e] = "killDec") - Cardinality(Due(e))
    BY FS_CardinalityType DEF TaskNumInv
  <2>7. Cardinality(Due(e)) \in Nat /\ Due(e)' = Due(e)
    BY CpuSets, <2>4
  <2>8. CASE e = c
    <3>1. /\ IsFiniteSet(Counted(e) \ {t})
          /\ Cardinality(Counted(e) \ {t}) = Cardinality(Counted(e)) - 1
      BY <2>3, <2>6, <2>8, FS_RemoveElement, Zenon
    <3>2. Counted(e)' = Counted(e) \ {t} /\ pc[e] # "killDec" /\ pc'[e] = "killDec"
      BY <2>1, <2>3, <2>5, <2>8
    <3>3. taskNum'[e] = taskNum[e]
      BY <2>1
    <3> QED BY <2>6, <2>7, <3>1, <3>2, <3>3 DEF One
  <2>9. CASE e # c
    <3>1. Counted(e)' = Counted(e) /\ (pc'[e] = "killDec" <=> pc[e] = "killDec")
      BY <2>3, <2>5, <2>9
    <3>2. taskNum'[e] = taskNum[e]
      BY <2>1
    <3> QED BY <2>6, <2>7, <3>1, <3>2 DEF One
  <2> QED BY <2>8, <2>9
<1>2. CASE KillDec(c)
  <2>1. /\ pc[c] = "killDec" /\ pc' = [pc EXCEPT ![c] = "pick"]
        /\ taskNum' = [taskNum EXCEPT ![c] = @ - 1]
        /\ UNCHANGED <<target, life, inKillTree>>
    BY <1>2 DEF KillDec, killVars
  <2>2. \A e \in Cpus : Counted(e)' = Counted(e) /\ Due(e)' = Due(e)
    BY <2>1 DEF Counted, Due, CpusAt, IInv, TypeOK
  <2>3. \A e \in Cpus :
          /\ (pc'[e] = "killDec") <=> (pc[e] = "killDec" /\ e # c)
          /\ taskNum'[e] = IF e = c THEN taskNum[e] - 1 ELSE taskNum[e]
    BY <2>1 DEF IInv, TypeOK
  <2> SUFFICES ASSUME NEW e \in Cpus
               PROVE  /\ IsFiniteSet(Counted(e)')
                      /\ taskNum'[e] = Cardinality(Counted(e)') + One(pc'[e] = "killDec")
                                       - Cardinality(Due(e)')
    BY Zenon DEF TaskNumInv, One
  <2>4. /\ IsFiniteSet(Counted(e)) /\ Cardinality(Counted(e)) \in Nat
        /\ taskNum[e] = Cardinality(Counted(e)) + One(pc[e] = "killDec") - Cardinality(Due(e))
        /\ Cardinality(Due(e)) \in Nat
    BY FS_CardinalityType, CpuSets DEF TaskNumInv
  <2> QED BY <2>1, <2>2, <2>3, <2>4 DEF One
<1> QED BY <1>1, <1>2

(* Everything else leaves the tasks that count, and the counter, alone.     *)
LEMMA OtherCounts ==
  ASSUME IInv, TaskNumInv,
         \/ \E c \in Cpus : \/ Exit(c) \/ Requeue(c) \/ Bury(c) \/ KillIns(c) \/ KillNum(c)
                            \/ (\E t \in Tasks : Pick(c, t)) \/ Switch(c)
         \/ RecyclerStep
  PROVE  TaskNumInv'
<1> USE SchedulerAssumption
<1>1. CASE RecyclerStep
  <2>1. UNCHANGED <<taskNum, pc, target, inKillTree>>
    BY <1>1 DEF RecyclerStep, RecAnnounce, RecLookup, RecGetMax, RecBackOff, RecLock, RecDel,
                RecNum, RecRetire, RecFree, cpuVars, killVars
  <2>2. \A t \in Tasks \ inKillTree : life'[t] = life[t]
    <3>1. CASE RecFree
      BY <3>1 DEF RecFree, RGoto, IInv, TypeOK, BuriedInv
    <3>2. CASE ~RecFree
      BY <1>1, <3>2 DEF RecyclerStep, RecAnnounce, RecLookup, RecGetMax, RecBackOff, RecLock,
                        RecDel, RecNum, RecRetire
    <3> QED BY <3>1, <3>2
  <2>3. \A c \in Cpus : Counted(c)' = Counted(c) /\ Due(c)' = Due(c)
    BY <2>1, <2>2 DEF Counted, Due, CpusAt
  <2> QED BY <2>1, <2>3, TaskNumKept
<1>2. ASSUME NEW c \in Cpus,
             \/ Exit(c) \/ Requeue(c) \/ Bury(c) \/ KillIns(c) \/ KillNum(c)
             \/ (\E t \in Tasks : Pick(c, t)) \/ Switch(c)
      PROVE  TaskNumInv'
  <2>1. UNCHANGED <<taskNum, inKillTree>>
    BY <1>2 DEF Exit, Requeue, Bury, KillIns, KillNum, Pick, Switch, cpuVars, killVars
  <2>2. \A t \in Tasks : life'[t] \in {"live", "killed"} <=> life[t] \in {"live", "killed"}
    BY <1>2 DEF Exit, Requeue, Bury, KillIns, KillNum, Pick, Switch, IInv, TypeOK
  <2>3. \A d \in Cpus : /\ pc'[d] = "createInc" <=> pc[d] = "createInc"
                        /\ pc'[d] = "killDec" <=> pc[d] = "killDec"
                        /\ pc[d] = "createInc" => target'[d] = target[d]
    BY <1>2 DEF Exit, Requeue, Bury, KillIns, KillNum, Pick, Switch, Goto, cpuVars, IInv, TypeOK
  <2>4. \A d \in Cpus : Counted(d)' = Counted(d) /\ Due(d)' = Due(d)
    BY <2>1, <2>2, <2>3 DEF Counted, Due, CpusAt
  <2> QED BY <2>1, <2>3, <2>4, TaskNumKept
<1> QED BY <1>1, <1>2

(* A task that is being buried is in the killed tree until its flag is set, *)
(* and the counter follows the tree.                                        *)
LEMMA BuriedCounts ==
  ASSUME IInv, KilledNumInv, NEW c \in Cpus, KillIns(c) \/ KillNum(c)
  PROVE  KilledNumInv'
<1> DEFINE K == CpusAt("killNum")
<1>1. /\ IsFiniteSet(killedTree) /\ Cardinality(killedTree) \in Nat
      /\ IsFiniteSet(K) /\ Cardinality(K) \in Nat
  BY CpuSets, FS_CardinalityType DEF KilledNumInv
<1>2. CASE KillIns(c)
  <2>1. /\ pc[c] = "killIns" /\ pc' = [pc EXCEPT ![c] = "killNum"]
        /\ killedTree' = killedTree \cup {current[c]}
        /\ UNCHANGED <<current, killedTaskNum, rpc>>
    BY <1>2 DEF KillIns, Goto, recVars
  <2>2. current[c] \notin killedTree
    BY <2>1, SchedulerAssumption DEF IInv, BuriedInv, Buried
  <2>3. K' = K \cup {c} /\ c \notin K
    BY <2>1 DEF CpusAt, IInv, TypeOK
  <2>4. \A d \in Cpus : pc'[d] \in {"killNum", "killFlag"} => current'[d] \in killedTree'
    BY <2>1 DEF KilledNumInv, IInv, TypeOK
  <2> HIDE DEF K
  <2>5. /\ IsFiniteSet(killedTree')
        /\ Cardinality(killedTree') = Cardinality(killedTree) + 1
    BY <1>1, <2>1, <2>2, FS_AddElement, Zenon
  <2>6. Cardinality(K') = Cardinality(K) + 1
    BY <1>1, <2>3, FS_AddElement, Zenon
  <2>7. killedTaskNum' = Cardinality(killedTree') - Cardinality(K') + One(rpc' = "decNum")
    BY <1>1, <2>1, <2>5, <2>6 DEF KilledNumInv, K, One
  <2> QED BY <2>4, <2>5, <2>7 DEF KilledNumInv, K, One
<1>3. CASE KillNum(c)
  <2>1. /\ pc[c] = "killNum" /\ pc' = [pc EXCEPT ![c] = "killFlag"]
        /\ killedTaskNum' = killedTaskNum + 1
        /\ UNCHANGED <<current, killedTree, rpc>>
    BY <1>3 DEF KillNum, Goto, recVars
  <2>2. K' = K \ {c} /\ c \in K
    BY <2>1 DEF CpusAt, IInv, TypeOK
  <2>3. \A d \in Cpus : pc'[d] \in {"killNum", "killFlag"} => current'[d] \in killedTree'
    BY <2>1 DEF KilledNumInv, IInv, TypeOK
  <2> HIDE DEF K
  <2>4. Cardinality(K') = Cardinality(K) - 1
    BY <1>1, <2>2, FS_RemoveElement, Zenon
  <2>5. killedTaskNum' = Cardinality(killedTree') - Cardinality(K') + One(rpc' = "decNum")
    BY <1>1, <2>1, <2>4 DEF KilledNumInv, K, One
  <2> QED BY <1>1, <2>1, <2>3, <2>5 DEF KilledNumInv, K, One
<1> QED BY <1>2, <1>3

(* The recycler takes a task out of the tree before it counts it out; the   *)
(* flag keeps it away from one that is still being buried.                  *)
LEMMA RecycledCounts ==
  ASSUME IInv, PlaceInv, KilledNumInv, RecyclerStep
  PROVE  KilledNumInv'
<1> USE DEF RGoto, cpuVars, killVars
<1>1. UNCHANGED <<pc, current>> /\ CpusAt("killNum")' = CpusAt("killNum")
  BY DEF RecyclerStep, RecAnnounce, RecLookup, RecGetMax, RecBackOff, RecLock, RecDel,
         RecNum, RecRetire, RecFree, CpusAt
<1>2. Cardinality(CpusAt("killNum")) \in Nat /\ Cardinality(killedTree) \in Nat
  BY CpuSets, FS_CardinalityType DEF KilledNumInv
<1>3. CASE RecDel
  <2>1. /\ rpc = "delNode" /\ rpc' = "decNum" /\ UNCHANGED killedTaskNum
        /\ killedTree' = killedTree \ {rMost}
    BY <1>3 DEF RecDel
  <2>2. rMost \in killedTree /\ rMost \in inKillTree
    BY <2>1 DEF PlaceInv, IInv, BuriedInv
  <2>3. /\ IsFiniteSet(killedTree')
        /\ Cardinality(killedTree') = Cardinality(killedTree) - 1
    BY <2>1, <2>2, FS_RemoveElement, Zenon DEF KilledNumInv
  <2>4. \A c \in Cpus : pc[c] \in {"killNum", "killFlag"} => current[c] # rMost
    BY <2>2 DEF IInv, BuriedInv
  <2>5. \A c \in Cpus : pc'[c] \in {"killNum", "killFlag"} => current'[c] \in killedTree'
    BY <1>1, <2>1, <2>4 DEF KilledNumInv
  <2>6. killedTaskNum' = Cardinality(killedTree') - Cardinality(CpusAt("killNum"))
                         + One(rpc' = "decNum")
    BY <1>2, <2>1, <2>3 DEF KilledNumInv, One
  <2> QED BY <1>1, <2>3, <2>5, <2>6 DEF KilledNumInv, One
<1>4. CASE RecNum
  <2>1. /\ rpc = "decNum" /\ rpc' = "retire" /\ killedTaskNum' = killedTaskNum - 1
        /\ UNCHANGED killedTree
    BY <1>4 DEF RecNum
  <2> QED BY <1>1, <1>2, <2>1 DEF KilledNumInv, One
<1>5. CASE ~RecDel /\ ~RecNum
  <2>1. UNCHANGED <<killedTree, killedTaskNum>> /\ rpc # "decNum" /\ rpc' # "decNum"
    BY <1>5 DEF RecyclerStep, RecAnnounce, RecLookup, RecGetMax, RecBackOff, RecLock,
                RecRetire, RecFree
  <2> QED BY <1>1, <2>1 DEF KilledNumInv, One
<1> QED BY <1>3, <1>4, <1>5

(* Everything else leaves the killed tree and its counter alone.            *)
LEMMA OtherKilledCounts ==
  ASSUME IInv, KilledNumInv, NEW c \in Cpus,
         \/ \E t \in Tasks : CreateIns(c, t) \/ Pick(c, t)
         \/ CreateInc(c) \/ Exit(c) \/ Requeue(c) \/ Bury(c)
         \/ KillFlag(c) \/ KillDec(c) \/ Switch(c)
  PROVE  KilledNumInv'
<1>1. UNCHANGED <<killedTree, killedTaskNum, rpc>>
  BY DEF CreateIns, Pick, CreateInc, Exit, Requeue, Bury, KillFlag, KillDec, Switch,
         killVars, recVars
<1>2. \A d \in Cpus : /\ pc'[d] = "killNum" <=> pc[d] = "killNum"
                      /\ pc'[d] \in {"killNum", "killFlag"} => current'[d] = current[d]
                      /\ pc'[d] = "killFlag" => pc[d] = "killFlag"
  BY DEF CreateIns, Pick, CreateInc, Exit, Requeue, Bury, KillFlag, KillDec, Switch,
         Goto, cpuVars, IInv, TypeOK
<1>3. CpusAt("killNum")' = CpusAt("killNum")
  BY <1>2 DEF CpusAt
<1>4. \A d \in Cpus : pc'[d] \in {"killNum", "killFlag"} => current'[d] \in killedTree'
  BY <1>1, <1>2 DEF KilledNumInv
<1> QED BY <1>1, <1>3, <1>4 DEF KilledNumInv, One

(* The counts of both counters hold in every reachable state.               *)
THEOREM InductiveCounts == Spec => [](TaskNumInv /\ KilledNumInv)
<1>1. IInv /\ PlaceInv /\ (TaskNumInv /\ KilledNumInv) /\ [Next]_vars
        => (TaskNumInv /\ KilledNumInv)'
  <2> SUFFICES ASSUME IInv, PlaceInv, TaskNumInv, KilledNumInv, [Next]_vars
               PROVE  TaskNumInv' /\ KilledNumInv'
    OBVIOUS
  <2>1. CASE UNCHANGED vars
    BY <2>1 DEF vars, cpuVars, killVars, recVars, TaskNumInv, KilledNumInv, Counted, Due,
                CpusAt, One
  <2>2. CASE Next
    <3>1. TaskNumInv'
      BY <2>2, CreateCounts, BurialCounts, OtherCounts DEF Next, KernelPath
    <3>2. KilledNumInv'
      BY <2>2, BuriedCounts, RecycledCounts, OtherKilledCounts DEF Next, KernelPath
    <3> QED BY <3>1, <3>2
  <2> QED BY <2>1, <2>2
<1> QED BY <1>1, InitCounts, Inductive, InductivePlace, PTL DEF Spec

(* CountersExact for any tasks and processors: taskNum of a processor and   *)
(* killedTaskNum are what they count, up to the updates already due, and    *)
(* the recycler never finds the latter below zero.                          *)
THEOREM CountersNeverDrift == Spec => []CountersExact
<1>1. IInv /\ TaskNumInv /\ KilledNumInv => CountersExact
  <2> SUFFICES ASSUME IInv, TaskNumInv, KilledNumInv PROVE TaskNumExact /\ KilledNumExact
    BY DEF CountersExact
  <2>1. TaskNumExact
    <3> SUFFICES ASSUME NEW c \in Cpus
                 PROVE  taskNum[c] = Cardinality(Counted(c)) + Cardinality(CpusAt("killDec") \cap {c})
                                     - Cardinality(Due(c))
      BY Zenon DEF TaskNumExact, Counted, Due
    <3>1. Cardinality(CpusAt("killDec") \cap {c}) = One(pc[c] = "killDec")
      <4>1. CASE pc[c] = "killDec"
        <5>1. CpusAt("killDec") \cap {c} = {c}
          BY <4>1 DEF CpusAt
        <5> QED BY <4>1, <5>1, FS_Singleton DEF One
      <4>2. CASE pc[c] # "killDec"
        <5>1. CpusAt("killDec") \cap {c} = {}
          BY <4>2 DEF CpusAt
        <5> QED BY <4>2, <5>1, FS_EmptySet DEF One
      <4> QED BY <4>1, <4>2
    <3> QED BY <3>1 DEF TaskNumInv
  <2>2. KilledNumExact
    <3> DEFINE K == CpusAt("killNum")
    <3>1. /\ IsFiniteSet(killedTree) /\ Cardinality(killedTree) \in Nat
          /\ IsFiniteSet(K) /\ Cardinality(K) \in Nat
      BY CpuSets, FS_CardinalityType DEF KilledNumInv
    <3>2. Cardinality(K) <= Cardinality(killedTree)
      <4> DEFINE f == [c \in K |-> current[c]]
      <4>1. f \in Injection(K, killedTree)
        <5>1. \A c \in K : c \in Cpus /\ current[c] \in killedTree /\ Home[current[c]] = c
          BY DEF CpusAt, KilledNumInv, IInv, HomeInv
        <5> HIDE DEF K
        <5>2. f \in [K -> killedTree]
          BY <5>1
        <5>3. \A a, b \in K : f[a] = f[b] => a = b
          BY <5>1
        <5> HIDE DEF f
        <5> QED BY <5>2, <5>3 DEF Injection, IsInjective
      <4> HIDE DEF f, K
      <4> QED BY <3>1, <4>1, FS_Injection
    <3> QED BY <3>1, <3>2 DEF KilledNumInv, KilledNumExact, One
  <2> QED BY <2>1, <2>2
<1> QED BY <1>1, Inductive, InductiveCounts, PTL
==============================================================================
