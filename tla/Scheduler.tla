------------------------------ MODULE Scheduler ------------------------------
(***************************************************************************)
(* The task manager of kernel/task/mgr.c on several processors: creation,  *)
(* preemption, exit and recycling of tasks.                                *)
(*                                                                         *)
(* A processor runs task code with interrupts enabled (pc "task") or one   *)
(* of the interrupt-disabled paths of the kernel: the tail of              *)
(* Task_schedule (pc "kill*", "pick", "switch") and the tail of            *)
(* Task_createTask ("createInc").  The recycler is an ordinary task, so    *)
(* its steps happen only while it is current and may be preempted between  *)
(* any two of them, the killed tree's lock held or not.                    *)
(*                                                                         *)
(* Virtual run time is abstracted: the leftmost node is any member of the  *)
(* run queue (module CFS gives the ordering and its fairness).  Signals    *)
(* reach this module as Exit: a pending signal makes Task_schedule run a   *)
(* handler that either returns or exits.                                   *)
(***************************************************************************)
EXTENDS Integers, FiniteSets

CONSTANTS Cpus,      \* processors (SMP_cpuNum of them)
          Tasks,     \* task structures, one per pid ever handed out
          Home,      \* Task_createTask: cpuId = pid % SMP_cpuNum
          Idle,      \* the init task of each processor (Task_buildInitTask)
          Recycler,  \* the task that runs Task_recycleThread
          Task0,     \* the first task of Task_init, queued before scheduling
          None

ASSUME SchedulerAssumption ==
  /\ IsFiniteSet(Cpus)
  /\ Home \in [Tasks -> Cpus]
  /\ Idle \in [Cpus -> Tasks]
  /\ \A c \in Cpus : Home[Idle[c]] = c
  /\ Recycler \in Tasks /\ Task0 \in Tasks /\ Recycler # Task0
  /\ \A c \in Cpus : Idle[c] \notin {Recycler, Task0}
  /\ None \notin Tasks

VARIABLES
  current,        \* Task_current of each processor: the stack it runs on
  pc,             \* where each processor is
  target,         \* the task being created, or `leftMost' about to be switched to
  tree,           \* Task_cfsStruct.tree
  taskNum,        \* Task_cfsStruct.taskNum
  life,           \* unborn, live, killed (Task_Priority_Killed) or freed
  killedTree,     \* Task_cfsStruct.killedTree
  treeLock,       \* killedTree.lock: 1 while the recycler holds it
  killedTaskNum,  \* Task_cfsStruct.killedTaskNum
  recycTskState,  \* Task_cfsStruct.recycTskState
  inKillTree,     \* tasks with Task_Flag_InKillTree
  rpc,            \* where the recycler is in its loop
  rMost           \* the recycler's tsk

cpuVars  == <<current, pc, target, tree, taskNum>>
killVars == <<killedTree, killedTaskNum, inKillTree>>
recVars  == <<treeLock, recycTskState, rpc, rMost>>
vars     == <<cpuVars, killVars, recVars, life>>

IdleTasks == {Idle[c] : c \in Cpus}

-----------------------------------------------------------------------------

(* Scheduling is switched on when each processor runs its init task and    *)
(* task0 waits in the run queue of its processor.                          *)
Init ==
  /\ current = Idle
  /\ pc = [c \in Cpus |-> "task"]
  /\ target = [c \in Cpus |-> None]
  /\ tree = [c \in Cpus |-> IF c = Home[Task0] THEN {Task0} ELSE {}]
  /\ taskNum = [c \in Cpus |-> IF c = Home[Task0] THEN 2 ELSE 1]
  /\ life = [t \in Tasks |-> IF t \in IdleTasks \cup {Task0} THEN "live" ELSE "unborn"]
  /\ killedTree = {} /\ killedTaskNum = 0 /\ inKillTree = {}
  /\ treeLock = 0 /\ recycTskState = 0
  /\ rpc = "idle" /\ rMost = None

Goto(c, from, to) == pc[c] = from /\ pc' = [pc EXCEPT ![c] = to]

-----------------------------------------------------------------------------
(* Faulty variants of the actions below: each is a slip the code could have *)
(* made, and the property named in PROJECT.json catches it.                 *)

(* ignores recycTskState                                                    *)
ToKilledTreeAlways(t) == life[t] = "killed"

(* lacks the `else' before the insertion into the run queue                 *)
BuryAndRequeue(c) ==
  /\ life[current[c]] = "killed" /\ recycTskState = 0
  /\ Goto(c, "task", "killIns")
  /\ tree' = [tree EXCEPT ![c] = @ \cup {current[c]}]
  /\ UNCHANGED <<current, target, taskNum, life, killVars, recVars>>

(* loses the node getMin found, or forgets RBTree_delNode                   *)
PickForgets(c, t) ==
  /\ t \in tree[c]
  /\ Goto(c, "pick", "switch")
  /\ tree' = [tree EXCEPT ![c] = @ \ {t}]
  /\ UNCHANGED <<current, target, taskNum, life, killVars, recVars>>

PickKeeps(c, t) ==
  /\ t \in tree[c]
  /\ Goto(c, "pick", "switch")
  /\ target' = [target EXCEPT ![c] = t]
  /\ UNCHANGED <<current, tree, taskNum, life, killVars, recVars>>

-----------------------------------------------------------------------------
(* Task_createTask, from IO_cli on: queue the new task, then count it.      *)

CreateIns(c, t) ==
  /\ current[c] \notin IdleTasks \cup {Recycler}
  /\ life[current[c]] = "live" /\ life[t] = "unborn"
  /\ Goto(c, "task", "createInc")
  /\ target' = [target EXCEPT ![c] = t]
  /\ tree' = [tree EXCEPT ![Home[t]] = @ \cup {t}]
  /\ life' = [life EXCEPT ![t] = "live"]
  /\ UNCHANGED <<current, taskNum, killVars, recVars>>

CreateInc(c) ==
  /\ Goto(c, "createInc", "task")
  /\ taskNum' = [taskNum EXCEPT ![Home[target[c]]] = @ + 1]
  /\ target' = [target EXCEPT ![c] = None]
  /\ UNCHANGED <<current, tree, life, killVars, recVars>>

-----------------------------------------------------------------------------
(* Task_exit: the task gives up its memory, marks itself killed and from    *)
(* then on only asks to be switched out.                                    *)

Exit(c) ==
  /\ pc[c] = "task"
  /\ current[c] \notin IdleTasks \cup {Recycler}
  /\ life[current[c]] = "live"
  /\ life' = [life EXCEPT ![current[c]] = "killed"]
  /\ UNCHANGED <<cpuVars, killVars, recVars>>

-----------------------------------------------------------------------------
(* Task_schedule at the end of an interrupt that left NeedSchedule set.     *)
(* A killed task goes to the killed tree only if the recycler is not at     *)
(* work on it; otherwise it is queued again like a live one.                *)

ToKilledTree(t) == life[t] = "killed" /\ recycTskState = 0

Requeue(c) ==
  /\ ~ToKilledTree(current[c])
  /\ Goto(c, "task", "pick")
  /\ tree' = [tree EXCEPT ![c] = @ \cup {current[c]}]
  /\ UNCHANGED <<current, target, taskNum, life, killVars, recVars>>

Bury(c) ==
  /\ ToKilledTree(current[c])
  /\ Goto(c, "task", "killIns")
  /\ UNCHANGED <<current, target, tree, taskNum, life, killVars, recVars>>

(* RBTree_insNode(&killedTree): spins, interrupts off, while the lock is held. *)
KillIns(c) ==
  /\ treeLock = 0
  /\ Goto(c, "killIns", "killNum")
  /\ killedTree' = killedTree \cup {current[c]}
  /\ UNCHANGED <<current, target, tree, taskNum, life, killedTaskNum, inKillTree, recVars>>

KillNum(c) ==
  /\ Goto(c, "killNum", "killFlag")
  /\ killedTaskNum' = killedTaskNum + 1
  /\ UNCHANGED <<current, target, tree, taskNum, life, killedTree, inKillTree, recVars>>

KillFlag(c) ==
  /\ Goto(c, "killFlag", "killDec")
  /\ inKillTree' = inKillTree \cup {current[c]}
  /\ UNCHANGED <<current, target, tree, taskNum, life, killedTree, killedTaskNum, recVars>>

KillDec(c) ==
  /\ Goto(c, "killDec", "pick")
  /\ taskNum' = [taskNum EXCEPT ![c] = @ - 1]
  /\ UNCHANGED <<current, target, tree, life, killVars, recVars>>

(* RBTree_getMin and RBTree_delNode on the run queue.                       *)
Pick(c, t) ==
  /\ t \in tree[c]
  /\ Goto(c, "pick", "switch")
  /\ target' = [target EXCEPT ![c] = t]
  /\ tree' = [tree EXCEPT ![c] = @ \ {t}]
  /\ UNCHANGED <<current, taskNum, life, killVars, recVars>>

(* Task_switch: only here does the processor leave the old task's stack.    *)
Switch(c) ==
  /\ Goto(c, "switch", "task")
  /\ current' = [current EXCEPT ![c] = target[c]]
  /\ target' = [target EXCEPT ![c] = None]
  /\ UNCHANGED <<tree, taskNum, life, killVars, recVars>>

-----------------------------------------------------------------------------
(* Task_recycleThread.                                                      *)

RecyclerRuns ==
  LET c == Home[Recycler] IN current[c] = Recycler /\ pc[c] = "task"

RGoto(from, to) == RecyclerRuns /\ rpc = from /\ rpc' = to

(* Faulty variants of the recycler's steps.                                 *)

(* does not count the removal, or does not withdraw the announcement         *)
RecNumDropped == RGoto("decNum", "retire") /\ UNCHANGED <<cpuVars, killVars, life, treeLock, recycTskState, rMost>>

RecRetireAnnounced == RGoto("retire", "free") /\ UNCHANGED <<cpuVars, killVars, life, treeLock, recycTskState, rMost>>

(* does not look at Task_Flag_InKillTree                                    *)
RecLockUnchecked ==
  /\ RGoto("checkFlag", "delNode")
  /\ treeLock = 0 /\ treeLock' = 1
  /\ UNCHANGED <<cpuVars, killVars, life, recycTskState, rMost>>

RecAnnounce ==
  /\ RGoto("idle", "getMax")
  /\ killedTaskNum # 0
  /\ recycTskState' = recycTskState + 1
  /\ UNCHANGED <<cpuVars, killVars, life, treeLock, rMost>>

(* RBTree_getMax tests the root before it takes the lock.                   *)
RecLookup ==
  /\ RecyclerRuns /\ rpc = "getMax"
  /\ IF killedTree = {}
       THEN /\ rpc' = "idle" /\ recycTskState' = recycTskState - 1
            /\ UNCHANGED treeLock
       ELSE /\ treeLock = 0 /\ treeLock' = 1
            /\ rpc' = "gotLock" /\ UNCHANGED recycTskState
  /\ UNCHANGED <<cpuVars, killVars, life, rMost>>

RecGetMax ==
  /\ RGoto("gotLock", "checkFlag")
  /\ rMost' \in killedTree
  /\ treeLock' = 0
  /\ UNCHANGED <<cpuVars, killVars, life, recycTskState>>

RecBackOff ==
  /\ RGoto("checkFlag", "idle")
  /\ rMost \notin inKillTree
  /\ recycTskState' = recycTskState - 1
  /\ rMost' = None
  /\ UNCHANGED <<cpuVars, killVars, life, treeLock>>

RecLock ==
  /\ RGoto("checkFlag", "delNode")
  /\ rMost \in inKillTree
  /\ treeLock = 0 /\ treeLock' = 1
  /\ UNCHANGED <<cpuVars, killVars, life, recycTskState, rMost>>

RecDel ==
  /\ RGoto("delNode", "decNum")
  /\ killedTree' = killedTree \ {rMost}
  /\ treeLock' = 0
  /\ UNCHANGED <<cpuVars, killedTaskNum, inKillTree, life, recycTskState, rMost>>

RecNum ==
  /\ RGoto("decNum", "retire")
  /\ killedTaskNum' = killedTaskNum - 1
  /\ UNCHANGED <<cpuVars, killedTree, inKillTree, life, treeLock, recycTskState, rMost>>

RecRetire ==
  /\ RGoto("retire", "free")
  /\ recycTskState' = recycTskState - 1
  /\ UNCHANGED <<cpuVars, killVars, life, treeLock, rMost>>

(* MM_Buddy_free(krlStkPage): the task structure and its stack are gone.    *)
RecFree ==
  /\ RGoto("free", "idle")
  /\ life' = [life EXCEPT ![rMost] = "freed"]
  /\ rMost' = None
  /\ UNCHANGED <<cpuVars, killVars, treeLock, recycTskState>>

RecyclerStep ==
  \/ RecAnnounce \/ RecLookup \/ RecGetMax \/ RecBackOff \/ RecLock
  \/ RecDel \/ RecNum \/ RecRetire \/ RecFree

-----------------------------------------------------------------------------

KernelPath(c) ==
  \/ CreateInc(c) \/ KillIns(c) \/ KillNum(c) \/ KillFlag(c) \/ KillDec(c)
  \/ \E t \in Tasks : Pick(c, t)
  \/ Switch(c)

Next ==
  \/ \E c \in Cpus :
       \/ \E t \in Tasks : CreateIns(c, t)
       \/ Exit(c) \/ Requeue(c) \/ Bury(c)
       \/ KernelPath(c)
  \/ RecyclerStep

(* Fairness.  A processor never stops inside an interrupt-disabled path;    *)
(* timer ticks exhaust every slice, so task code is always switched out in  *)
(* the end; a waiting task is eventually the leftmost (checked in CFS); and *)
(* the recycler, given the processor again and again, gets on with its loop *)
(* between two ticks.                                                       *)
Fairness ==
  /\ \A c \in Cpus : WF_vars(KernelPath(c)) /\ WF_vars(Requeue(c) \/ Bury(c))
  /\ \A t \in Tasks \ IdleTasks : SF_vars(Pick(Home[t], t))
  /\ SF_vars(RecyclerStep)

Spec     == Init /\ [][Next]_vars
FairSpec == Spec /\ Fairness

-----------------------------------------------------------------------------

KillPath == {"killIns", "killNum", "killFlag", "killDec"}

TypeOK ==
  /\ current \in [Cpus -> Tasks]
  /\ pc \in [Cpus -> {"task", "createInc", "pick", "switch"} \cup KillPath]
  /\ target \in [Cpus -> Tasks \cup {None}]
  /\ tree \in [Cpus -> SUBSET Tasks]
  /\ taskNum \in [Cpus -> Int]
  /\ life \in [Tasks -> {"unborn", "live", "killed", "freed"}]
  /\ killedTree \in SUBSET Tasks /\ inKillTree \in SUBSET Tasks
  /\ killedTaskNum \in Int /\ recycTskState \in Int
  /\ treeLock \in {0, 1}
  /\ rpc \in {"idle", "getMax", "gotLock", "checkFlag", "delNode", "decNum",
              "retire", "free"}
  /\ rMost \in Tasks \cup {None}

CpusAt(l) == {c \in Cpus : pc[c] = l}

(* What a task can be: run by a processor, waiting in a run queue, taken    *)
(* out of one to be switched to, in the killed tree, in the recycler's hand. *)
Places(t) ==
  {<<"runs", c>> : c \in {d \in Cpus : current[d] = t
                                       /\ pc[d] \in {"task", "createInc", "killIns"}}}
    \cup {<<"waits", c>> : c \in {d \in Cpus : t \in tree[d]}}
    \cup {<<"chosen", c>> : c \in {d \in CpusAt("switch") : target[d] = t}}
    \cup {<<"buried", x>> : x \in {t} \cap killedTree}
    \cup {<<"recycled", x>> : x \in IF rpc \in {"decNum", "retire", "free"}
                                      THEN {t} \cap {rMost} ELSE {}}

(* Every task is in exactly one place from its creation to the release of   *)
(* its stack, however creation, scheduling and recycling interleave: none   *)
(* is lost between the trees of Task_schedule, none is linked (by its only  *)
(* wNode) into two trees.                                                   *)
OnePlace ==
  \A t \in Tasks :
    Cardinality(Places(t)) = IF life[t] \in {"live", "killed"} THEN 1 ELSE 0

(* taskNum of a processor is the number of its tasks that are not in the    *)
(* killed tree, up to the increments and decrements already due: the value  *)
(* Task_updateCurState divides by drifts by no lost or doubled update.      *)
TaskNumExact ==
  \A c \in Cpus :
    taskNum[c] = Cardinality({t \in Tasks : /\ Home[t] = c /\ t \notin inKillTree
                                            /\ life[t] \in {"live", "killed"}})
                 + Cardinality(CpusAt("killDec") \cap {c})
                 - Cardinality({d \in CpusAt("createInc") : Home[target[d]] = c})

(* killedTaskNum, which the recycler polls without a lock, never goes below *)
(* zero and counts the killed tree up to the updates already due.           *)
KilledNumExact ==
  /\ killedTaskNum >= 0
  /\ killedTaskNum = Cardinality(killedTree) - Cardinality(CpusAt("killNum"))
                     + (IF rpc = "decNum" THEN 1 ELSE 0)

(* Both counters, which are changed apart from what they count, are exact   *)
(* up to the updates already due (Task_schedule, createTask, the recycler). *)
CountersExact == TaskNumExact /\ KilledNumExact

(* The reason for recycTskState: a processor never spins with interrupts    *)
(* off for the killed tree's lock while the recycler that holds it sits     *)
(* preempted in that same processor's run queue.                            *)
NoSpinOnOwnRecycler ==
  \A c \in Cpus : pc[c] = "killIns" /\ treeLock = 1 => Home[Recycler] # c

(* A task structure is freed under a processor only in the last steps of    *)
(* Task_schedule, after Task_Flag_InKillTree was set: never while the task  *)
(* still runs code of its own or updates the killed tree.                   *)
FreedOnlyWhenLeaving ==
  \A c \in Cpus : life[current[c]] = "freed" => pc[c] \in {"killDec", "pick", "switch"}

(* On the recycler's own processor the stack in use is never a freed one.   *)
RecyclerCpuStackOwned == life[current[Home[Recycler]]] # "freed"

(* mgr.h:109: an exited task waits to be recycled.  Its 32 KB block (task   *)
(* structure and kernel stack) is not freed while a processor uses it.      *)
StackInUseNotFreed == \A c \in Cpus : life[current[c]] # "freed"

(* What is buried stays buried: a task of the killed tree is never switched *)
(* to again and leaves the tree only for good, and a freed task is never    *)
(* brought back.                                                            *)
BuriedNeverReturns ==
  [][\A t \in Tasks :
       /\ t \in killedTree =>
            /\ \A c \in Cpus : current'[c] = t => current[c] = t
            /\ t \in killedTree' \/ rMost = t
       /\ life[t] = "freed" => life'[t] = "freed"]_vars

(* Once the recycler has been created every task that exits is freed in the *)
(* end: no lost wake-up between killedTaskNum, InKillTree and hlt, and no    *)
(* livelock of dying tasks that keep being requeued.                        *)
EventuallyRecycled ==
  \A t \in Tasks :
    (life[t] = "killed" /\ life[Recycler] = "live") ~> (life[t] = "freed")

-----------------------------------------------------------------------------
(* The inductive invariant of SchedulerProofs, part by part.                *)

Announced == rpc \in {"getMax", "gotLock", "checkFlag", "delNode", "decNum", "retire"}
Buried    == killedTree \cup inKillTree

(* A task only ever touches the run queue of its own processor.             *)
HomeInv ==
  \A c \in Cpus :
    /\ Home[current[c]] = c
    /\ \A t \in tree[c] : Home[t] = c /\ life[t] \in {"live", "killed"}
    /\ pc[c] = "createInc" => target[c] \in Tasks
    /\ pc[c] = "switch" => /\ target[c] \in Tasks /\ target[c] \notin tree[c]
                           /\ Home[target[c]] = c
                           /\ life[target[c]] \in {"live", "killed"}

(* Who runs is not queued, has been created and is killed when it is buried. *)
RunInv ==
  \A c \in Cpus :
    /\ life[current[c]] # "unborn"
    /\ pc[c] \notin {"pick", "switch"} => current[c] \notin tree[c]
    /\ pc[c] \in KillPath => life[current[c]] \in {"killed", "freed"}
    /\ pc[c] = "createInc" => life[current[c]] = "live"

(* The recycler never dies, holds the lock and the announcement where its   *)
(* program says so, and is announced only while its own processor is not    *)
(* burying a task.                                                          *)
RecyclerInv ==
  /\ life[Recycler] \in {"unborn", "live"}
  /\ treeLock = 1 <=> rpc \in {"gotLock", "delNode"}
  /\ recycTskState = IF Announced THEN 1 ELSE 0
  /\ pc[Home[Recycler]] = "killIns" => ~Announced

(* What is buried is killed, out of every run queue, and current only on    *)
(* the way out.                                                             *)
BuriedInv ==
  /\ \A t \in Buried :
       /\ life[t] \in {"killed", "freed"}
       /\ \A c \in Cpus :
            /\ t \notin tree[c]
            /\ pc[c] = "switch" => target[c] # t
            /\ current[c] = t => pc[c] \in {"killNum", "killFlag", "killDec", "pick", "switch"}
  /\ \A t \in inKillTree, c \in Cpus :
       current[c] = t => pc[c] \in {"killDec", "pick", "switch"}
  /\ \A t \in Tasks : life[t] = "freed" => t \in inKillTree
  /\ rpc = "checkFlag" => rMost \in Buried
  /\ rpc \in {"delNode", "decNum", "retire", "free"} => rMost \in inKillTree

(* The strengthened invariant the proofs of SchedulerProofs carry through   *)
(* every step of the task manager.                                          *)
IInv == TypeOK /\ HomeInv /\ RunInv /\ RecyclerInv /\ BuriedInv /\ RecyclerCpuStackOwned
==============================================================================
