-------------------------------- MODULE CFS --------------------------------
(***************************************************************************)
(* The accounting of Task_updateCurState and the ordering of the run queue *)
(* on one processor: virtual run times, slices, weights.  The interrupt    *)
(* handler and Task_schedule at its end run with interrupts off, so each   *)
(* interrupt is one step.                                                  *)
(*                                                                         *)
(* Only differences of virtual run times matter; vrt keeps them relative   *)
(* to the smallest one of the tasks present, which stays 0.  A task that   *)
(* is created has the run time its creator, a task of any processor, read  *)
(* with interrupts on; by the time it is inserted the others have run, so  *)
(* its own may be below theirs.                                            *)
(***************************************************************************)
EXTENDS Integers, FiniteSets, FiniteSetsExt

CONSTANTS Pids,     \* the tasks of this processor, named by their pid
          InitPid,  \* its init task
          Quantum,  \* ticks a lone task runs: 20 in the code
          MaxStale  \* a bound: a creation is followed to its end while what it
                    \* read is no more than this behind the tasks present

ASSUME CFSAssumption ==
  /\ Pids \subseteq Nat /\ InitPid \in Pids
  /\ Quantum \in Nat \ {0} /\ MaxStale \in Nat

Normal == 0  Trapped == 4  Killed == 5

VARIABLES
  queue,      \* the pids in Task_cfsStruct.tree of this processor
  current,
  vrt, res,   \* vRunTime, resRunTime
  prio,       \* Task_Priority_*
  need,       \* the current task's Task_Flag_NeedSchedule
  releasing,  \* tasks between lines 60 and 61 of Task_releaseProcessor
  gone,       \* pids that are in the killed tree
  creating    \* tasks between lines 377 and 380 of Task_createTask

vars == <<queue, current, vrt, res, prio, need, releasing, gone, creating>>

Present == queue \cup {current}
taskNum == Cardinality(Present)
Weight(p) == <<1, 2, 3, 4, 5, 6>>[p + 1]

Init ==
  /\ queue = {} /\ current = InitPid
  /\ vrt = [t \in Pids |-> 0] /\ res = [t \in Pids |-> Quantum]
  /\ prio = [t \in Pids |-> Normal]
  /\ need = FALSE /\ releasing = {} /\ gone = {} /\ creating = {}

BeforeReversed(v, a, b) == v[a] > v[b] \/ (v[a] = v[b] /\ a < b)  \* faulty: the order reversed

(* _CFSTree_comparator                                                      *)
Before(v, a, b) == v[a] < v[b] \/ (v[a] = v[b] /\ a < b)
Leftmost(v, S) == CHOOSE t \in S : \A u \in S \ {t} : Before(v, t, u)

(* The same differences for the tasks P that are present now, those of C    *)
(* still to be inserted, with the smallest run time of P at 0; a task that  *)
(* has left, or is not there yet, needs none.                               *)
Rebase(v, P, C) ==
  LET least == Min({v[u] : u \in P}) IN
  /\ creating' = {t \in C : v[t] - least >= -MaxStale}
  /\ vrt' = [t \in Pids |-> IF t \in P \cup creating' THEN v[t] - least ELSE 0]

-----------------------------------------------------------------------------
RanNothing(t) == 0   \* a faulty variant: a weight of 0
-----------------------------------------------------------------------------

(* The remaining run time a task gets when its slice is used up.            *)
NewSlice(p) == Weight(p) * Max({1, Quantum \div taskNum})

Ran(t) == Weight(prio[t])

(* Task_schedule with NeedSchedule set, for the run times v the interrupt   *)
(* leaves: either the current task is queued, or, killed and the recycler   *)
(* not at work, it leaves for the killed tree.                              *)
Schedule(v) ==
  \/ /\ LET next == Leftmost(v, Present) IN
          /\ current' = next
          /\ queue' = Present \ {next}
     /\ Rebase(v, Present, creating)
     /\ UNCHANGED gone
  \/ /\ prio[current] = Killed
     /\ LET next == Leftmost(v, queue) IN
          /\ current' = next
          /\ queue' = queue \ {next}
     /\ gone' = gone \cup {current}
     /\ Rebase(v, queue, creating)

(* Task_updateCurState with r left before it, then Task_schedule.           *)
UpdateAndSchedule(r) ==
  LET v == [vrt EXCEPT ![current] = @ + Ran(current)]
      left == r - Ran(current)
  IN IF left <= 0
       THEN /\ res' = [res EXCEPT ![current] = NewSlice(prio[current])]
            /\ Schedule(v)
            /\ need' = FALSE
       ELSE /\ res' = [res EXCEPT ![current] = left]
            /\ Rebase(v, Present, creating)
            /\ need' = FALSE
            /\ UNCHANGED <<queue, current, gone>>

(* The HPET interrupt, or the IPI it sends to the other processors.         *)
Tick == UpdateAndSchedule(res[current]) /\ UNCHANGED <<prio, releasing>>

(* Any other interrupt returns through Task_schedule too.                   *)
OtherInterrupt ==
  /\ need /\ need' = FALSE
  /\ Schedule(vrt)
  /\ UNCHANGED <<res, prio, releasing>>

(* Task_releaseProcessor: the flag, then resRunTime = 0 and the self IPI.   *)
ReleaseFlag ==
  /\ current # InitPid /\ current \notin releasing
  /\ need' = TRUE /\ releasing' = releasing \cup {current}
  /\ UNCHANGED <<queue, current, vrt, res, prio, gone, creating>>

ReleaseIPI ==
  /\ current \in releasing
  /\ UpdateAndSchedule(0)
  /\ releasing' = releasing \ {current}
  /\ UNCHANGED prio

(* Task_exit, and the trap handler's change of priority.                    *)
SetPriority(p) ==
  /\ current # InitPid /\ prio[current] < p
  /\ prio' = [prio EXCEPT ![current] = p]
  /\ UNCHANGED <<queue, current, vrt, res, need, releasing, gone, creating>>

StartVrt == vrt[InitPid]

(* Task_createTask, by a task of any processor: the init task's run time is *)
(* read with interrupts on ...                                              *)
CreateRead(t) ==
  /\ t \notin Present \cup gone \cup creating
  /\ creating' = creating \cup {t}
  /\ vrt' = [vrt EXCEPT ![t] = StartVrt]
  /\ UNCHANGED <<queue, current, res, prio, need, releasing, gone>>

(* ... and after IO_cli the task is inserted where that puts it.            *)
CreateInsert(t) ==
  /\ t \in creating
  /\ queue' = queue \cup {t}
  /\ Rebase(vrt, Present \cup {t}, creating \ {t})
  /\ UNCHANGED <<current, res, prio, need, releasing, gone>>

Next ==
  \/ Tick \/ OtherInterrupt \/ ReleaseFlag \/ ReleaseIPI
  \/ \E p \in {Trapped, Killed} : SetPriority(p)
  \/ \E t \in Pids : CreateRead(t) \/ CreateInsert(t)

(* The HPET keeps interrupting every processor.                             *)
Spec == Init /\ [][Next]_vars /\ WF_vars(Tick)

-----------------------------------------------------------------------------

TypeOK ==
  /\ queue \subseteq Pids /\ current \in Pids \ queue
  /\ vrt \in [Pids -> Int] /\ res \in [Pids -> Int]
  /\ prio \in [Pids -> {Normal, Trapped, Killed}]
  /\ need \in BOOLEAN /\ releasing \subseteq Pids /\ gone \subseteq Pids
  /\ creating \subseteq Pids \ Present

(* The longest slice: the init task's when it is alone, or that of a killed *)
(* task, which never is.                                                    *)
LongestSlice == Max({Quantum, Weight(Killed) * Max({1, Quantum \div 2})})

(* Fairness of the accounting: whatever tasks are created, killed, trapped  *)
(* or give up the processor, the virtual run times of the present tasks     *)
(* never drift apart by more than one slice (a turn adds at most the slice  *)
(* it was given and, with a last tick, one weight less one) and what passes *)
(* between a creation's reading of the init task's run time and its         *)
(* insertion (mgr.c:377, 380); delays of several creations do not add up.   *)
(* The variables keep their types.                                          *)
LagBounded ==
  TypeOK /\ \A t \in Present : vrt[t] \in 0..(LongestSlice + Weight(Killed) - 1 + MaxStale)

(* No ready task starves: each run of the accounting is a run of the fair   *)
(* run queue that Scheduler assumes.                                        *)
FairQueue == INSTANCE RunQueue WITH Tasks <- Pids, ready <- queue, running <- current
ImplementsRunQueue == FairQueue!Spec
=============================================================================
