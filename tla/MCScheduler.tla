---------------------------- MODULE MCScheduler ----------------------------
(* Scheduler on two processors.  Tasks are dealt to processors by pid as in  *)
(* Task_createTask.                                                         *)
EXTENDS Scheduler, TLC
CONSTANTS c0, c1, init0, init1, task0, recyc, w1, w3

TwoCpuIdle == c0 :> init0 @@ c1 :> init1
(* pids: init 0 and 1, task0 2, w1 3, recycler 4, w3 6                      *)
TwoCpuHome == [t \in Tasks |-> IF t \in {init0, task0, recyc, w3} THEN c0 ELSE c1]
=============================================================================
