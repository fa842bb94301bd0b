-------------------------------- MODULE SIMD --------------------------------
(***************************************************************************)
(* The lazy switch of the vector registers of several processors:          *)
(* simd/simd.c, the device-not-available trap, and what Task_schedule,     *)
(* Task_createTask and Task_exit do to it.  The trap runs with interrupts  *)
(* off on its processor and is one step.  A task stays on the processor it *)
(* is created on; its structure keeps its name when the block is used for  *)
(* another task, which may be on another processor.  Save areas are blocks *)
(* of kmalloc, which other code uses as well.                              *)
(***************************************************************************)
EXTENDS Naturals, FiniteSets

CONSTANTS Cpus, Tasks, Blocks, Values,
          InitTask,     \* the init task of each processor
          None

ASSUME SIMDAssumption ==
  /\ None \notin Tasks \cup Blocks /\ "other" \notin Tasks \cup {None}
  /\ InitTask \in [Cpus -> Tasks]
  /\ \A c, d \in Cpus : InitTask[c] = InitTask[d] => c = d

VARIABLES
  live,     \* the tasks there are
  home,     \* cpuId: per task, its processor
  current,  \* per processor ...
  TS,       \* the TS bit of cr0: the next vector instruction traps
  reg,      \* whose values, and which, the registers hold: <<task, value>>
  domain,   \* simdRegDomain
  simdRegs, \* per task, its save area (a pointer that may be stale)
  area,     \* the content of each block: <<task, value>>, or <<None, 0>>
  owner,    \* who has got each block from kmalloc: a task, "other", or None
  mine,     \* ghost: per task the values it computed last, Empty if none
  lost      \* ghost: tasks whose values a trap of another task has destroyed

vars == <<live, home, current, TS, reg, domain, simdRegs, area, owner, mine, lost>>

Empty == <<None, 0>>
Inits == {InitTask[c] : c \in Cpus}

Init ==
  /\ live = Inits
  /\ home \in [Tasks -> Cpus] /\ \A c \in Cpus : home[InitTask[c]] = c
  /\ current = [c \in Cpus |-> InitTask[c]]
  /\ TS = [c \in Cpus |-> TRUE]
  /\ reg = [c \in Cpus |-> Empty] /\ domain = [c \in Cpus |-> None]
  /\ simdRegs = [t \in Tasks |-> None]
  /\ area = [b \in Blocks |-> Empty] /\ owner = [b \in Blocks |-> None]
  /\ mine = [t \in Tasks |-> Empty] /\ lost = {}

-----------------------------------------------------------------------------

TSAfterSwitchKept(c) == TS       \* a faulty variant: Task_schedule leaves TS alone
TSAfterSwitch(c) == [TS EXCEPT ![c] = TRUE]

(* Task_schedule                                                            *)
Switch(c, t) ==
  /\ t \in live /\ home[t] = c
  /\ current' = [current EXCEPT ![c] = t] /\ TS' = TSAfterSwitch(c)
  /\ UNCHANGED <<live, home, reg, domain, simdRegs, area, owner, mine, lost>>

(* Where the registers of c go: to the save area of the task their domain   *)
(* names, which may have moved to another processor with a new task of that *)
(* name; and if it is dead its structure may be in use for anything.        *)
Target(c) ==
  IF domain[c] \in live THEN {simdRegs[domain[c]]}
  ELSE Blocks \cup {None}

SavedUnsaved(c, to) == area         \* a faulty variant: the registers are not saved
Saved(c, to) == IF to = None THEN area ELSE [area EXCEPT ![to] = reg[c]]

IsOwn(t, c) == t = domain[c] /\ home[t] = c

(* ghost: the live tasks whose values go when the registers of c change     *)
(* hands and are saved to block to: one that owns that block, and is not    *)
(* the one whose values are in the registers; and one that is, but has no   *)
(* save area.                                                               *)
Overwritten(c, to) == {t \in live : to # None /\ owner[to] = t /\ ~IsOwn(t, c)}
Unsaved(c)         == {t \in live : IsOwn(t, c) /\ simdRegs[t] = None}

(* doDevNotAvailable and SIMD_switchToCur                                   *)
TrapOwn(c) ==
  /\ domain[c] \in {None, current[c]}
  /\ UNCHANGED <<reg, simdRegs, area, owner, lost>>

TrapSwitch(c) ==
  /\ domain[c] \notin {None, current[c]}
  /\ \E to \in Target(c) :
       /\ lost' = lost \cup Overwritten(c, to) \cup Unsaved(c)
       /\ \/ /\ simdRegs[current[c]] # None
             /\ area' = Saved(c, to)
             /\ reg' = [reg EXCEPT ![c] = Saved(c, to)[simdRegs[current[c]]]]
             /\ UNCHANGED <<simdRegs, owner>>
          \/ /\ simdRegs[current[c]] = None
             /\ \E b \in Blocks :
                  /\ owner[b] = None
                  /\ owner' = [owner EXCEPT ![b] = current[c]]
                  /\ simdRegs' = [simdRegs EXCEPT ![current[c]] = b]
                  /\ area' = [Saved(c, to) EXCEPT ![b] = reg[c]]
             /\ UNCHANGED reg

Trap(c) ==
  /\ TS[c] /\ TS' = [TS EXCEPT ![c] = FALSE]
  /\ TrapOwn(c) \/ TrapSwitch(c)
  /\ domain' = [domain EXCEPT ![c] = current[c]]
  /\ UNCHANGED <<live, home, current, mine>>

(* a vector instruction of the task; what it had lost does not matter now   *)
Compute(c, v) ==
  /\ ~TS[c]
  /\ reg' = [reg EXCEPT ![c] = <<current[c], v>>]
  /\ mine' = [mine EXCEPT ![current[c]] = <<current[c], v>>]
  /\ lost' = lost \ {current[c]}
  /\ UNCHANGED <<live, home, current, TS, domain, simdRegs, area, owner>>

(* Task_createTask                                                          *)
Create(t, c) ==
  /\ t \notin live
  /\ live' = live \cup {t} /\ home' = [home EXCEPT ![t] = c]
  /\ simdRegs' = [simdRegs EXCEPT ![t] = None]
  /\ UNCHANGED <<current, TS, reg, domain, area, owner, mine, lost>>

(* Task_exit frees the task's private blocks, its save area among them, and *)
(* the processor goes on with another task.  (A killed task may run again   *)
(* until it is recycled, but only to release the processor.)                *)
Exit(c, t) ==
  LET dying == current[c] IN
  /\ dying \notin Inits /\ t \in live \ {dying} /\ home[t] = c
  /\ owner' = [b \in Blocks |-> IF owner[b] = dying THEN None ELSE owner[b]]
  /\ live' = live \ {dying}
  /\ mine' = [mine EXCEPT ![dying] = Empty] /\ lost' = lost \ {dying}
  /\ current' = [current EXCEPT ![c] = t] /\ TS' = TSAfterSwitch(c)
  /\ UNCHANGED <<home, reg, domain, simdRegs, area>>

(* kmalloc and kfree by anybody else                                        *)
OtherAlloc(b) ==
  /\ owner[b] = None
  /\ owner' = [owner EXCEPT ![b] = "other"] /\ area' = [area EXCEPT ![b] = Empty]
  /\ UNCHANGED <<live, home, current, TS, reg, domain, simdRegs, mine, lost>>
OtherFree(b) ==
  /\ owner[b] = "other"
  /\ owner' = [owner EXCEPT ![b] = None]
  /\ UNCHANGED <<live, home, current, TS, reg, domain, simdRegs, area, mine, lost>>

Next ==
  \/ \E c \in Cpus :
       \/ Trap(c)
       \/ \E t \in Tasks : Switch(c, t) \/ Create(t, c) \/ Exit(c, t)
       \/ \E v \in Values : Compute(c, v)
  \/ \E b \in Blocks : OtherAlloc(b) \/ OtherFree(b)

Spec == Init /\ [][Next]_vars

-----------------------------------------------------------------------------

(* Vector instructions run untrapped only in the task whose values are in   *)
(* the registers, whoever was switched, created or has exited before.       *)
UntrappedIsOwner == \A c \in Cpus : ~TS[c] => domain[c] = current[c]

(* The values of t are in the registers of its processor, if it owns them,  *)
(* and else in its save area, which it has got and still has.               *)
Kept(t) ==
  IF domain[home[t]] = t THEN reg[home[t]] = mine[t]
  ELSE /\ simdRegs[t] # None /\ owner[simdRegs[t]] = t
       /\ area[simdRegs[t]] = mine[t]

(* A task finds its values again, however often it is switched and others,  *)
(* on its processor and on the rest, use theirs, but for two ways to lose   *)
(* them: it had the registers of a processor without a save area when       *)
(* another took them (simd.c:69-70), as the first user of a processor has,  *)
(* and a task that got the structure of a dead owner; or its save area was  *)
(* written from the registers of a processor whose simdRegDomain named a    *)
(* task that has exited (simd.c:70).                                        *)
ValuesFound == \A t \in live \ lost : mine[t] # Empty => Kept(t)
=============================================================================
