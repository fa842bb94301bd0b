------------------------------- MODULE Frames --------------------------------
(***************************************************************************)
(* Entry to the kernel and return from it on one processor: the stubs of   *)
(* interrupt/entry.S and interrupt.h, the gates and the TSS, restoreAll,   *)
(* Task_switch, the system call path (task/switch.S), and which handlers   *)
(* of trap.c return.  Stacks are memory, word by word.  What code computes *)
(* in between is abstracted: it changes every general register.            *)
(***************************************************************************)
EXTENDS Integers, Sequences, SequencesExt

CONSTANTS StackWords,  \* Task_kernelStackSize in words
          Faults,      \* the exceptions that occur, of 0..20
          MaxEvents    \* bound on the steps

Tasks == {1, 2}
Base(t) == t * StackWords
Top(t) == Base(t) + StackWords
UserTop == -1                   \* Task_userStackEnd, not in the memory modelled

VARIABLES
  m,        \* the processor and its memory: [reg, mem], every word <<tag, n>>
  cur,      \* the running task
  tss,      \* the processor's TSS: [rsp0, ist2]
  thread,   \* per task, where Task_switch resumes it: [rip, rsp]
  user,     \* tasks that are made to go to user level
  open,     \* ghost: per task what was entered and not left, with the registers then
  hit,      \* ghost: tasks that took a fault in the kernel, on a stack in use
  lost,     \* ghost: the task that went on with something else, 0 if none
  events

vars == <<m, cur, tss, thread, user, open, hit, lost, events>>

(* PtReg, from low addresses to high                                        *)
PtReg == <<"r15", "r14", "r13", "r12", "r11", "r10", "r9", "r8", "rbx", "rcx", "rdx", "rsi",
           "rdi", "rbp", "ds", "es", "rax", "func", "errCode", "rip", "cs", "rflags", "rsp", "ss">>
Slot == [r \in ToSet(PtReg) |-> CHOOSE i \in DOMAIN PtReg : PtReg[i] = r]
Registers == ToSet(PtReg) \ {"func", "errCode"}
General == Registers \ {"ds", "es", "rip", "cs", "rflags", "rsp", "ss"}

Zero == <<"zero", 0>>
Ring(n) == <<"ring", n>>
IF01(on) == <<"if", IF on THEN 1 ELSE 0>>
Sp(c) == c.reg.rsp[2]
WordAt(c, a) == IF a \in DOMAIN c.mem THEN c.mem[a] ELSE <<"none", 0>>
SetReg(c, r, v) == [c EXCEPT !.reg[r] = v]
Push(c, v) == [reg |-> [c.reg EXCEPT !.rsp = <<"at", @[2] - 1>>], mem |-> (Sp(c) - 1 :> v) @@ c.mem]
Drop(c, n) == SetReg(c, "rsp", <<"at", Sp(c) + n>>)
PushRegs(c, rs) == FoldLeft(LAMBDA d, r : Push(d, c.reg[r]), c, rs)

InKernel == m.reg.cs = Ring(0)
Enabled01 == m.reg.rflags = IF01(TRUE)

(* Code runs: the general registers, and the kernel's segments if it is     *)
(* the kernel's.                                                            *)
Computed(c) == [c EXCEPT !.reg = [r \in Registers |-> IF r \in General THEN <<r, events>> ELSE @[r]]]
Segments(c) == [c EXCEPT !.reg.ds = <<"seg", 0>>, !.reg.es = <<"seg", 0>>, !.reg.ss = Ring(0)]

-----------------------------------------------------------------------------
(* What the processor does on an interrupt or exception                     *)
PushesCode == {8, 10, 11, 12, 13, 14, 17}
(* the stacks the gates name: 0 is the one in use, or rsp0 from user level  *)
FaultIst == 2
IrqIst == 0
Deliver(ist, code) ==
  LET sp == IF ist = 2 THEN tss.ist2 ELSE IF InKernel THEN Sp(m) ELSE tss.rsp0
      c == [m EXCEPT !.reg.rsp = <<"at", sp - (sp % 2)>>]
      old == [r \in {"ss", "rsp", "rflags", "cs", "rip"} |-> m.reg[r]]
      d == FoldLeft(LAMBDA e, r : Push(e, old[r]), c, <<"ss", "rsp", "rflags", "cs", "rip">>)
  IN  [(IF code THEN Push(d, <<"error", 0>>) ELSE d) EXCEPT !.reg.cs = Ring(0)]

(* The part all stubs share                                                 *)
Rest == <<"es", "ds", "rbp", "rdi", "rsi", "rdx", "rcx", "rbx",
          "r8", "r9", "r10", "r11", "r12", "r13", "r14", "r15">>
SaveAll(c) == Segments(PushRegs(Push(Push(c, c.reg.rax), c.reg.rax), Rest))
(* the stub of an exception: a zero in place of the code the processor does *)
(* not push, and the handler's address                                      *)
OwnCode == {8, 10, 11, 12, 13, 14, 17}
FaultStub(c, v) ==
  LET d == IF v \in OwnCode THEN c ELSE Push(c, Zero)
      e == Push(Push(d, <<"func", v>>), c.reg.rax)
  IN  IF v = 2 THEN SaveAll(Push(c, c.reg.rax)) ELSE Segments(PushRegs(e, Rest))
IrqStub(c) == SaveAll(Push(c, Zero))

(* The handlers: divide error enables interrupts and waits for ever; debug   *)
(* waits behind a gate and a stub that leave the interrupt flag alone; most *)
(* others stop the processor; a page fault comes back unless the page       *)
(* cannot be provided, device not available always does.                    *)
Waits == {0, 1}
Stops == (2..6) \cup (8..13)
StopsToo == 16..20
IFAfter(v) == CASE v = 0 -> IF01(TRUE) [] v = 1 -> m.reg.rflags [] OTHER -> IF01(FALSE)
Outcomes(v) ==
  CASE v \in Waits -> {"waits"} [] v \in Stops \cup StopsToo -> {"stops"}
    [] v = 14 -> {"fault", "stops"} [] OTHER -> {"fault"}

(* restoreAll: PtReg, from rsp on                                           *)
RestoreAll(c) == [c EXCEPT !.reg = [r \in Registers |-> WordAt(c, Sp(c) + Slot[r] - 1)]]
(* Syscall_backToUsr: rsp, rbp, rflags, rip, ds and es are popped, ds       *)
(* through rbx.                                                             *)
BackToUsr(c) ==
  LET w(i) == WordAt(c, Sp(c) + i)
  IN  [c EXCEPT !.reg = [@ EXCEPT !.rsp = w(0), !.rdx = w(0), !.rbp = w(1), !.r9 = w(1),
                                  !.rflags = w(2), !.r11 = w(2), !.rip = w(3), !.rcx = w(3),
                                  !.ds = w(4), !.es = w(5), !.rbx = w(5),
                                  !.cs = Ring(3), !.ss = Ring(3)]]
SyscallKeeps == {"rsp", "rbp", "rflags", "rip", "ds", "es", "cs", "ss"}

-----------------------------------------------------------------------------
(* Task_createTask: the registers a task starts with, at the stack's top    *)
FirstRegs(t) ==
  [r \in Registers |->
     CASE r = "rflags" -> IF01(TRUE) [] r \in {"cs", "ss"} -> Ring(0) [] r \in {"ds", "es"} -> <<"seg", 0>>
       [] r = "rsp" -> <<"at", Top(t) - Len(PtReg)>> [] r \in {"rip", "rdi", "rsi"} -> <<r, t>>
       [] OTHER -> Zero]
FirstFrame(t) ==
  [a \in (Top(t) - Len(PtReg))..(Top(t) - 1) |->
     LET r == PtReg[a - Top(t) + Len(PtReg) + 1] IN IF r \in Registers THEN FirstRegs(t)[r] ELSE Zero]
TSSOf(t) == [rsp0 |-> Top(t), ist2 |-> Top(t)]

(* Task 1 runs, from the entry on; task 2 has not run.                      *)
FramesInit ==
  /\ m = [reg |-> FirstRegs(1), mem |-> FirstFrame(2)]
  /\ cur = 1 /\ tss = TSSOf(1) /\ user \in SUBSET Tasks
  /\ thread = [t \in Tasks |-> [rip |-> "entry", rsp |-> Top(t) - Len(PtReg)]]
  /\ open = [t \in Tasks |-> IF t = 1 THEN <<>> ELSE <<[kind |-> "created", reg |-> FirstRegs(t)]>>]
  /\ hit = {} /\ lost = 0 /\ events = 0

Innermost == IF open[cur] = <<>> THEN "none" ELSE Last(open[cur]).kind
Lost(t, differs) == IF differs THEN t ELSE 0
Opened(kind) == [open EXCEPT ![cur] = Append(@, [kind |-> kind, reg |-> m.reg])]
Runs == lost = 0 /\ events < MaxEvents /\ Innermost # "stops"
Computes == Runs /\ Innermost # "waits"

(* Kernel code calls a function, which runs.                                *)
Call ==
  /\ Computes /\ InKernel
  /\ m' = Computed(Push(m, <<"return", events>>))
  /\ open' = Opened("call") /\ events' = events + 1
  /\ UNCHANGED <<cur, tss, thread, user, hit, lost>>

(* An interrupt: gates without a stack of their own, and the stub           *)
Irq ==
  /\ Runs /\ Enabled01
  /\ m' = [Computed(Push(IrqStub(Deliver(IrqIst, FALSE)), <<"return", events>>)) EXCEPT !.reg.rflags = IF01(FALSE)]
  /\ open' = Opened("irq") /\ events' = events + 1
  /\ UNCHANGED <<cur, tss, thread, user, hit, lost>>

(* An exception: gates with the second stack of the TSS, and the stub       *)
Fault(v) ==
  /\ Computes
  /\ m' = [Computed(Push(FaultStub(Deliver(FaultIst, v \in PushesCode), v), <<"return", events>>))
             EXCEPT !.reg.rflags = IFAfter(v)]
  /\ \E kind \in Outcomes(v) : open' = Opened(kind)
  /\ events' = events + 1
  /\ hit' = IF InKernel /\ open[cur] # <<>> THEN hit \cup {cur} ELSE hit
  /\ UNCHANGED <<cur, tss, thread, user, lost>>

(* syscall and Syscall_entry, which finds the task in user space            *)
Syscall ==
  /\ Computes /\ ~InKernel
  /\ LET r == [m.reg EXCEPT !.rcx = m.reg.rip, !.r11 = m.reg.rflags, !.rdx = m.reg.rsp,
                            !.r9 = m.reg.rbp, !.rsp = <<"at", Top(cur)>>, !.cs = Ring(0)]
         c == PushRegs([m EXCEPT !.reg = r], <<"es", "ds", "rcx", "r11", "r9", "rdx">>)
     IN  m' = [Computed(Push(Segments(c), <<"return", events>>)) EXCEPT !.reg.rflags = IF01(TRUE)]
  /\ open' = Opened("syscall") /\ events' = events + 1
  /\ UNCHANGED <<cur, tss, thread, user, hit, lost>>

(* init and Task_switchToUsr: to user level, by the way back of a system    *)
(* call.  User code may load each segment register as it likes.             *)
ToUser ==
  /\ Computes /\ InKernel /\ open[cur] = <<>> /\ cur \in user
  /\ LET goes == [r \in SyscallKeeps |->
                    CASE r = "rsp" -> <<"at", UserTop>> [] r = "rbp" -> <<"at", UserTop>>
                      [] r = "rflags" -> IF01(TRUE) [] r = "rip" -> <<"entry", cur>>
                      [] r \in {"ds", "es"} -> <<r, 3>> [] OTHER -> Ring(3)]
         c == FoldLeft(LAMBDA d, r : Push(d, goes[r]), m, <<"es", "ds", "rip", "rflags", "rbp", "rsp">>)
     IN  /\ m' = BackToUsr(c)
         /\ lost' = Lost(cur, \E r \in SyscallKeeps : m'.reg[r] # goes[r])
  /\ events' = events + 1 /\ UNCHANGED <<cur, tss, thread, user, open, hit>>

-----------------------------------------------------------------------------
(* Task_switch to t, from Task_schedule: it keeps rax and rbp on the stack. *)
TSSKept(t) == tss               \* a faulty variant: the TSS is not told of the new task
TSSNext(t) == TSSOf(t)
SwitchTo(t, c) ==
  IF t = cur THEN c
  ELSE LET on == SetReg(c, "rsp", <<"at", thread[t].rsp>>)
       IN  IF thread[t].rip = "entry" THEN on
           ELSE [Drop(on, 2) EXCEPT !.reg.rax = WordAt(on, Sp(on)), !.reg.rbp = WordAt(on, Sp(on) + 1)]
Saved(t, c) ==
  IF t = cur THEN c ELSE PushRegs(c, <<"rbp", "rax">>)

(* Is everything as it was where the innermost entry of t was made?         *)
Differs(t, c, rs) == \E r \in rs : c.reg[r] # Last(open[t]).reg[r]
Closed(t) == [open EXCEPT ![t] = Front(@)]

(* A function returns.                                                      *)
Return ==
  /\ Computes /\ Innermost = "call"
  /\ LET back == Last(open[cur]).reg
     IN  /\ lost' = Lost(cur, WordAt(m, Sp(m))[1] # "return")
         /\ m' = [m EXCEPT !.reg = back]
  /\ open' = Closed(cur) /\ events' = events + 1
  /\ UNCHANGED <<cur, tss, thread, user, hit>>

(* The handler of an interrupt or fault returns: Intr_retFromIntr, with     *)
(* Task_schedule, which keeps the task or switches to another.              *)
HandlerReturns(t) ==
  /\ Computes /\ Innermost \in {"irq", "fault"}
  /\ t # cur => open[t] # <<>> /\ Last(open[t]).kind \in {"created", "irq", "fault"}
  /\ LET c == Saved(t, Drop(m, 1))
         d == RestoreAll(SwitchTo(t, c))
     IN  /\ m' = [d EXCEPT !.mem = c.mem]
         /\ lost' = IF WordAt(m, Sp(m))[1] # "return" THEN cur ELSE Lost(t, Differs(t, d, Registers))
         /\ thread' = IF t = cur THEN thread ELSE [thread EXCEPT ![cur] = [rip |-> "back", rsp |-> Sp(c)]]
         /\ tss' = IF t = cur THEN tss ELSE TSSNext(t)
  /\ open' = Closed(t) /\ cur' = t /\ events' = events + 1
  /\ UNCHANGED <<user, hit>>

(* A system call returns to user level.                                     *)
SyscallReturns ==
  /\ Computes /\ Innermost = "syscall"
  /\ LET d == BackToUsr(Drop(m, 1))
     IN  /\ m' = d
         /\ lost' = Lost(cur, WordAt(m, Sp(m))[1] # "return" \/ Differs(cur, d, SyscallKeeps))
  /\ open' = Closed(cur) /\ events' = events + 1
  /\ UNCHANGED <<cur, tss, thread, user, hit>>

-----------------------------------------------------------------------------
(* Whatever is interrupted, by interrupts, faults and system calls in each  *)
(* other and with switches between, goes on with the registers it had; a    *)
(* task whose stack was in use when it took a fault in the kernel is the    *)
(* exception, as its fault frame is put at the top of that stack (mgr.c:316). *)
FramesRestored == lost # 0 => lost \in hit
==============================================================================
