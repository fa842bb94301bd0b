# A TLA+ development of the JROS kernel

JROS is a small x86-64 kernel: a C kernel under `src/kernel`, an assembly boot
loader under `src/bootloader`. This directory holds TLA+ modules translated from
the C sources, the TLC configurations that check them on small instances, and
TLAPS proofs about them. Line numbers below are those of the repository.

## 1. The system

| component | files | state | operations |
| --- | --- | --- | --- |
| task manager | `task/mgr.c`, `mgr.h`, `desc.h`, `switch.S` | per processor run queue and task count, killed tree, counters shared with the recycler, the task structures (32 KB blocks: structure and kernel stack) | create, tick, release, schedule, switch, exit, recycle, signals, task timers |
| red-black tree | `lib/rbtree.c` | root, colour bits, one spin lock per tree | insert, delete, min, max, next |
| buddy allocator | `memory/buddy.c` | free lists per order, parity bitmap, page attributes | alloc, alloc4G, free, split |
| slab allocator | `memory/SLAB.c` | 16 caches, each a ring of 2 MB slabs with a bitmap; per task list of private blocks | kmalloc, kfree, push and destroy a slab |
| page tables | `memory/pgtable.c`, `DMAS.c`, `initmm.c` | table page cache, zones | alloc/free table, map, unmap, clean |
| interrupts | `interrupt/interrupt.c`, `trap.c`, `entry.S`, `softirq.c` | descriptors per vector, pending soft interrupts per processor | register, dispatch, faults |
| soft timers | `interrupt/softirq/timer.c`, `hardware/timer/hpet.c` | `jiffies`, timer tree and lock | add, tick, expire, delay |
| SMP | `smp/smp.c` | processor packages, interrupt vector bitmaps | start, IPI, allocate vector |
| SIMD | `simd/simd.c` | owner of the vector registers per processor | lazy save and restore |
| keyboard | `hardware/keyboard/keyboard.c` | scan code ring with its count | interrupt handler, reader |
| NVMe | `hardware/NVMe/*.c` | submission and completion rings | submit, wait, interrupt |
| XHCI | `hardware/USB/XHCI/*.c` | transfer, command and event rings, event queues, device tasks | submit, complete, connect, disconnect |
| HID, UHCI, PCIe, APIC | `hardware/USB/HID`, `hardware/PCIe`, ... | descriptors and registers | configuration |
| JRFS, GPT | `fs/jrfs/api.c`, `fs/gpt/api.c` | page groups, bitmaps, caches, hash tables, partitions | mkfs, scan; opening and directories have no caller |
| library | `lib/*.c`, `lib/*.h` | | memory, strings, lists, logarithms |
| printing, boot, headers | `includes/log.*`, `bootloader/` | screen, tables | |

How they interact. Every interrupt, exception and system call returns through
`Intr_retFromIntr` (`interrupt/entry.S`), which calls `Task_schedule` and then
dispatches pending soft interrupts. The HPET interrupt on the boot processor
counts `jiffies` and makes every processor run `Task_updateCurState` by IPI.
Drivers wait by `Task_releaseProcessor` in a loop until an interrupt handler sets
a flag. Each task owns lists of the pages and private blocks it allocated;
`Task_exit` returns them. The recycler task returns the task's own block.
Spin locks (`lib/spinlock.h`) protect the trees and allocators; some are taken
with interrupts enabled, some with interrupts masked, and some state
(`taskNum`, `killedTaskNum`, `recycTskState`) is shared by atomic counters only.

What is hard here: several processors and preemption anywhere that interrupts
are enabled; locks taken both by preemptible code and by code with interrupts
off; the free of a stack that is still in use; read-modify-write of shared words
without a lock (signals, soft interrupt bits); allocators whose bitmaps and free
lists must agree after any sequence of calls; rings with wrap-around and
producers in interrupt handlers. `PROJECT.json` lists these at their lines.

What makes each component correct:

* task manager: a task is in exactly one place; counters agree with the trees;
  no deadlock between scheduler and recycler; a dead task is recycled, and not
  before its processor has left it; every ready task runs.
* red-black tree: search order, balance and parent links after any insertion and
  deletion; min, max and next agree with the ordered set.
* buddy: free and allocated blocks partition the memory, the bitmap is the parity
  of the free buddies, no two free buddies stay unmerged.
* slab: a block is handed out once, counters agree with bitmaps, a free block is
  found, a freed block's slab is still reachable.
* page tables: a table has one owner, an address space shows what was mapped in it,
  and neither the removal of a space nor an unmap touches another's entries.
* entry and return: whatever is interrupted goes on with the registers it had.
* boot: the zones given to the allocator are RAM that nobody uses.
* what is computed once (descriptors, partitions, processors, vectors): it is what
  the input says.
* keyboard: the events are those that were typed, in order.
* NVMe and XHCI: every request on a ring is answered, once, with its own result,
  and nothing of a request is touched after its task has gone on; a slot belongs to one device, a device
  that is gone is given back, and one that failed does not hold up the next.
* SIMD: a task computes in its own registers and finds its values again, whatever it and others do on any processor.

## 2. The modules

| module | models | with | checked by |
| --- | --- | --- | --- |
| `Scheduler` | `Task_createTask` (from its `IO_cli`), `Task_exit`, `Task_schedule`, `Task_switch`, `Task_recycleThread` on several processors | `MCScheduler` | `sched_smp`, `sched_smp_stack` |
| `SchedulerProofs` | theorems about `Scheduler` | TLAPS | |
| `CFS` | `Task_updateCurState`, `Task_releaseProcessor`, the comparator, the order in which one processor's tasks run | `RunQueue` (abstract), `MCCFS` | `cfs` |
| `CFSProofs` | theorems about `CFS` and `RunQueue` | TLAPS | |
| `RBTree` | `lib/rbtree.c` on its links and colours | `OrderedSet` (abstract) | `rbtree` |
| `Buddy` | `memory/buddy.c` | `PageAllocator` (abstract), `MCBuddy` | `buddy` |
| `Slab` | `kmalloc`, `kfree` with the pages they take and give back | `MCSlab` | `slab` |
| `SlabProofs` | theorems about `Slab` | TLAPS | |
| `PageTable` | `memory/pgtable.c`, its page cache, the copies of the kernel's half, stack growth | `AddressSpaces` (abstract), `MCPageTable` | `vm` |
| `PageTableProofs` | theorems about `PageTable` and `AddressSpaces` | TLAPS | |
| `SIMD` | the lazy switch of the vector registers | `MCSIMD` | `simd` |
| `SIMDProofs` | theorems about `SIMD` | TLAPS | |
| `NVMe` | submission and completion queues, the interrupt handler | | `nvme` |
| `NVMeProofs` | theorems about `NVMe` | TLAPS | |
| `XHCI` | TRB rings, event ring, event queue, event task | `MCXHCI` | `xhci` |
| `XHCIProofs` | theorems about `XHCI` | TLAPS | |
| `XHCIDevice` | port events, the manager task of a device and its signal handler | `MCXHCIDevice` | `xhci_device` |
| `XHCIDeviceProofs` | theorems about `XHCIDevice` | TLAPS | |
| `Frames` | entry to the kernel and return from it, with switches | `MCFunctions` | `functions` |
| `Keyboard` | the keyboard's handler, ring and reader | `MCFunctions` | `functions` |
| `BootMemory` | from the firmware's map to the zones of `Buddy` | `MCFunctions` | `functions` |
| `HIDParse` | report descriptors and reports | `MCFunctions` | `functions` |
| `DiskSetup` | partitions and their formatting at boot | `MCFunctions` | `functions` |
| `Screen` | the text of the screen | `MCFunctions` | `functions` |
| `Processors` | the table of processors and their vectors | `DriverStart`, `MCFunctions` | `functions` |
| `DriverStart` | PCIe walk, XHCI and NVMe start, interrupt vectors and messages | `MCFunctions` | `functions` |
| `KernelLib` | memory, strings, lists, logarithms, the conversions of `sprintf` | `MCFunctions` | `functions` |

Conventions. An action bears the name of the C function, or of the step of it,
that it models; `PROJECT.json` maps each definition to its lines. What runs with
interrupts off and under a lock that all its users take is one action; where the
code can be interrupted, or another processor can look, there is a step. A
definition marked *a faulty variant* is not part of the model: it is a slip the
code could have had, and the run named for it in `PROJECT.json` finds it.

**Scheduler.** `current`, `tree`, `taskNum`, `killedTree`, `killedTaskNum` and
`recycTskState` are the fields of `Task_cfsStruct`; `life` follows the priority
of a task from creation to the free of its 32 KB block, which holds the task
structure and the kernel stack. `pc` is where a processor is: in task code, or
in one of the paths with interrupts off, whose steps are separate because other
processors see them. The recycler is a task: its steps (`rpc`) happen only while
it is current, and it can be preempted between any two, holding the killed
tree's lock or not. Virtual run time is left to `CFS`; here any member of a run
queue may be the leftmost. A task that gets a signal exits or goes on, so
signals are covered by `Exit`. The four places where a task may be, the
processor, a run queue, the killed tree and the recycler, are what `OnePlace`
counts. `taskNum` is counted after the task is queued (mgr.c:380-381): on several
processors it lags, which `CountersExact` states to the unit; a processor
whose tasks die while a creator is stalled between the two lines can see 0 there.

**CFS.** One processor. Each interrupt (`Tick`, `ReleaseIPI`, `OtherInterrupt`) is
one step with `Task_schedule` at its end; `ReleaseFlag` is the first half of
`Task_releaseProcessor`, which can be interrupted before the IPI it sends. Only
differences of run times matter, so `vrt` is kept relative to the smallest, which
makes the state space finite without a bound on time. A task is created by any task of any processor: `CreateRead`
reads the init task's run time with interrupts on (mgr.c:377), `CreateInsert` queues the newcomer with it after `IO_cli`
(line 380). Whatever runs between the two leaves the newcomer behind; how far a creator may be held up is the bound
`MaxStale`, beyond which a creation is not followed, and `LagBounded` says that it shows in the lag once, however many creators are held up.
`RunQueue`, its abstract specification, is the fairness that `Scheduler` assumes.

**RBTree.** One record holds root, links and colours as the C structure does; the
fixups are recursive operators in the shape of the C loops. `OrderedSet` is the
promise. The module has RECURSIVE operators and is only model-checked.
`RBTree_getNext` has no caller (and returns the wrong node when it climbs,
rbtree.c:278) and is left out.

**Buddy.** The zones, the free lists in their order, the parity bitmap and
the page headers. The loops that split and merge are given by what they have done when
they end. The abstract `PageAllocator` also says that a request is refused only if
no aligned free run of pages could serve it: splitting and merging lose nothing.
Calls are made by tasks. A frame is in the list of the task that allocated it, but `MM_Buddy_free` takes its pages from
the charge of the task that calls (buddy.c:233-235), and `MM_Buddy_divPageFrame` puts the right half in the caller's list.
So `FreeFrame` and `DivPageFrame` have the caller as a parameter; the ghost `foreign` notes the calls on another task's frame, of which a run allows
`MaxForeign`, and `UsageExact` says that they, and nothing else, put a charge out, by exactly their pages, modulo the
width of `totUsage`.

**Slab.** Two caches stand for the sixteen: one whose new slabs keep their
structures in the slab's own page and one whose slabs allocate theirs with
`kmalloc` in the other, so that the nested calls, and slabs destroyed by the
free of another slab's structures, happen. What the code loses is kept lost:
`MoveToFront` unlinks the other slabs when the root is chosen (SLAB.c:189), and
the scan steps over the first block after a full word (SLAB.c:199), after which
`kmalloc` gives NULL although `freeCnt` is not 0. A nested `kmalloc` that fails is
followed by a write through NULL (SLAB.c:142): the model stops there (`stuck`).

**SIMD.** Any number of processors, each with its registers, its trap bit and its `simdRegDomain`; a task stays on its own. Task structures are
names that a later task, on any processor, may have again; save areas are `kmalloc` blocks that others use as well. The trap is one step (interrupts
are off), `xsave` included: two processors that write the same block at once are not modelled byte by byte. A domain may name a
task that has exited. The registers are then saved (simd.c:70) to whatever its structure holds by now (`Target`: any block), which may be
the save area of a living task of another processor. The ghost `lost` has the tasks that lost their values in that way, or
because they had no save area when another took the registers (the first user of a processor gets none, simd.c:69, nor does a task that
has a dead owner's structure), until they compute again; `ValuesFound` is about all others.

**NVMe.** `InsReq` and `Return` are the tasks' side, `Interrupt`, `TakeReq`, `FinishReq`,
`HandlerEnd` the handler, which takes no lock, `Fetch` and `Complete` the controller,
external, which fetches what the doorbell announces and completes in any order. `insReq` admits
a request when the slot at the tail is free, so a queue can be filled whole before the
controller looks; tail and head are then equal, which means empty: those
requests are never answered (`Lapped`).

**XHCI.** Rings of TRBs with a link at the end and cycle bits; tasks put requests
(`TryInsReq`), ring and wait; the controller (`Follow`, `Execute`,
`Interrupt`, external) stops at a TRB that is not handed over, halts an endpoint on an
error and posts events; the message interrupt (`Drain`, `WriteDeqPtr`) moves events into the
queue under its lock and writes the dequeue pointer after it; the event task
(`GetEve`, `Release`, `Finish`) ends the requests. An insertion is one step: it runs under the ring's
lock, TRBs are handed over in order, and a controller that stops in the middle of a request
goes on at the doorbell that follows. A halted endpoint is never used again, as in the
code, where `HW_USB_XHCI_Ring_reset` has no caller. Port events, which pass through the same
queue, belong to `XHCIDevice`.

**XHCIDevice.** One level above `XHCI`: commands and events are queues, as `XHCI` shows
that requests are answered once and in order; transfers are a set. `Move` and `ResetDone` change a port and
tell it once per set change bit; the event task reads the port after it cleared the bits, and connects
(`PortConnect`), resets (`PortReset`) or disconnects (`PortDisconnect`, `SetSignal`: two reads of `mgrTask`).
A manager goes through the stages `enable`, `address` (under `addr0Lock`), `desc`, `eval`, `config` and
`driver`, in each asking and going on (`Answered`) or failing: unlock, `Unname`, `GiveUp`. A command is put on the ring in three steps,
with interrupts on: the lock of the ring is taken (`LockRing`), the TRB handed over, which the controller may execute at once (`Insert`), the lock released (`Unlock`).
The event task needs the same lock to release an entry (`GetCmdEve`); the ring of an endpoint has no other user (`AskTransfer`, one step). The signal handler
(`TakeInt`, `Disable`, `Clear`, `Exit`) starts on top of any of these steps. Its own insertion (`Disable`) waits for the lock, for ever if
the manager below it holds it. The code meets freed memory here, and
`FaultWindows` says in exactly which windows: a failed manager's device is still in `host->port`; `mgrTask` is cleared
between its two reads; a manager is interrupted while it waits for a slot; a late manager clears
`host->dev[]` under the slot's next owner. Each of the four is reached in the run. `ManagersGoOn` has the
exception of a holder of `addr0Lock` that was interrupted, after which no device is ever addressed (`LockLost`), and of a holder
of the ring's lock that was, after which no manager asks for anything (`RingLost`).

**PageTable.** A table is named by the space it was made for and the indexes that lead to it, as its
physical page does not matter; the tree is four levels, with one index below and one
above the kernel's line at the top, and two each below. `MM_PageTable_alloc` and `free` (`TakeTable`, `FreeTables`) keep a pool of frames, refilled from the buddy
allocator when it runs low; `pool` and `cacheSize` are its array and counter. `Map` walks and makes tables,
`CreatePgd` copies the kernel's half, `SyncCopy` (`Task_syncKrlPageTable`) copies it again when a task
has not seen it change. Stack growth is what a fault does. `UnmapKrlPage` does what the code does
until it faults for ever (below), and keeps the lock. When no table page can be had, `MM_PageTable_alloc` returns 0 with its lock kept (`oom`),
and its callers go on: `MM_PageTable_map` stores 0|7 (`Zero`) and walks on in physical page 0 (`Step`), of which the model knows the slots that are
not 0 (`page0`, at boot any of `Leftovers`); at a slot that is 0 it asks again, and spins (`Spin`), perhaps holding `Task_krlPgTblLock`. `CreatePgd` copies the
kernel's root over page 0 and queues a task that has page 0 for a root; stacks, copies and
the removal of a space do what the code then does. A slot of page 0 that is not 0 is taken to lead out of the tables: what is written there is
memory of somebody else, and no property is about it. While a task keeps `Task_krlPgTblLock` for ever, `CreatePgd` is left out whole; the code
takes a root table first and then waits. `AddressSpaces` says what remains: mapping an address changes
no other address, and no other space except through the kernel's half.

**Frames.** The stack is memory, word by word, one word for 8 bytes; registers hold tagged words that are
compared, never computed with. An interrupt or exception (`Irq`, `Fault(v)` for each vector) is the processor's delivery
(`Deliver`, external: which stack, by gate and level, and what is pushed), the stub and `saveAll`.
`HandlerReturns(t)` is `Intr_retFromIntr` with `Task_schedule`, which keeps the task or switches to `t`,
whose saved frame is what `restoreAll` takes. `Syscall`, `SyscallReturns` and `ToUser` are `Syscall_entry`, `Syscall_backToUsr` and
`Task_switchToUsr`. `open` is a ghost, with the registers at each entry, which the return is compared with.
No task at user level is created in this version (task/init.c:79 is a comment), but the way is there and is modelled.
`FramesRestored` excepts a task that faults in the kernel with its stack in use (section 5).

**Keyboard.** The count of bytes in the ring is loaded and stored in two accesses, as the makefile does not optimise,
so that each of the two sides may write over the other's change; the ring, head and tail belong to one side each. Lost puts
(`late`) only delay a byte; a lost take, or a byte put over one that waits, is `torn` and ends what is
promised. A code of two bytes takes two interrupts, and the task waits between them.

**Functions.** The rest is code that runs once, alone, on one input; `MCFunctions` has a state for every small input, and
the property is about the value computed. `BootMemory`, `HIDParse`, `DiskSetup`, `Screen`, `Processors`, `DriverStart` and
`KernelLib` each hold the functions in the code's order with a reference definition beside them:
the fields of a descriptor item by item (`HIDParse`, where the data of an item is a number in 1, 2 or 4 bytes
that the parser reads as a signed one, `GetItemData`), moving and clearing the whole of the screen (`Screen`),
sequences for lists, numbers read back from the digits (`KernelLib`). `DriverStart` extends `Processors`: drivers take vectors from the
table, and the properties follow a message from device to handler.

## 3. The runs

| run | instance | distinct states | shows |
| --- | --- | --- | --- |
| `sched_smp` | 2 processors, 2 init tasks, recycler, 3 tasks that may exit | 48 k | the safety properties of the task manager and, with fairness, `EventuallyRecycled` |
| `sched_smp_stack` | the same with one task less | (violation) | a stack is freed while its processor is on it |
| `cfs` | 3 tasks, slice 4, creators held up by 5 units | 0.26 M | `LagBounded`, and the refinement of `RunQueue` with its fairness |
| `rbtree` | 9 nodes | 4.7 k trees | links, colours, order, and the refinement of `OrderedSet` |
| `buddy` | 2 zones, 3 orders, shared frames, 2 tasks, one call on the other's frame, counts of 4 bits | 0.25 M | tiling, parity, charges, refinement of `PageAllocator` |
| `slab` | 2 caches, words of 2 bits, 4 pages | 51 k | one holder, counts |
| `simd` | 2 processors, 2 init tasks and one more, 2 blocks, 2 values, symmetric | 0.27 M | trap discipline and values |
| `nvme` | 2 tasks, 2 queues of 2, completion queue of 3 | 25 k | own result (with one request in a slot), answered unless lapped |
| `xhci` | 2 tasks, command ring of 1, endpoint ring of 3 with requests of 2, event ring of 3, queue of 3 | 0.37 M | one completion, which is its own, no dead TRB, every request is answered |
| `xhci_device` | a port, a slot, 3 devices, 3 events at the port | 0.27 M | slots keep their owners, faults only in known windows, signalled managers exit unless they held the ring's lock |
| `vm` | 2 tasks, 3 user and 4 kernel addresses in 4 levels, 8 pages to refill | 33 k | tables have one owner and the pool is exact, also when memory has run out; refinement of `AddressSpaces`, but for the step in which it does |
| `functions` | every input below, 2 tasks and 6 entries and returns, 4 bytes at the keyboard | 1.2 M (0.32 M inputs) | each computation is what its input says; registers restored; keys in order |

Why these bounds are enough. The scheduler's hazards need two processors (the
recycler's own and another), a task that creates, one that dies, and one more in the
same queue. In CFS each weight occurs with two others present, and a creator may be held up while a trapped task runs for a
tick, or others for several; the largest lag found is 12 without delay and 17 with one of 5, so the delay counts in full. One call on the other's frame suffices to take a count below 0, where it wraps; the effects of several only add up. With two
processors, one that holds a dead owner's registers and one where the owner's block is a living task's save area, both ways to lose
values in `simd` are reached. Nine nodes make
every case of insertion and deletion happen, with fixups that climb two levels. The
buddy zones have roots of one page and of four, the first is not aligned and the second above the 4 GB limit, so that merges stop at
roots and at zones' ends; three orders make splits and merges of two levels. Slabs of more than a word of
two bits have full and partly full words. All rings are so small that they wrap, with their
cycle or phase bit flipped, several times and in every position; a command ring of one entry shared
by two tasks is full again and again, and in `xhci` requests of two TRBs cross the link of a
ring of three at each place. Bounded by configuration: the sets of tasks, pages and blocks; in `XHCIDevice`, `Moves` and `MaxDevs`.
Three moves at one port make three managers at a time, of which one replaces another in the only slot; managers meet
in the lock, the slot and the command ring, whatever their ports.
With a queue as small as the events on their way, XHCI has two weaknesses (in the code, at 1024 events): the
slot of the event in hand is given back before it has been read (process.c:19), and a full queue
leaves the busy bit set, after which no interrupt comes (process.c:361); the run stays below, with a request per task and an event per request.

`functions`, by input: memory maps of up to four entries that start and end within pages, before and after the
kernel, with and without a terminating entry; report descriptors of three blocks out of those of mice, keyboards and others, with
counts and sizes of one byte above and below half of its range, the same in two bytes or with no data, a page of two bytes, a usage without fields; reports of 8 bits with every field;
disks of 70 and 90 sectors with up to four partitions, too small, at the first usable sector and behind the end; texts of up to six
characters on two lines of three; firmware lists of up to four processors of both types;
buses of two slots with two functions each of eleven kinds, with one or two processors. For `KernelLib` the
integer has 4 bits and the long 8: every conversion with every set of flags; areas of up to 17 bytes that overlap; all numbers of 8 bits;
lists of up to three of four elements. `Frames`: all 20 exceptions and any nesting of six steps with two tasks. In `Keyboard` a ring of
two and four bytes: it wraps twice in each position, fills and overflows, and a byte of a two-byte code
meets every step of the reader. A stack of 128 words is far larger than six frames; page tables have the kernel's and a
user's slot, boot's entry of 1 GB in the way, and addresses that share all tables, some and none.

Deadlock is checked where the system cannot stop (scheduler, CFS, tree, buddy, SIMD). The slab
model stops where the code would write through NULL or spin; in NVMe and XHCI all tasks may be
waiting for a lapped queue or have stopped after an error, as their callers do; in `XHCIDevice` no more may happen; in `vm` locks may be kept for ever;
in `functions` inputs have no next step, the entries and bytes are bounded, and the kernel stops the processor in most exception handlers.

Fairness. `Scheduler`: a processor goes on in its interrupt-off paths and timer ticks end
every slice (weak fairness); a task that waits is picked in the end (strong fairness,
what `cfs` shows of the accounting); the recycler, given the processor again and again, makes
a step between two ticks (strong). `CFS`: the HPET interrupts every processor for ever. `NVMe`
and `XHCI`: handlers run to their end, the event task goes on; the controllers
serve what they were told of and, as specifications demand of them, serve their queues in turn (strong fairness of
completing, which waits for room). In `XHCIDevice` the waiters of `addr0Lock` and of the ring's lock take turns (strong): the
holders of the first hold it for two commands, those of the second for a loop over a few TRBs; the steps of a manager and
of the event task, which are scheduled, and a pending signal, which `Task_schedule` looks for, follow (weak). No task is assumed to issue or to end a request.

## 4. The proofs

Each theorem holds for every value of the constants that the module's assumption admits; TLC evaluates
the assumptions and checked each inductive invariant on small instances before it was proved. Every proof
module has the same shape: the inductive invariant as a conjunction of named parts, lemmas about the operators
the model is built from, one lemma per action or group of actions that touch the same parts, and a
theorem for each property the runs check.

| module | assumed | theorems |
| --- | --- | --- |
| `SchedulerProofs` | finitely many processors, a home processor for each task; init tasks, recycler and first task are distinct | `Inductive`, `TypeCorrect`, `RecyclerNeverBlocksItself`, `FreedLate`, `OwnStackSafe`, `BurialIsFinal` (an action property), `InductivePlace`, `NeverLostNorTwice` (`OnePlace`), `InductiveCounts`, `CountersNeverDrift` (`CountersExact`) |
| `SlabProofs` | a word has a bit at least, a slab a block (`SlabAssumption`) | `InductiveSlabs`, `BlocksHaveOneHolder` (`OneHolder`), `CountsAreExact` (`CountsAgree`) |
| `CFSProofs` | pids are numbers, the quantum is at least 1 (`CFSAssumption`); any `MaxStale` | `Inductive`, `FairAccounting` (`LagBounded`), `RefinesRunQueue` |
| `SIMDProofs` | names are distinct, processors have init tasks of their own | `Inductive`, `OnlyOwnerComputes` (`UntrappedIsOwner`), `ValuesKept` (`ValuesFound`) |
| `NVMeProofs` | the rings' sizes (`NVMeAssumption`) | `Inductive`, `RequestGetsItsOwn` (`OwnResult`) |
| `XHCIProofs` | `XHCIAssumption`: a command is one TRB, the ring of an endpoint has one user; the event queue has an entry for every task (`QueueHolds`) | `Inductive`, `LiveTRBs` (`OnlyLiveTRBs`), `AliveRequests` (`RequestAlive`), `CompletionIsOne` (`OneCompletion`) |
| `XHCIDeviceProofs` | names are distinct, a slot is no completion code | `Inductive`, `SlotIsItsOwn` (`OneOwner`), `FaultsFourWays` (`FaultWindows`) |
| `PageTableProofs` | `PageTableAssumption`: the pool's first frame and its refills can be divided within the array, two pages at least are left when a refill is asked for, user and kernel addresses are in their halves | `PoolIsExact` (`PoolExact`), `TablesAreOwned` (`TablesOwned`), `AddressSpacesImplemented` (`ImplementsAddressSpaces`, which excepts the step in which memory runs out) |

**Scheduler.** None of the properties is inductive. `IInv` adds: a task only touches its
own processor's queue (`HomeInv`); who runs is not queued and was created (`RunInv`); the recycler never dies, and the
lock and `recycTskState` are what its program counter says (`RecyclerInv`), whose essential part is
that a processor at line 123 that is the recycler's own finds the recycler not announced: it tested
`recycTskState` with interrupts off, and the recycler cannot run in between; what is buried is killed, out of every
queue, and current only on the way out (`BuriedInv`). `PlaceInv` names the five places a living task can
be in, excludes each pair of them, and says that what the recycler found stays in the tree until it takes it out.
From it follows `OnePlace`, which counts the places. The counters are carried beside it: `taskNum` lags its queue by the
processors that are between the two lines of a creation or a burial (`TaskNumInv`), `killedTaskNum` the killed tree
likewise (`KilledNumInv`); that the sums change by one in each step is where the finite number of processors is needed.

**Slabs.** A call may push a slab or destroy one on its way, and those take and give blocks of the other cache, so the invariant must hold
inside a call, with a page in hand that is neither a slab nor the page allocator's (`Well(x, hand)`), and each helper of the model has one
lemma that says what it does to an allocator in such a state. Destroying a big slab, its two structures are first held by
nobody (`UnlinkBigOK`), so the two nested `kfree` are those of a client (`KfreeSmallOK`). What the
code loses stays in the invariant: a slab that left its ring still has its bitmap, its count and its page, and the counts of
its cache include it (`UsedOK`, `CacheCountsOK`), so the properties do not depend on rings being whole. A ring only needs to start with its root and to
have each slab once (`RingsOK`), or `List_del` of a slab would leave it in. The bitmap scan is a recursive function;
whatever bits it steps over, where it ends the block is free (`FreeBitOK`), and it ends within as many turns as there are
blocks (`ScanGoesOn`). The sum over the slabs of a cache is another, which changes with one slab (`FreeBelowOne`). (`SetInduction` and `RecursionDefines` are
proved in this module again, as it shares none with `PageTableProofs`.) Where the program is
stuck the counts are still exact (`Sound`), the holders are not claimed.

**CFS.** `LagBounded` bounds a difference, and a step of the accounting changes both of its sides. What is inductive is about the
slice, and about the largest that the smallest run time has ever been: a newcomer lowers the smallest, by `g`, which is at most `MaxStale`. Against that mark (`Against`) nobody is ahead by
more than a slice and a tick, and what the current task has run of its slice and what is left of it are together at most the slice it was given. The init task has reached the mark, so that a
creation that begins now reads no less, and those under way are at most `MaxStale` below it: this is why delays do not add up. A task is picked when its relative run time is 0, which is
what `Leftmost` (the comparator is a total order) and `Rebase` give. `RefinesRunQueue` is the safety part of `ImplementsRunQueue`: first states map to first
states, steps to steps. Its fairness is TLC's.

**SIMD.** The strengthening says that the save area of a living task is its own block and that every block a task has belongs to a living one (`AreasOwned`);
that nobody has computed on a processor whose registers never had an owner, and that a new task does not inherit the values of the
one whose structure it has (`UnusedAtFirst`); and that a processor runs a living task of its own (`Running`). Nothing is said of where the registers of a dead owner go: the block that is
written belongs to one task at most, which is then in `lost`, and to no other.

**NVMe.** The part of a ring between two of its indexes is a cyclic interval (`Span`), which grows at one end
and shrinks at the other. The entries not yet fetched are one, from the controller's head to the tail, unless the queue was filled whole
(`SubmissionRing`); the completions the handler has not read are another, and the phase bit tells them from those of the last round
(`Phases`, which needs the order of the three indexes, `CompletionRing`). Each command, in its slot, at work or completed, belongs to the request that its slot
holds, whose latest it is (`EntriesBelong`, `FlightBelongs`, `CompletionsBelong`), a slot is completed once (`CompletedOnce`), and
a request is in one slot, or in the handler's hands, until it is finished (`SlotsHold`, `HandHolds`).

**XHCI.** The entries that the controller has yet to execute are those between its index and the host's, and the cycle bits say so, with the
link included (`CycleBits`): an entry before `curPos` has the host's bit, one after it the other. Such an entry is occupied, and holds the TRB of the
request that occupies it (`Owned`), which is still waited for on this ring (`Occupied`); so what the cycle bit hands to the controller is live.
A request has its last TRB just behind `curPos`, or is one TRB (`OneLast`), and leaves with it: an event on its way, in one of the places event ring, queue and hand,
belongs to a request that is waited for and has nothing more for the controller (`EventsLive`); two events have two
requests (`Apart`), and who has no event has a last TRB ahead of the controller, on a ring that has not halted (`Answering`). After an error the ring is left as it is: its only
user gets a failure and stops (`Told`, `HaltedStops`). The event ring's bits are those of `NVMe`'s phases (`EventRing`): with them the loop of
`HW_USB_XHCI_msiHandler` takes exactly the events posted, and as no request has two, they fit into a queue with an entry for each task, the slot in hand
kept free (`TakenFits`, by counting). Without `QueueHolds` the properties are false, as section 3 says; the queue has 1024 entries, more than there are requests at a time.

**XHCIDevice.** What goes wrong at a port is decided by requests that are still on their way, so the invariant speaks of
commands and events in the queues: a manager has at most one request, in one of ring, transfers and events, and none while
it has a completion code (`OneRequest`); it fits the stage of the manager, and an enabled slot is the
device's already (`AnswersFit`). `DisableSlot` is a device's last command, behind its request in both queues, and the slot is the device's until the
controller executes it (`DisablesLast`). An event that gives the slot to its next owner comes behind the one that tells the old owner (`EnabledLater`), which
is why `host->dev[]` is only cleared late by a manager on its way out (`SlotsOwned`). `LockKept` ties requests before the slot is known to `addr0Lock`, and
`PortsNamed` says that a manager that was signalled by the event task is at no port. The lock of the ring needs no part of its own: a manager that is stopped with it has
either not put its command on the ring or has (`Asked`), and both theorems hold whether anybody goes on or not.

**PageTable.** The invariant has a part for the pages and one for the trees (`MemInv`), and says which tasks have a root (`StageInv`). The pool's array has
room for the right halves of each frame, and the frames up to any place have a page for each (`GoodPool`), so that dividing the last one never runs over, and a refill comes before the
pool is empty; the number of its pages is a sum computed by recursion, of which `PoolAppend`, `PoolDivide` and `PoolZeros` say how it
changes, and `AllPages` (tables, pool, buddy allocator) never does. Trees: an entry leads only to the table named for it, or from a task's upper half
to the kernel's, or to none (`RootEntries`, `InnerEntries`), a last entry to no table (`LastEntries`), and each table has a parent (`Parents`).
By names, then, a space's tables are those found from its root (`OwnTablesAre`, `KernelTablesAre`), which is `TablesOwned` and what `cleanMap` frees;
and two addresses share the last entry only if they are equal (`WalkName`). A new table, empty, changes no mapping (`LinkMaps`), a written last
entry that of one address (`WriteMaps`): with these each step is one of `AddressSpaces`, or none. The library's induction
theorems cannot be used, but their instance for sets of numbers can be proved: `SetInduction`, as `<` is well-founded. With it `RecursionDefines`
gives the equations of the two recursive functions. When no page is left an entry is `Zero`, which leads to no table (`RootEntries`, `InnerEntries` and `LastEntries` allow it) and
is in no tree before (`NoZero`); `ZeroTrees` says that putting it there leaves the trees as they are, `MapZero` that a walk from page 0 touches no table. A task may then have
no root (`StageInv`), and all that it does from there leaves every view but its own, which is empty, alone.

What stays with TLC, and why: liveness (`EventuallyRecycled`, the fairness in `ImplementsRunQueue`, `AnsweredUnlessLapped`,
`Answered`, `ManagersGoOn`), which the provers cannot do; `RBTree` and `KernelLib`, whose recursive operators are out of their reach, and with
them the values computed in `MCFunctions`; `Buddy`, whose frames are defined by folds and halves of powers of two; `Keyboard`, whose `KeysRead` compares sequences computed by a fold and by sorting;
and `Frames`, which is within reach if registers are pushed by a function instead of a fold, and not yet proved.

## 5. Where the code is weak

Found by a run: `sched_smp_stack`: `Task_schedule` sets `InKillTree` (mgr.c:125) while the processor is still on the stack
that the recycler of another processor may now free; a comment at mgr.h:109 has the task wait to be recycled. `Scheduler` goes on as if the freed
block stayed intact, so that the other properties can be stated.

In the models, which do as the code does, with properties that except the case (its ghost in brackets):

* Slabs: choosing a root unlinks the other slabs of its ring (SLAB.c:189), so that `kfree` of one of their blocks spins for
  ever; the scan steps over a free block (SLAB.c:199).
* SIMD: a dead task stays the owner of the registers, which are saved into its freed block (simd.c:70), which may be a living task's save area by then
  (`lost`), or memory of anything else, of which nothing is claimed. The first task to use the registers of a processor gets no save area (simd.c:69): when it traps
  again after another task, it goes on with that one's values (`lost`), where a comment promises it its own (simd.c:65).
* XHCI: an insertion holds the ring's lock with interrupts on (api.c:114-153). A manager that is signalled there runs its handler on top,
  which inserts too and waits for the lock for ever; the event task and all other managers then wait with it (`RingLost`).
* Creation: `Task_createTask` says that it failed when it gets no root table (mgr.c:348), frees the task's stack and goes on; the task is
  queued with page 0 for a root, over which the kernel's root was copied (`page0`).
* CFS: a creator that is held up between the read and the insertion (mgr.c:377-380) inserts a task that is behind by all that the others ran meanwhile (`MaxStale`), and that then runs first.
* Buddy: a free or a division by another task than the owner puts the charges of both out (`foreign`, buddy.c:233-235).
* NVMe: queues may be filled whole (`Lapped`). XHCI: the manager's windows (`FaultWindows`); `addr0Lock` kept by an interrupted
  holder (`LockLost`); a full event queue leaves the busy bit set.
* Page tables: unmapping a kernel page removes the entry and then reads a table at its physical address,
  which no table maps (pgtable.c:163-187): a page fault without end, with the lock held (`krlHeld`). A table page that cannot be had
  keeps its lock, and page 0 takes the place of the table (`Zero`, pgtable.c:136-143). A new slot of the kernel's root does not reach existing tasks, in which the kernel then faults.
  The start of an NVMe without interrupt messages unmaps its registers (NVMe/process.c:121), if they were mapped, and so never ends.
* Boot: a zone with room for one bitmap but not for all is overrun (`Overrun`); entries smaller than a page and machines of less than
  128 MB stop the kernel; `MM_Buddy_init` leaves the first zone out; a test of alignment multiplies
  where it should mask (pgtable.c:119).
* HID: the data of every item is read as a signed number (parse.c:9-23), so that a count or a size of one byte from 0x80 on is negative and
  the report asked for too short (`CountsKept`); a usage with a count of 0 takes a field all the same (`Filled`); of a page of two bytes only the low one is kept;
  the byte of a report number is not counted (parse.c:192), a device that is both mouse and keyboard shares memory between
  its fields, usages and keys are stored without a bound, a long item returns with a lock held (242-243).
* Disks: every partition found is formatted at each boot; the update of the table uses a byte offset for a sector and
  hits the first usable sector (gpt/api.c:104). Write results are ignored.
* Screen: after a backspace out of a line, `clearScreen` clears too little, and a character may be drawn above the screen.
* Drivers: an XHCI with fewer MSI vectors than interrupters gets event tasks without events (XHCI/process.c:307); a message of
  several vectors is not aligned; a start that fails later leaks its vectors; `freeIntrVec` has no caller.
* Entry: every gate of an exception names the second stack of the TSS, which is the top of the task's own kernel stack
  (mgr.c:316): a fault in the kernel, within a call or a system call, is put over the frames that are there (`hit`). `rbx` is lost
  across a system call (switch.S:82-85), which `Task_Syscall_usrAPI` does not declare. The index of a system call is not checked (syscall.c:54).
  Only device not available and a page fault that can be served come back: a division by zero waits with
  interrupts on, and all others stop the processor, in user tasks too.
* Keyboard: a count that is lost (`torn`, `late`), a ring that overflows; a code not known after 0xE0 leaves the key
  of a new block (keyboard.c:84).
* `sprintf`: `+` prints no plus, and makes an unsigned long negative; the mark `0x` stands before blanks; octal `#` of 0 gives 00; `h`, `j`, `z` and `t` read
  an int; a negative precision from the arguments is 0; a directive that ends the format reads past it. The buffer has
  512 bytes and no bound. (The last two are not in the model.)

Noticed, not modelled: `_getEvePtr` masks interrupts only on the processor of message 0 (process.c:11), so a second
interrupter on another processor could block itself; an Input or Output item without data takes its flags from the next item (parse.c:154), and
a keyboard with more than seven keys in a block writes past its fields; `read` and `write` of NVMe toggle the queue number without
a lock, which is harmless.

## 6. What is left

Next: the proof of `Frames` (`FramesRestored`), with registers pushed by a function instead of a fold.
The private blocks of a task (`_addUsage`, SLAB.c) are the part of an operation that is still missing.

Not modelled, and why:

* soft interrupts, timers, task timers: no code sets a bit of the soft interrupt state, so they never run;
* JRFS beyond `mkfs`: no caller mounts a file system, and the caches, page groups and directories start from a root entry that is
  never written; `_writeBlkBm` and `_writePgDesc` read where they should write, `_getBmCache` searches the other cache,
  the caches are never filled: no property could be stated that the code keeps;
* UHCI (its detection is inverted), APIC, HPET, UEFI tables, CPU features: register access and table walks;
* the start of the other processors and interprocessor messages, whose content nobody reads;
* boot loader, tools: assembly and host programs of the build; ext4: declarations only.
