----------------------------- MODULE XHCIDevice -----------------------------
(***************************************************************************)
(* Devices that come and go at the ports of an XHCI host: the event task   *)
(* answers port events, a manager task per device enables a slot for it,   *)
(* addresses it under addr0Lock, sets it up and hands it to a driver; the  *)
(* signal Int makes the manager give the slot back and exit, in whatever   *)
(* it was doing.  Module XHCI shows that every request is answered once    *)
(* and in order; here commands and events are queues, transfers a set.     *)
(* The memory of a device and the task of its manager are used once.       *)
(* The lock of the command ring is held with interrupts on, so that the    *)
(* signal may come while its manager holds it; a transfer ring is used by  *)
(* one manager, and nothing is told of a request whose insertion the       *)
(* signal has cut off, because its doorbell is not rung: its lock is left  *)
(* out.                                                                    *)
(***************************************************************************)
EXTENDS Naturals, Sequences, FiniteSets

CONSTANTS
  Ports,
  MaxDevs,   \* bound: the devices made, numbered as they are
  Slots,
  Moves,     \* bound: how often something happens at the ports
  None

ASSUME XHCIDeviceAssumption ==
  /\ MaxDevs \in Nat /\ Moves \in 0..MaxDevs
  /\ None \notin Ports \cup Slots \cup (1..MaxDevs)
  /\ {"ok", "failed"} \cap (Slots \cup {None}) = {}   \* a completion is no slot

VARIABLES
  plug,     \* per port, "empty", "off" (connected), "reset" or "on" (enabled)
  changed,  \* ports whose change bits are set
  moves,    \* what is left of Moves
  eves,     \* the events on their way to the event task
  cmds,     \* the commands on the ring
  xfer,     \* devices with a transfer on one of their rings
  owner,    \* per slot, the device the controller enabled it for
  port,     \* host->port[].dev
  entry,    \* host->dev[]
  lock,     \* addr0Lock
  ring,     \* host->cmdRing->lock, and who holds it
  epc, eport, edev,  \* the event task, its port and its device
  made,     \* the number of devices made
  at,       \* per device, its port
  slotId, mgrTask,   \* dev->slotId, devices whose mgrTask is set
  signal,   \* managers with Int pending
  pc, stage,         \* per manager
  res,      \* per manager, the completion code of its request
  disabled  \* managers whose DisableSlot is finished

ctrl == <<plug, changed, moves, owner>>
etsk == <<epc, eport, edev>>
host == <<port, made, at, ring>>
names == <<slotId, mgrTask>>
dev  == <<names, signal, pc, stage>>
flow == <<eves, cmds, xfer>>
answ == <<res, disabled>>
vars == <<ctrl, flow, entry, lock, etsk, host, dev, answ>>

Devs == 1..MaxDevs

Init ==
  /\ plug = [p \in Ports |-> "empty"] /\ changed = {} /\ moves = Moves
  /\ eves = <<>> /\ cmds = <<>> /\ xfer = {} /\ owner = [s \in Slots |-> None]
  /\ port = [p \in Ports |-> None] /\ entry = [s \in Slots |-> None] /\ lock = None
  /\ ring = None /\ epc = "get" /\ eport = None /\ edev = None
  /\ made = 0 /\ at = [d \in Devs |-> None]
  /\ slotId = [d \in Devs |-> None] /\ mgrTask = {} /\ signal = {}
  /\ pc = [d \in Devs |-> "none"] /\ stage = [d \in Devs |-> "enable"]
  /\ res = [d \in Devs |-> None] /\ disabled = {}

-----------------------------------------------------------------------------
(* The ports and the controller                                             *)

PortEve(p) == [type |-> "port", port |-> p]
CmdEve(c, ok, s) ==
  [type |-> "cmd", kind |-> c.kind, dev |-> c.dev, ok |-> ok, slot |-> s]
TransEve(d, ok) == [type |-> "trans", dev |-> d, slot |-> slotId[d], ok |-> ok]

(* the first change since the bits were cleared is told                     *)
Tell(p) ==
  /\ changed' = changed \cup {p}
  /\ eves' = IF p \in changed THEN eves ELSE Append(eves, PortEve(p))

(* Somebody plugs a device in or out; ports that train their link by        *)
(* themselves are enabled at once.  Other changes are told as well.         *)
Move(p) ==
  /\ moves > 0 /\ moves' = moves - 1
  /\ \/ plug[p] = "empty" /\ plug' \in {[plug EXCEPT ![p] = to] : to \in {"off", "on"}}
     \/ plug[p] # "empty" /\ plug' = [plug EXCEPT ![p] = "empty"]
     \/ plug[p] = "on" /\ UNCHANGED plug
  /\ Tell(p)
  /\ UNCHANGED <<owner, cmds, xfer, entry, lock, etsk, host, dev, answ>>

ResetDone(p) ==
  /\ plug[p] = "reset" /\ plug' = [plug EXCEPT ![p] = "on"]
  /\ Tell(p)
  /\ UNCHANGED <<moves, owner, cmds, xfer, entry, lock, etsk, host, dev, answ>>

(* Any command but DisableSlot may fail; addressing needs the device.       *)
Command ==
  /\ cmds # <<>> /\ cmds' = Tail(cmds)
  /\ LET c == Head(cmds) IN
     \/ /\ c.kind = "disable"
        /\ owner' = [owner EXCEPT ![slotId[c.dev]] = None]
        /\ xfer' = xfer \ {c.dev}
        /\ eves' = Append(eves, CmdEve(c, TRUE, None))
     \/ /\ c.kind # "disable"
        /\ eves' = Append(eves, CmdEve(c, FALSE, None)) /\ UNCHANGED <<owner, xfer>>
     \/ /\ c.kind = "enable"
        /\ \E s \in Slots : /\ owner[s] = None /\ owner' = [owner EXCEPT ![s] = c.dev]
                            /\ eves' = Append(eves, CmdEve(c, TRUE, s))
        /\ UNCHANGED xfer
     \/ /\ c.kind \notin {"enable", "disable"}
        /\ c.kind = "address" => plug[at[c.dev]] = "on"
        /\ eves' = Append(eves, CmdEve(c, TRUE, None)) /\ UNCHANGED <<owner, xfer>>
  /\ UNCHANGED <<plug, changed, moves, entry, lock, etsk, host, dev, answ>>

Transfer(d) ==
  /\ d \in xfer /\ xfer' = xfer \ {d}
  /\ \E ok \in BOOLEAN : /\ ok => plug[at[d]] = "on"
                         /\ eves' = Append(eves, TransEve(d, ok))
  /\ UNCHANGED <<ctrl, cmds, entry, lock, etsk, host, dev, answ>>

-----------------------------------------------------------------------------
(* HW_USB_XHCI_eveHandleTask.  A fault: the code would use memory that is   *)
(* no longer what it takes it for.                                          *)
Faults == {"portFault", "signalFault", "reqFault", "entryFault"}

(* the change bits are cleared, and the state is read after that            *)
GetPortEve ==
  /\ epc = "get" /\ eves # <<>> /\ Head(eves).type = "port"
  /\ LET p == Head(eves).port IN
       changed' = changed \ {p} /\ epc' = "port" /\ eport' = p
  /\ eves' = Tail(eves)
  /\ UNCHANGED <<plug, moves, owner, cmds, xfer, entry, lock, edev, host, dev, answ>>

(* HW_USB_XHCI_portConnect does not look for a device that is there.        *)
PortConnect ==
  /\ epc = "port" /\ plug[eport] = "on" /\ made < MaxDevs
  /\ made' = made + 1
  /\ port' = [port EXCEPT ![eport] = made'] /\ at' = [at EXCEPT ![made'] = eport]
  /\ pc' = [pc EXCEPT ![made'] = "start"]
  /\ epc' = "get" /\ eport' = None
  /\ UNCHANGED <<ctrl, flow, entry, lock, ring, edev, names, signal, stage, answ>>

(* the same write clears the change bits again                              *)
PortReset ==
  /\ epc = "port" /\ plug[eport] \in {"off", "reset"}
  /\ plug' = [plug EXCEPT ![eport] = "reset"] /\ changed' = changed \ {eport}
  /\ epc' = "get" /\ eport' = None
  /\ UNCHANGED <<moves, owner, flow, entry, lock, edev, host, dev, answ>>

(* HW_USB_XHCI_portDisconnect, up to its test of dev->mgrTask               *)
PortDisconnect ==
  /\ epc = "port" /\ plug[eport] = "empty"
  /\ port' = [port EXCEPT ![eport] = None] /\ eport' = None
  /\ LET d == port[eport]
         to == IF d = None THEN "get" ELSE IF pc[d] = "gone" THEN "portFault"
               ELSE IF d \in mgrTask THEN "signal" ELSE "get"
     IN epc' = to /\ edev' = IF to = "get" THEN None ELSE d
  /\ UNCHANGED <<ctrl, flow, entry, lock, ring, made, at, dev, answ>>

(* dev->mgrTask is read again to set the signal                             *)
ReadAgain(d) == d \in mgrTask /\ pc[d] # "gone"

SetSignal ==
  /\ epc = "signal"
  /\ IF ReadAgain(edev)
     THEN signal' = signal \cup {edev} /\ epc' = "get" /\ edev' = None
     ELSE epc' = "signalFault" /\ UNCHANGED <<signal, edev>>
  /\ UNCHANGED <<ctrl, flow, entry, lock, eport, host, names, pc, stage, answ>>

Answer(e) == IF e.ok THEN (IF e.slot = None THEN "ok" ELSE e.slot) ELSE "failed"

(* HW_USB_XHCI_Ring_release takes the lock of the ring                      *)
GetCmdEve ==
  /\ epc = "get" /\ eves # <<>> /\ Head(eves).type = "cmd" /\ eves' = Tail(eves)
  /\ ring = None
  /\ LET e == Head(eves) IN
     IF pc[e.dev] = "gone"
     THEN epc' = "reqFault" /\ edev' = e.dev /\ UNCHANGED answ
     ELSE /\ \/ /\ e.kind = "disable"
                /\ disabled' = disabled \cup {e.dev} /\ UNCHANGED res
             \/ /\ e.kind # "disable"
                /\ res' = [res EXCEPT ![e.dev] = Answer(e)] /\ UNCHANGED disabled
          /\ UNCHANGED <<epc, edev>>
  /\ UNCHANGED <<ctrl, cmds, xfer, entry, lock, eport, host, dev>>

(* the request is found through host->dev[]                                 *)
GetTransEve ==
  /\ epc = "get" /\ eves # <<>> /\ Head(eves).type = "trans" /\ eves' = Tail(eves)
  /\ LET e == Head(eves) IN
     IF entry[e.slot] = e.dev /\ pc[e.dev] # "gone"
     THEN /\ res' = [res EXCEPT ![e.dev] = IF e.ok THEN "ok" ELSE "failed"]
          /\ UNCHANGED <<epc, edev>>
     ELSE /\ epc' = IF pc[e.dev] = "gone" THEN "reqFault" ELSE "entryFault"
          /\ edev' = e.dev /\ UNCHANGED res
  /\ UNCHANGED <<ctrl, cmds, xfer, entry, lock, eport, host, dev, disabled>>

-----------------------------------------------------------------------------
(* HW_USB_XHCI_devMgrTask                                                   *)

Goto(d, to) == pc' = [pc EXCEPT ![d] = to]

(* addr0Lock is taken and mgrTask set; before, nobody can signal            *)
Begin(d) ==
  /\ pc[d] = "start" /\ lock = None
  /\ lock' = d /\ mgrTask' = mgrTask \cup {d} /\ Goto(d, "ask")
  /\ UNCHANGED <<ctrl, flow, entry, etsk, host, slotId, signal, stage, answ>>

(* The stages of a manager: what each asks for, and what follows.  "config" *)
(* stands for the full descriptors, "driver" for HW_USB_HID_process.        *)
ByCommand == {"enable", "address", "eval", "driver"}
ByTransfer == {"desc", "config", "driver"}
After(st) ==
  CASE st = "enable"  -> {"address"}
    [] st = "address" -> {"desc"}
    [] st = "desc"    -> {"eval"}
    [] st = "eval"    -> {"config"}
    [] st = "config"  -> {"config", "driver"}
    [] st = "driver"  -> {"driver"}
Addressing == {"enable", "address"}

(* HW_USB_XHCI_Ring_tryInsReq spins on the lock of the ring; that of an     *)
(* endpoint is free.                                                        *)
LockRing(d) ==
  /\ pc[d] = "ask" /\ stage[d] \in ByCommand /\ Goto(d, "insert")
  /\ ring = None /\ ring' = d
  /\ UNCHANGED <<ctrl, flow, entry, lock, etsk, port, made, at, names, signal, stage, answ>>

AskTransfer(d) ==
  /\ pc[d] = "ask" /\ stage[d] \in ByTransfer /\ Goto(d, "wait")
  /\ xfer' = xfer \cup {d}
  /\ UNCHANGED <<ctrl, eves, cmds, entry, lock, etsk, host, names, signal, stage, answ>>

Ask(d) == LockRing(d) \/ AskTransfer(d)

(* the controller may find the TRB before the lock is released              *)
Insert(d) ==
  /\ pc[d] = "insert" /\ Goto(d, "inserted")
  /\ cmds' = Append(cmds, [kind |-> stage[d], dev |-> d])
  /\ UNCHANGED <<ctrl, eves, xfer, entry, lock, etsk, host, names, signal, stage, answ>>

Unlock(d) ==
  /\ pc[d] = "inserted" /\ Goto(d, "wait") /\ ring' = None
  /\ UNCHANGED <<ctrl, flow, entry, lock, etsk, port, made, at, names, signal, stage, answ>>

(* The lock is kept from the one command to the other; a driver may ignore  *)
(* a failure (HW_USB_HID_setReport).                                        *)
UnlocksAtEnd(d) == stage[d] = "address"   \* a faulty variant: an error path forgets it
Unlocks(d) == stage[d] = "address" \/ (stage[d] = "enable" /\ res[d] = "failed")

SlotUnsaved(d) == entry       \* a faulty variant
SlotSaved(d) == [entry EXCEPT ![res[d]] = d]

Answered(d) ==
  /\ pc[d] = "wait" /\ res[d] # None
  /\ res' = [res EXCEPT ![d] = None]
  /\ lock' = IF Unlocks(d) THEN None ELSE lock
  /\ \/ /\ res[d] # "failed" /\ Goto(d, "ask")
        /\ \E st \in After(stage[d]) : stage' = [stage EXCEPT ![d] = st]
        /\ IF stage[d] = "enable"
           THEN slotId' = [slotId EXCEPT ![d] = res[d]] /\ entry' = SlotSaved(d)
           ELSE UNCHANGED <<slotId, entry>>
     \/ /\ res[d] = "failed" /\ Goto(d, IF stage[d] = "driver" THEN "halt" ELSE "unname")
        /\ UNCHANGED <<stage, slotId, entry>>
     \/ /\ res[d] = "failed" /\ stage[d] = "driver" /\ Goto(d, "ask")
        /\ UNCHANGED <<stage, slotId, entry>>
  /\ UNCHANGED <<ctrl, flow, etsk, host, mgrTask, signal, disabled>>

(* A manager that failed clears mgrTask and signals itself.                 *)
Unname(d) ==
  /\ pc[d] = "unname" /\ mgrTask' = mgrTask \ {d} /\ Goto(d, "giveUp")
  /\ UNCHANGED <<ctrl, flow, entry, lock, etsk, host, slotId, signal, stage, answ>>

GiveUp(d) ==
  /\ pc[d] = "giveUp" /\ signal' = signal \cup {d} /\ Goto(d, "halt")
  /\ UNCHANGED <<ctrl, flow, entry, lock, etsk, host, names, stage, answ>>

-----------------------------------------------------------------------------
(* HW_USB_XHCI_devMgrTask_int, called by Task_schedule on top of whatever   *)
(* the manager was doing; it does not come back.  HID has no callbacks.     *)

Interruptible == {"ask", "insert", "inserted", "wait", "unname", "giveUp", "halt"}

TakeInt(d) ==
  /\ d \in signal /\ pc[d] \in Interruptible
  /\ signal' = signal \ {d}
  /\ Goto(d, IF slotId[d] = None THEN "exit" ELSE "disable")
  /\ UNCHANGED <<ctrl, flow, entry, lock, etsk, host, names, stage, answ>>

HandlerAsksOnly(d) == "exit"   \* a faulty variant: does not wait
HandlerWaits(d) == "disableWait"

(* the handler inserts its own request, if its manager does not hold the    *)
(* lock; nothing interrupts it, so that inserting is one step               *)
Disable(d) ==
  /\ pc[d] = "disable" /\ ring = None
  /\ cmds' = Append(cmds, [kind |-> "disable", dev |-> d])
  /\ Goto(d, HandlerWaits(d))
  /\ UNCHANGED <<ctrl, eves, xfer, entry, lock, etsk, host, names, signal, stage, answ>>

Clear(d) ==
  /\ pc[d] = "disableWait" /\ d \in disabled
  /\ entry' = [entry EXCEPT ![slotId[d]] = None] /\ Goto(d, "exit")
  /\ UNCHANGED <<ctrl, flow, lock, etsk, host, names, signal, stage, answ>>

(* the device is freed, and with the task its requests                      *)
Exit(d) ==
  /\ pc[d] = "exit" /\ Goto(d, "gone")
  /\ UNCHANGED <<ctrl, flow, entry, lock, etsk, host, names, signal, stage, answ>>

-----------------------------------------------------------------------------

EventTask == \/ GetPortEve \/ PortConnect \/ PortReset \/ PortDisconnect \/ SetSignal
             \/ GetCmdEve \/ GetTransEve
Manager(d) == \/ Begin(d) \/ Ask(d) \/ Insert(d) \/ Unlock(d) \/ Answered(d)
              \/ Unname(d) \/ GiveUp(d)
              \/ TakeInt(d) \/ Disable(d) \/ Clear(d) \/ Exit(d)
(* Nothing is said of what follows a fault: no step is taken.               *)
Next == /\ epc \notin Faults
        /\ \/ \E p \in Ports : Move(p) \/ ResetDone(p)
           \/ Command \/ EventTask
           \/ \E d \in Devs : Transfer(d) \/ Manager(d)

(* Tasks are scheduled and a lock's waiters take turns; the controller      *)
(* executes commands.  Drivers, transfers and people need not go on.  The   *)
(* steps of a manager follow one another, but for TakeInt.                  *)
WaitForLock(d) == Begin(d) \/ (stage[d] \in Addressing /\ Ask(d)) \/ Disable(d)
GoOn(d) == \/ Insert(d) \/ Unlock(d) \/ Answered(d) \/ Unname(d) \/ GiveUp(d)
           \/ Clear(d) \/ Exit(d)
Fairness ==
  /\ WF_vars(EventTask) /\ WF_vars(Command)
  /\ \A d \in Devs : SF_vars(WaitForLock(d)) /\ WF_vars(GoOn(d)) /\ WF_vars(TakeInt(d))

Spec == Init /\ [][Next]_vars /\ Fairness

-----------------------------------------------------------------------------

TypeOK ==
  /\ plug \in [Ports -> {"empty", "off", "reset", "on"}] /\ changed \subseteq Ports
  /\ port \in [Ports -> Devs \cup {None}] /\ entry \in [Slots -> Devs \cup {None}]
  /\ owner \in [Slots -> Devs \cup {None}] /\ lock \in Devs \cup {None}
  /\ ring \in Devs \cup {None}
  /\ epc \in {"get", "port", "signal"} \cup Faults
  /\ slotId \in [Devs -> Slots \cup {None}] /\ mgrTask \subseteq 1..made
  /\ signal \subseteq {d \in Devs : pc[d] \in Interruptible}
  /\ pc \in [Devs -> Interruptible \cup {"none", "start", "disable", "disableWait", "exit",
                                       "gone"}]

(* The slot of a manager stays its own until it gives it back, and          *)
(* host->dev[] points to it, unless a manager that had the slot before is   *)
(* late to clear the entry (process.c:451).  The variables keep their types. *)
OneOwner ==
  /\ TypeOK
  /\ \A d \in Devs : slotId[d] # None /\ pc[d] \in Interruptible \cup {"disable"} =>
       /\ owner[slotId[d]] = d
       /\ \/ entry[slotId[d]] = d
          \/ \E e \in Devs \ {d} : slotId[e] = slotId[d] /\ pc[e] \in {"exit", "gone"}

(* The event task meets what is gone in four windows only: the port's       *)
(* device freed itself after an error; it cleared mgrTask between the two   *)
(* reads; the manager was interrupted while it waited for its slot; an      *)
(* earlier owner of the slot cleared the entry.                             *)
FaultWindows ==
  /\ epc \in {"portFault", "signalFault"} => edev \notin mgrTask
  /\ epc = "reqFault" => slotId[edev] = None /\ lock = edev
  /\ epc = "entryFault" =>
       \E e \in Devs \ {edev} : slotId[e] = slotId[edev] /\ pc[e] \in {"exit", "gone"}

(* A manager that is signalled exits, and one that waits for addr0Lock gets *)
(* it, unless the holder was interrupted (process.c:460), the event task is *)
(* lost, or a manager was interrupted while it held the lock of the command *)
(* ring (api.c:114-153), for which its handler, the event task and all the  *)
(* others then spin.  A holder of addr0Lock that failed by itself has       *)
(* cleared mgrTask.  (There are finitely many managers, each of which waits *)
(* at most a few times, so that each goes on exactly when again and again   *)
(* none waits.)                                                             *)
LockLost == lock \in mgrTask /\ pc[lock] \notin Interruptible
RingLost == ring # None /\ pc[ring] \notin {"insert", "inserted"}
Waiting(d) == \/ d \in signal \/ pc[d] \in {"disable", "disableWait", "exit"}
              \/ pc[d] = "start" /\ ~LockLost
ManagersGoOn == []<>(RingLost \/ epc \in Faults \/ \A d \in Devs : ~Waiting(d))
=============================================================================
