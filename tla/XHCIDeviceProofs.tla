-------------------------- MODULE XHCIDeviceProofs --------------------------
(***************************************************************************)
(* Proofs about XHCIDevice, for any ports, slots and number of devices: a  *)
(* manager's slot is its own, and what the event task finds gone is gone   *)
(* in one of four ways.                                                    *)
(***************************************************************************)
EXTENDS XHCIDevice, TLAPS

Stages   == ByCommand \cup ByTransfer
Commands == [kind : Stages \cup {"disable"}, dev : Devs]
Answers  == Slots \cup {"ok", "failed"}
PortEves == [type : {"port"}, port : Ports]
CmdEves  == [type : {"cmd"}, kind : Stages \cup {"disable"}, dev : Devs, ok : BOOLEAN,
             slot : Slots \cup {None}]
TransEves == [type : {"trans"}, dev : Devs, slot : Slots, ok : BOOLEAN]
Eves     == PortEves \cup CmdEves \cup TransEves

(* Where a manager may be: anywhere, where it has asked for something and   *)
(* has not heard of it, and where it is told to exit.                       *)
Handler == {"disable", "disableWait", "exit", "gone"}
Asked   == {"inserted", "wait"} \cup Handler
Places  == Interruptible \cup Handler \cup {"none", "start"}
USE DEF Handler, Asked, Places

Types ==
  /\ TypeOK
  /\ eves \in Seq(Eves) /\ cmds \in Seq(Commands) /\ xfer \subseteq Devs
  /\ made \in 0..MaxDevs /\ at \in [Devs -> Ports \cup {None}]
  /\ stage \in [Devs -> Stages] /\ res \in [Devs -> Answers \cup {None}]
  /\ disabled \subseteq Devs
  /\ (epc = "port" => eport \in Ports) /\ (epc = "signal" => edev \in Devs)

(* Where the requests of a manager and its DisableSlot are on the command   *)
(* ring, and where their answers are among the events.                      *)
IsReq(e) == e.type = "trans" \/ (e.type = "cmd" /\ e.kind # "disable")
IsDis(e) == e.type = "cmd" /\ e.kind = "disable"
ReqCmds(d) == {i \in 1..Len(cmds) : cmds[i].kind # "disable" /\ cmds[i].dev = d}
DisCmds(d) == {i \in 1..Len(cmds) : cmds[i].kind = "disable" /\ cmds[i].dev = d}
ReqEves(d) == {i \in 1..Len(eves) : IsReq(eves[i]) /\ eves[i].dev = d}
DisEves(d) == {i \in 1..Len(eves) : IsDis(eves[i]) /\ eves[i].dev = d}
Enabled(i, s) ==
  eves[i].type = "cmd" /\ eves[i].kind = "enable" /\ eves[i].ok /\ eves[i].slot = s
Pending(d) == ReqCmds(d) # {} \/ ReqEves(d) # {} \/ d \in xfer

(* A device's manager starts with nothing; it has a slot once it has been   *)
(* enabled.                                                                 *)
Beginnings ==
  \A d \in Devs :
    /\ pc[d] = "none" <=> d > made
    /\ pc[d] \in {"none", "start"} => slotId[d] = None /\ d \notin mgrTask
    /\ pc[d] \in {"none", "start", "ask", "insert"} => res[d] = None
    /\ slotId[d] = None <=> stage[d] = "enable"
    /\ pc[d] = "disable" => slotId[d] # None

(* A manager has one request at a time, known in one place, and a manager   *)
(* that is interrupted leaves it there.                                     *)
OneRequest ==
  \A d \in Devs :
    /\ \A i, j \in ReqCmds(d) : i = j
    /\ \A i, j \in ReqEves(d) : i = j
    /\ ReqCmds(d) = {} \/ ReqEves(d) = {}
    /\ d \in xfer => ReqCmds(d) = {} /\ ReqEves(d) = {}
    /\ Pending(d) => res[d] = None /\ pc[d] \in Asked

(* A request and its answer belong to the stage the manager is in; the slot *)
(* that is answered is enabled for the device.                              *)
AnswersFit ==
  \A d \in Devs :
    /\ \A i \in ReqCmds(d) : cmds[i].kind = stage[d]
    /\ d \in xfer => stage[d] # "enable"
    /\ \A i \in ReqEves(d) :
         IF eves[i].type = "trans" THEN stage[d] # "enable" /\ eves[i].slot = slotId[d]
         ELSE /\ eves[i].kind = stage[d]
              /\ eves[i].ok /\ stage[d] = "enable" =>
                   eves[i].slot \in Slots /\ owner[eves[i].slot] = d
              /\ stage[d] # "enable" => eves[i].slot = None
    /\ stage[d] = "enable" /\ res[d] \notin {None, "failed"} =>
         res[d] \in Slots /\ owner[res[d]] = d
    /\ stage[d] # "enable" => res[d] \notin Slots

(* DisableSlot is the last that a device asks for, is asked for once, and   *)
(* its slot is its own until the controller has executed it.                *)
DisablesLast ==
  \A d \in Devs :
    /\ \A i, j \in DisCmds(d) : i = j
    /\ \A i, j \in DisEves(d) : i = j
    /\ DisCmds(d) # {} => DisEves(d) = {} /\ owner[slotId[d]] = d
    /\ DisCmds(d) # {} \/ DisEves(d) # {} =>
         pc[d] = "disableWait" /\ d \notin disabled /\ slotId[d] # None
    /\ \A i \in DisCmds(d), j \in ReqCmds(d) : j < i
    /\ \A i \in DisEves(d), j \in ReqEves(d) : j < i
    /\ DisEves(d) # {} => ReqCmds(d) = {} /\ d \notin xfer
    /\ d \in disabled => ~Pending(d) /\ pc[d] \in {"disableWait", "exit", "gone"}
    /\ pc[d] = "disableWait" /\ d \notin disabled => DisCmds(d) # {} \/ DisEves(d) # {}
    /\ pc[d] \in {"exit", "gone"} /\ slotId[d] # None => d \in disabled

(* A slot that is enabled again is known to its new owner after its old one *)
(* has heard that it was disabled.                                          *)
EnabledLater ==
  \A d \in Devs : \A i \in DisEves(d) :
    /\ \A j \in 1..Len(eves) : Enabled(j, slotId[d]) => i < j
    /\ \A e \in Devs : res[e] # slotId[d]

(* The slot of a manager is its own until it gives it back, and host->dev[] *)
(* points to it until the manager has heard that it is disabled.            *)
Holds(d) == slotId[d] # None /\ pc[d] \in Interruptible \cup {"disable"}
EntryKept(d) ==
  \/ entry[slotId[d]] = d
  \/ \E e \in Devs \ {d} : slotId[e] = slotId[d] /\ pc[e] \in {"exit", "gone"}
SlotsOwned ==
  \A d \in Devs :
    /\ Holds(d) => owner[slotId[d]] = d
    /\ Holds(d) \/ (pc[d] = "disableWait" /\ d \notin disabled) => EntryKept(d)

(* addr0Lock is held from the first command of a manager to the answer of   *)
(* the second, or for ever when it is interrupted in between.               *)
LockKept ==
  \A d \in Devs :
    /\ pc[d] \in {"ask", "insert", "inserted", "wait"} /\ stage[d] \in Addressing => lock = d
    /\ Pending(d) /\ stage[d] = "enable" => lock = d

(* A device is at one port, and at none when its manager has been told to   *)
(* exit by the event task.                                                  *)
PortsNamed ==
  /\ \A p \in Ports : port[p] # None => at[port[p]] = p /\ pc[port[p]] # "none"
  /\ epc = "signal" => \A p \in Ports : port[p] # edev
  /\ \A d \in mgrTask : d \in signal \/ pc[d] \in Handler =>
       (\A p \in Ports : port[p] # d) /\ ~(epc = "signal" /\ edev = d)
  /\ \A d \in Devs : pc[d] = "giveUp" => d \notin mgrTask

IInv ==
  /\ Types /\ Beginnings /\ OneRequest /\ AnswersFit /\ DisablesLast
  /\ EnabledLater /\ SlotsOwned /\ LockKept /\ PortsNamed /\ FaultWindows

-----------------------------------------------------------------------------
(* Events and commands as they come and go                                  *)

(* What the controller or a port has to tell comes last.                    *)
LEMMA EvesAppended ==
  ASSUME Types, NEW e \in Eves, eves' = Append(eves, e)
  PROVE  /\ Len(eves) \in Nat /\ eves' \in Seq(Eves) /\ Len(eves') = Len(eves) + 1
         /\ eves'[Len(eves) + 1] = e /\ \A i \in 1..Len(eves) : eves'[i] = eves[i]
  BY DEF Types

(* The event task takes the first event.                                    *)
LEMMA EvesTaken ==
  ASSUME Types, eves # <<>>, eves' = Tail(eves)
  PROVE  /\ Len(eves) \in Nat \ {0} /\ eves' \in Seq(Eves) /\ Len(eves') = Len(eves) - 1
         /\ Head(eves) = eves[1] /\ eves[1] \in Eves
         /\ \A i \in 1..Len(eves') : i + 1 \in 1..Len(eves) /\ eves'[i] = eves[i + 1]
  BY DEF Types

(* A manager puts its command at the end of the ring.                       *)
LEMMA CmdsAppended ==
  ASSUME Types, NEW c \in Commands, cmds' = Append(cmds, c)
  PROVE  /\ Len(cmds) \in Nat /\ cmds' \in Seq(Commands) /\ Len(cmds') = Len(cmds) + 1
         /\ cmds'[Len(cmds) + 1] = c /\ \A i \in 1..Len(cmds) : cmds'[i] = cmds[i]
  BY DEF Types

(* The controller takes the first command.                                  *)
LEMMA CmdsTaken ==
  ASSUME Types, cmds # <<>>, cmds' = Tail(cmds)
  PROVE  /\ Len(cmds) \in Nat \ {0} /\ cmds' \in Seq(Commands) /\ Len(cmds') = Len(cmds) - 1
         /\ Head(cmds) = cmds[1] /\ cmds[1] \in Commands
         /\ \A i \in 1..Len(cmds') : i + 1 \in 1..Len(cmds) /\ cmds'[i] = cmds[i + 1]
  BY DEF Types

(* Where answers are, after one is added.                                   *)
LEMMA EvesAfterAppend ==
  ASSUME Types, NEW e \in Eves, eves' = Append(eves, e)
  PROVE  /\ \A d \in Devs : \A i :
              /\ i \in ReqEves(d)' <=>
                   i \in ReqEves(d) \/ (i = Len(eves) + 1 /\ IsReq(e) /\ e.dev = d)
              /\ i \in DisEves(d)' <=>
                   i \in DisEves(d) \/ (i = Len(eves) + 1 /\ IsDis(e) /\ e.dev = d)
              /\ i \in ReqEves(d) => i \in Nat /\ i <= Len(eves) /\ eves'[i] = eves[i]
              /\ i \in DisEves(d) => i \in Nat /\ i <= Len(eves)
         /\ \A j \in 1..Len(eves') : \A s :
              \/ j \in 1..Len(eves) /\ (Enabled(j, s)' <=> Enabled(j, s))
              \/ j = Len(eves) + 1 /\ eves'[j] = e
<1>1. /\ Len(eves) \in Nat /\ Len(eves') = Len(eves) + 1
      /\ eves'[Len(eves) + 1] = e /\ \A i \in 1..Len(eves) : eves'[i] = eves[i]
  BY EvesAppended
<1>2. \A i : i \in 1..Len(eves') <=> i \in 1..Len(eves) \/ i = Len(eves) + 1
  BY <1>1
<1> QED BY <1>1, <1>2 DEF ReqEves, DisEves, IsReq, IsDis, Enabled

(* Where answers are, after the first is taken: the others keep their order.*)
LEMMA EvesAfterTake ==
  ASSUME IInv, eves # <<>>, eves' = Tail(eves)
  PROVE  \A d \in Devs :
           /\ \A i, j \in ReqEves(d)' : i = j
           /\ \A i, j \in DisEves(d)' : i = j
           /\ \A i \in DisEves(d)', j \in ReqEves(d)' : j < i
           /\ ReqEves(d)' # {} <=> ReqEves(d) # {} /\ 1 \notin ReqEves(d)
           /\ DisEves(d)' # {} <=> DisEves(d) # {} /\ 1 \notin DisEves(d)
           /\ \A i \in ReqEves(d)' : \E j \in ReqEves(d) : eves'[i] = eves[j]
           /\ \A i \in DisEves(d)', j \in 1..Len(eves') : \A s :
                s = slotId[d] /\ Enabled(j, s)' => i < j
<1>1. /\ Len(eves) \in Nat \ {0} /\ Len(eves') = Len(eves) - 1
      /\ \A i \in 1..Len(eves') : i + 1 \in 1..Len(eves) /\ eves'[i] = eves[i + 1]
  BY EvesTaken DEF IInv
<1>2. \A i \in Nat : i # 0 /\ i + 1 \in 1..Len(eves) <=> i \in 1..Len(eves')
  BY <1>1
<1>3. \A d \in Devs, i \in Nat :
        /\ i \in ReqEves(d)' <=> i # 0 /\ i + 1 \in ReqEves(d)
        /\ i \in DisEves(d)' <=> i # 0 /\ i + 1 \in DisEves(d)
  BY <1>1, <1>2 DEF ReqEves, DisEves, IsReq, IsDis
<1>4. \A d \in Devs :
        /\ ReqEves(d) \subseteq Nat \ {0} /\ DisEves(d) \subseteq Nat \ {0}
        /\ ReqEves(d)' \subseteq 1..Len(eves') /\ DisEves(d)' \subseteq Nat \ {0}
  BY DEF ReqEves, DisEves
<1>5. \A j \in 1..Len(eves') : \A s : Enabled(j, s)' <=> Enabled(j + 1, s)
  BY <1>1 DEF Enabled
<1> SUFFICES ASSUME NEW d \in Devs
             PROVE  /\ \A i, j \in ReqEves(d)' : i = j
                    /\ \A i, j \in DisEves(d)' : i = j
                    /\ \A i \in DisEves(d)', j \in ReqEves(d)' : j < i
                    /\ ReqEves(d)' # {} <=> ReqEves(d) # {} /\ 1 \notin ReqEves(d)
                    /\ DisEves(d)' # {} <=> DisEves(d) # {} /\ 1 \notin DisEves(d)
                    /\ \A i \in ReqEves(d)' : \E j \in ReqEves(d) : eves'[i] = eves[j]
                    /\ \A i \in DisEves(d)', j \in 1..Len(eves') : \A s :
                         s = slotId[d] /\ Enabled(j, s)' => i < j
  OBVIOUS
<1>6. /\ \A i \in ReqEves(d)' : i \in Nat /\ i + 1 \in ReqEves(d)
      /\ \A i \in DisEves(d)' : i \in Nat /\ i + 1 \in DisEves(d)
      /\ ReqEves(d)' \subseteq 1..Len(eves')
  BY <1>3, <1>4
<1>7. /\ \A i, j \in ReqEves(d) : i = j
      /\ \A i, j \in DisEves(d) : i = j
      /\ \A i \in DisEves(d), j \in ReqEves(d) : j < i
      /\ \A i \in DisEves(d), j \in 1..Len(eves) : \A s : s = slotId[d] /\ Enabled(j, s) => i < j
  BY DEF IInv, OneRequest, DisablesLast, EnabledLater
<1>8. \A i, j \in ReqEves(d)' : i = j
  BY <1>6, <1>7
<1>9. \A i, j \in DisEves(d)' : i = j
  BY <1>6, <1>7
<1>10. \A i \in DisEves(d)', j \in ReqEves(d)' : j < i
  BY <1>6, <1>7
<1>11. /\ \A i \in ReqEves(d) : i # 1 => i - 1 \in ReqEves(d)'
       /\ \A i \in DisEves(d) : i # 1 => i - 1 \in DisEves(d)'
  BY <1>3, <1>4
<1>12. ReqEves(d)' # {} <=> ReqEves(d) # {} /\ 1 \notin ReqEves(d)
  <2>1. 1 \in ReqEves(d) => \A i \in Nat \ {0} : i + 1 \notin ReqEves(d)
    BY <1>7
  <2> QED BY <2>1, <1>4, <1>6, <1>11
<1>13. DisEves(d)' # {} <=> DisEves(d) # {} /\ 1 \notin DisEves(d)
  <2>1. 1 \in DisEves(d) => \A i \in Nat \ {0} : i + 1 \notin DisEves(d)
    BY <1>7
  <2> QED BY <2>1, <1>4, <1>6, <1>11
<1>14. \A i \in ReqEves(d)' : \E j \in ReqEves(d) : eves'[i] = eves[j]
  BY <1>1, <1>6
<1>15. ASSUME NEW i \in DisEves(d)', NEW j \in 1..Len(eves'), NEW s, s = slotId[d], Enabled(j, s)'
       PROVE  i < j
  <2>1. j + 1 \in 1..Len(eves) /\ Enabled(j + 1, s)
    BY <1>1, <1>5, <1>15
  <2>2. i + 1 < j + 1 /\ i \in Nat
    BY <2>1, <1>6, <1>7, <1>15
  <2> QED BY <2>2
<1> QED BY <1>8, <1>9, <1>10, <1>12, <1>13, <1>14, <1>15

(* Where commands are, after a manager adds one.                            *)
LEMMA CmdsAfterAppend ==
  ASSUME Types, NEW c \in Commands, cmds' = Append(cmds, c)
  PROVE  /\ \A d \in Devs : \A i :
              /\ i \in ReqCmds(d)' <=>
                   i \in ReqCmds(d) \/ (i = Len(cmds) + 1 /\ c.kind # "disable" /\ c.dev = d)
              /\ i \in DisCmds(d)' <=>
                   i \in DisCmds(d) \/ (i = Len(cmds) + 1 /\ c.kind = "disable" /\ c.dev = d)
              /\ i \in ReqCmds(d) => i \in Nat /\ i <= Len(cmds) /\ cmds'[i] = cmds[i]
              /\ i \in DisCmds(d) => i \in Nat /\ i <= Len(cmds)
         /\ cmds'[Len(cmds) + 1] = c /\ cmds' \in Seq(Commands)
<1>1. /\ Len(cmds) \in Nat /\ cmds' \in Seq(Commands) /\ Len(cmds') = Len(cmds) + 1
      /\ cmds'[Len(cmds) + 1] = c /\ \A i \in 1..Len(cmds) : cmds'[i] = cmds[i]
  BY CmdsAppended
<1>2. \A i : i \in 1..Len(cmds') <=> i \in 1..Len(cmds) \/ i = Len(cmds) + 1
  BY <1>1
<1> QED BY <1>1, <1>2 DEF ReqCmds, DisCmds

(* Where commands are, after the controller takes the first.                *)
LEMMA CmdsAfterTake ==
  ASSUME IInv, cmds # <<>>, cmds' = Tail(cmds)
  PROVE  \A d \in Devs :
           /\ \A i, j \in ReqCmds(d)' : i = j
           /\ \A i, j \in DisCmds(d)' : i = j
           /\ \A i \in DisCmds(d)', j \in ReqCmds(d)' : j < i
           /\ ReqCmds(d)' # {} <=> ReqCmds(d) # {} /\ 1 \notin ReqCmds(d)
           /\ DisCmds(d)' # {} <=> DisCmds(d) # {} /\ 1 \notin DisCmds(d)
           /\ 1 \in DisCmds(d) => ReqCmds(d) = {}
           /\ \A i \in ReqCmds(d)' : \E j \in ReqCmds(d) : cmds'[i] = cmds[j]
<1>1. /\ Len(cmds) \in Nat \ {0} /\ Len(cmds') = Len(cmds) - 1
      /\ \A i \in 1..Len(cmds') : i + 1 \in 1..Len(cmds) /\ cmds'[i] = cmds[i + 1]
  BY CmdsTaken DEF IInv
<1>2. \A i \in Nat : i # 0 /\ i + 1 \in 1..Len(cmds) <=> i \in 1..Len(cmds')
  BY <1>1
<1>3. \A d \in Devs, i \in Nat :
        /\ i \in ReqCmds(d)' <=> i # 0 /\ i + 1 \in ReqCmds(d)
        /\ i \in DisCmds(d)' <=> i # 0 /\ i + 1 \in DisCmds(d)
  BY <1>1, <1>2 DEF ReqCmds, DisCmds
<1>4. \A d \in Devs :
        /\ ReqCmds(d) \subseteq Nat \ {0} /\ DisCmds(d) \subseteq Nat \ {0}
        /\ ReqCmds(d)' \subseteq 1..Len(cmds') /\ DisCmds(d)' \subseteq Nat \ {0}
  BY DEF ReqCmds, DisCmds
<1> SUFFICES ASSUME NEW d \in Devs
             PROVE  /\ \A i, j \in ReqCmds(d)' : i = j
                    /\ \A i, j \in DisCmds(d)' : i = j
                    /\ \A i \in DisCmds(d)', j \in ReqCmds(d)' : j < i
                    /\ ReqCmds(d)' # {} <=> ReqCmds(d) # {} /\ 1 \notin ReqCmds(d)
                    /\ DisCmds(d)' # {} <=> DisCmds(d) # {} /\ 1 \notin DisCmds(d)
                    /\ 1 \in DisCmds(d) => ReqCmds(d) = {}
                    /\ \A i \in ReqCmds(d)' : \E j \in ReqCmds(d) : cmds'[i] = cmds[j]
  OBVIOUS
<1>6. /\ \A i \in ReqCmds(d)' : i \in Nat /\ i + 1 \in ReqCmds(d)
      /\ \A i \in DisCmds(d)' : i \in Nat /\ i + 1 \in DisCmds(d)
      /\ ReqCmds(d)' \subseteq 1..Len(cmds')
  BY <1>3, <1>4
<1>7. /\ \A i, j \in ReqCmds(d) : i = j
      /\ \A i, j \in DisCmds(d) : i = j
      /\ \A i \in DisCmds(d), j \in ReqCmds(d) : j < i
  BY DEF IInv, OneRequest, DisablesLast
<1>8. \A i, j \in ReqCmds(d)' : i = j
  BY <1>6, <1>7
<1>9. \A i, j \in DisCmds(d)' : i = j
  BY <1>6, <1>7
<1>10. \A i \in DisCmds(d)', j \in ReqCmds(d)' : j < i
  BY <1>6, <1>7
<1>11. /\ \A i \in ReqCmds(d) : i # 1 => i - 1 \in ReqCmds(d)'
       /\ \A i \in DisCmds(d) : i # 1 => i - 1 \in DisCmds(d)'
  BY <1>3, <1>4
<1>12. ReqCmds(d)' # {} <=> ReqCmds(d) # {} /\ 1 \notin ReqCmds(d)
  <2>1. 1 \in ReqCmds(d) => \A i \in Nat \ {0} : i + 1 \notin ReqCmds(d)
    BY <1>7
  <2> QED BY <2>1, <1>4, <1>6, <1>11
<1>13. DisCmds(d)' # {} <=> DisCmds(d) # {} /\ 1 \notin DisCmds(d)
  <2>1. 1 \in DisCmds(d) => \A i \in Nat \ {0} : i + 1 \notin DisCmds(d)
    BY <1>7
  <2> QED BY <2>1, <1>4, <1>6, <1>11
<1>14. 1 \in DisCmds(d) => ReqCmds(d) = {}
  BY <1>4, <1>7
<1>15. \A i \in ReqCmds(d)' : \E j \in ReqCmds(d) : cmds'[i] = cmds[j]
  BY <1>1, <1>6
<1> QED BY <1>8, <1>9, <1>10, <1>12, <1>13, <1>14, <1>15

(* A manager that is named is a device's, and so is what a port points to.  *)
LEMMA TypeFacts ==
  ASSUME IInv
  PROVE  /\ mgrTask \subseteq Devs /\ port \in [Ports -> Devs \cup {None}] /\ None \notin Devs
         /\ pc \in [Devs -> Places]
         /\ slotId \in [Devs -> Slots \cup {None}] /\ signal \subseteq Devs
         /\ \A d \in signal : pc[d] \in Interruptible
  BY XHCIDeviceAssumption DEF IInv, Types, TypeOK, Devs

(* What does not concern a manager's requests leaves them where they are.   *)
LEMMA SameEves ==
  ASSUME eves' = eves
  PROVE  /\ \A d : ReqEves(d)' = ReqEves(d) /\ DisEves(d)' = DisEves(d)
         /\ \A j, s : Enabled(j, s)' <=> Enabled(j, s)
  BY DEF ReqEves, DisEves, IsReq, IsDis, Enabled

(* The same of the command ring.                                            *)
LEMMA SameCmds ==
  ASSUME cmds' = cmds
  PROVE  \A d : ReqCmds(d)' = ReqCmds(d) /\ DisCmds(d)' = DisCmds(d)
  BY DEF ReqCmds, DisCmds

-----------------------------------------------------------------------------
(* The ports                                                                *)

(* At first there is no device.                                             *)
LEMMA InitIInv == Init => IInv
<1> SUFFICES ASSUME Init PROVE IInv
  OBVIOUS
<1> USE XHCIDeviceAssumption DEF Init
<1>1. \A d : ReqCmds(d) = {} /\ ReqEves(d) = {} /\ DisCmds(d) = {} /\ DisEves(d) = {} /\ ~Pending(d)
  BY DEF ReqCmds, ReqEves, DisCmds, DisEves, Pending
<1>2. Types
  BY DEF Types, TypeOK, Faults, Interruptible, Devs, Stages, ByCommand, ByTransfer
<1>3. Beginnings /\ OneRequest /\ AnswersFit /\ DisablesLast /\ EnabledLater
  BY <1>1 DEF Beginnings, OneRequest, AnswersFit, DisablesLast, EnabledLater, Devs
<1>4. SlotsOwned /\ LockKept /\ PortsNamed /\ FaultWindows
  BY <1>1 DEF SlotsOwned, Holds, LockKept, PortsNamed, FaultWindows
<1> QED BY <1>2, <1>3, <1>4 DEF IInv

(* Events of ports are no answers.                                          *)
PortEvesOnly ==
  \/ eves' = eves
  \/ \E p \in Ports : eves' = Append(eves, PortEve(p))
  \/ eves # <<>> /\ Head(eves).type = "port" /\ eves' = Tail(eves)

(* What happens at the ports, and what the event task does about it, leaves *)
(* slots and requests alone.                                                *)
LEMMA QuietStep ==
  ASSUME IInv, PortEvesOnly,
         UNCHANGED <<cmds, xfer, owner, slotId, stage, res, disabled, pc, mgrTask, entry,
                     lock, made>>
  PROVE  /\ eves' \in Seq(Eves)
         /\ Beginnings' /\ OneRequest' /\ AnswersFit' /\ DisablesLast' /\ EnabledLater'
         /\ SlotsOwned' /\ LockKept'
<1>1. Types /\ Len(eves) \in Nat
  BY DEF IInv, Types
<1>2. \A d : ReqCmds(d)' = ReqCmds(d) /\ DisCmds(d)' = DisCmds(d)
  BY SameCmds
<1>3. Beginnings' /\ SlotsOwned'
  BY DEF IInv, Beginnings, SlotsOwned, Holds, EntryKept
<1>4. CASE eves' = eves
  <2>1. \A d \in Devs : Pending(d)' = Pending(d)
    BY <1>2, <1>4, SameEves DEF Pending
  <2>2. OneRequest' /\ LockKept'
    BY <1>2, <1>4, <2>1, SameEves DEF IInv, OneRequest, LockKept
  <2>3. AnswersFit'
    BY <1>2, <1>4, SameEves DEF IInv, AnswersFit
  <2>4. DisablesLast'
    BY <1>2, <1>4, <2>1, SameEves DEF IInv, DisablesLast
  <2>5. EnabledLater'
    BY <1>4, SameEves DEF IInv, EnabledLater
  <2> QED BY <1>1, <1>3, <1>4, <2>2, <2>3, <2>4, <2>5 DEF Types
<1>5. CASE \E p \in Ports : eves' = Append(eves, PortEve(p))
  <2>1. PICK p \in Ports : eves' = Append(eves, PortEve(p))
    BY <1>5
  <2>2. PortEve(p) \in Eves /\ PortEve(p).type = "port" /\ ~IsReq(PortEve(p)) /\ ~IsDis(PortEve(p))
    BY DEF PortEve, Eves, PortEves, IsReq, IsDis
  <2>3. eves' \in Seq(Eves)
    BY <1>1, <2>1, <2>2, EvesAppended
  <2>4. /\ \A d \in Devs : \A i :
             /\ i \in ReqEves(d)' <=> i \in ReqEves(d)
             /\ i \in DisEves(d)' <=> i \in DisEves(d)
             /\ i \in ReqEves(d) => eves'[i] = eves[i]
        /\ \A j \in 1..Len(eves') : \A s :
             \/ j \in 1..Len(eves) /\ (Enabled(j, s)' <=> Enabled(j, s))
             \/ eves'[j] = PortEve(p)
    BY <1>1, <2>1, <2>2, EvesAfterAppend
  <2>5. \A d \in Devs : ReqEves(d)' = ReqEves(d) /\ DisEves(d)' = DisEves(d)
    BY <2>4
  <2>6. \A d \in Devs : Pending(d)' = Pending(d)
    BY <1>2, <2>5 DEF Pending
  <2>7. OneRequest' /\ LockKept'
    BY <1>2, <2>5, <2>6 DEF IInv, OneRequest, LockKept
  <2>8. AnswersFit'
    BY <1>2, <2>4 DEF IInv, AnswersFit
  <2>9. DisablesLast'
    BY <1>2, <2>5, <2>6 DEF IInv, DisablesLast
  <2>10. EnabledLater'
    <3>1. \A j \in 1..Len(eves') : \A s : Enabled(j, s)' => j \in 1..Len(eves) /\ Enabled(j, s)
      BY <2>2, <2>4 DEF Enabled
    <3> QED BY <2>5, <3>1 DEF IInv, EnabledLater
  <2> QED BY <1>3, <2>3, <2>7, <2>8, <2>9, <2>10
<1>6. CASE eves # <<>> /\ Head(eves).type = "port" /\ eves' = Tail(eves)
  <2>1. eves' \in Seq(Eves) /\ Head(eves) = eves[1]
    BY <1>1, <1>6, EvesTaken
  <2>2. \A d \in Devs : 1 \notin ReqEves(d) /\ 1 \notin DisEves(d)
    BY <1>6, <2>1 DEF ReqEves, DisEves, IsReq, IsDis
  <2>3. \A d \in Devs :
          /\ \A i, j \in ReqEves(d)' : i = j
          /\ \A i, j \in DisEves(d)' : i = j
          /\ \A i \in DisEves(d)', j \in ReqEves(d)' : j < i
          /\ (ReqEves(d)' = {} <=> ReqEves(d) = {}) /\ (DisEves(d)' = {} <=> DisEves(d) = {})
          /\ \A i \in ReqEves(d)' : \E j \in ReqEves(d) : eves'[i] = eves[j]
          /\ \A i \in DisEves(d)', j \in 1..Len(eves') : \A s :
               s = slotId[d] /\ Enabled(j, s)' => i < j
    BY <1>6, <2>2, EvesAfterTake
  <2>4. \A d \in Devs : Pending(d)' = Pending(d)
    BY <1>2, <2>3 DEF Pending
  <2>5. OneRequest' /\ LockKept'
    BY <1>2, <2>3, <2>4 DEF IInv, OneRequest, LockKept
  <2>6. AnswersFit'
    BY <1>2, <2>3 DEF IInv, AnswersFit
  <2>7. DisablesLast'
    BY <1>2, <2>3, <2>4 DEF IInv, DisablesLast
  <2>8. EnabledLater'
    BY <2>3 DEF IInv, EnabledLater
  <2> QED BY <1>3, <2>1, <2>5, <2>6, <2>7, <2>8
<1> QED BY <1>4, <1>5, <1>6 DEF PortEvesOnly

(* Somebody moves a plug, or the port ends its reset: only an event is new. *)
LEMMA PlugStep ==
  ASSUME IInv, epc \notin Faults, NEW p \in Ports, Move(p) \/ ResetDone(p) PROVE IInv'
<1>1. /\ UNCHANGED <<owner, cmds, xfer, entry, lock, epc, eport, edev, port, made, at, slotId>>
      /\ UNCHANGED <<ring, mgrTask, signal, pc, stage, res, disabled>>
      /\ Tell(p)
  BY DEF Move, ResetDone, etsk, host, dev, names, answ
<1>2. plug' \in [Ports -> {"empty", "off", "reset", "on"}]
  BY DEF Move, ResetDone, IInv, Types, TypeOK
<1>3. PortEvesOnly /\ changed' \subseteq Ports
  BY <1>1 DEF Tell, PortEvesOnly, IInv, Types, TypeOK
<1>4. /\ eves' \in Seq(Eves)
      /\ Beginnings' /\ OneRequest' /\ AnswersFit' /\ DisablesLast' /\ EnabledLater'
      /\ SlotsOwned' /\ LockKept'
  BY <1>1, <1>3, QuietStep
<1>5. Types' /\ PortsNamed' /\ FaultWindows'
  BY <1>1, <1>2, <1>3, <1>4 DEF IInv, Types, TypeOK, PortsNamed, FaultWindows
<1> QED BY <1>4, <1>5 DEF IInv

(* The event task takes a port's event, or resets the port.                 *)
LEMMA PortTaskStep ==
  ASSUME IInv, epc \notin Faults, GetPortEve \/ PortReset PROVE IInv'
<1>1. /\ UNCHANGED <<owner, cmds, xfer, entry, lock, edev, port, made, at, slotId>>
      /\ UNCHANGED <<ring, mgrTask, signal, pc, stage, res, disabled>>
      /\ epc \in {"get", "port"}
  BY DEF GetPortEve, PortReset, host, dev, names, answ, flow
<1>2. PortEvesOnly
  BY DEF GetPortEve, PortReset, flow, PortEvesOnly
<1>3. /\ plug' \in [Ports -> {"empty", "off", "reset", "on"}] /\ changed' \subseteq Ports
      /\ epc' \in {"get", "port"} /\ (epc' = "port" => eport' \in Ports)
  <2>1. CASE GetPortEve
    <3>1. eves # <<>> /\ Head(eves).type = "port" /\ eves' = Tail(eves)
      BY <2>1 DEF GetPortEve
    <3>2. Head(eves) \in PortEves
      BY <3>1, EvesTaken DEF IInv, Eves, CmdEves, TransEves
    <3> QED BY <2>1, <3>2 DEF GetPortEve, PortEves, IInv, Types, TypeOK
  <2>2. CASE PortReset
    BY <2>2 DEF PortReset, IInv, Types, TypeOK
  <2> QED BY <2>1, <2>2
<1>4. /\ eves' \in Seq(Eves)
      /\ Beginnings' /\ OneRequest' /\ AnswersFit' /\ DisablesLast' /\ EnabledLater'
      /\ SlotsOwned' /\ LockKept'
  BY <1>1, <1>2, QuietStep
<1>5. Types' /\ PortsNamed' /\ FaultWindows'
  BY <1>1, <1>3, <1>4 DEF IInv, Types, TypeOK, PortsNamed, FaultWindows, Faults
<1> QED BY <1>4, <1>5 DEF IInv

(* HW_USB_XHCI_portDisconnect finds no device, one that gave itself up, or  *)
(* one that nobody has told to exit.                                        *)
LEMMA DisconnectStep ==
  ASSUME IInv, epc \notin Faults, PortDisconnect PROVE IInv'
<1> USE XHCIDeviceAssumption
<1> DEFINE d == port[eport]
<1>1. /\ UNCHANGED <<plug, changed, eves, owner, cmds, xfer, entry, lock, made, at, slotId>>
      /\ UNCHANGED <<ring, mgrTask, signal, pc, stage, res, disabled>>
      /\ epc = "port" /\ port' = [port EXCEPT ![eport] = None] /\ eport' = None
      /\ \/ epc' = "get" /\ edev' = None
         \/ epc' = "portFault" /\ edev' = d /\ d # None /\ pc[d] = "gone"
         \/ epc' = "signal" /\ edev' = d /\ d # None /\ pc[d] # "gone" /\ d \in mgrTask
  BY DEF PortDisconnect, ctrl, flow, dev, names, answ
<1>2. eport \in Ports /\ port \in [Ports -> Devs \cup {None}] /\ mgrTask \subseteq Devs
  BY <1>1 DEF IInv, Types, TypeOK, Devs
<1>3. /\ \A p \in Ports : port'[p] = IF p = eport THEN None ELSE port[p]
      /\ port' \in [Ports -> Devs \cup {None}]
  BY <1>1, <1>2
<1>4. PortEvesOnly
  BY <1>1 DEF PortEvesOnly
<1>5. /\ eves' \in Seq(Eves)
      /\ Beginnings' /\ OneRequest' /\ AnswersFit' /\ DisablesLast' /\ EnabledLater'
      /\ SlotsOwned' /\ LockKept'
  BY <1>1, <1>4, QuietStep
<1>6. d # None => /\ \A p \in Ports : port'[p] # d
                  /\ d \in mgrTask => d \notin signal /\ pc[d] \notin Handler
  BY <1>2, <1>3 DEF IInv, PortsNamed
<1>7. Types'
  BY <1>1, <1>2, <1>3, <1>5 DEF IInv, Types, TypeOK, Faults
<1>8. PortsNamed'
  <2>1. \A p \in Ports : port'[p] # None => at'[port'[p]] = p /\ pc'[port'[p]] # "none"
    BY <1>1, <1>3 DEF IInv, PortsNamed
  <2>2. epc' = "signal" => \A p \in Ports : port'[p] # edev'
    BY <1>1, <1>6
  <2>3. ASSUME NEW c \in mgrTask', c \in signal' \/ pc'[c] \in Handler
        PROVE  (\A p \in Ports : port'[p] # c) /\ ~(epc' = "signal" /\ edev' = c)
    <3>1. /\ \A p \in Ports : port[p] # c
          /\ c \in Devs
      BY <2>3, <1>1, <1>2 DEF IInv, PortsNamed
    <3>2. None \notin Devs
      BY DEF Devs
    <3> QED BY <3>1, <3>2, <1>1, <1>2, <1>3
  <2>4. \A c \in Devs : pc'[c] = "giveUp" => c \notin mgrTask'
    BY <1>1 DEF IInv, PortsNamed
  <2> QED BY <2>1, <2>2, <2>3, <2>4 DEF PortsNamed
<1>9. FaultWindows'
  <2>1. epc' = "portFault" => edev' \notin mgrTask
    BY <1>1, <1>6
  <2> QED BY <2>1, <1>1 DEF FaultWindows
<1> QED BY <1>5, <1>7, <1>8, <1>9 DEF IInv

(* The signal is set, or mgrTask was cleared since it was read.             *)
LEMMA SignalStep ==
  ASSUME IInv, epc \notin Faults, SetSignal PROVE IInv'
<1> USE XHCIDeviceAssumption
<1>1. /\ UNCHANGED <<plug, changed, eves, owner, cmds, xfer, entry, lock, made, at, slotId>>
      /\ UNCHANGED <<ring, mgrTask, pc, stage, res, disabled, port, eport>>
      /\ epc = "signal"
      /\ \/ ReadAgain(edev) /\ signal' = signal \cup {edev} /\ epc' = "get" /\ edev' = None
         \/ ~ReadAgain(edev) /\ epc' = "signalFault" /\ UNCHANGED <<signal, edev>>
  BY DEF SetSignal, ctrl, flow, host, names, answ
<1>2. PortEvesOnly
  BY <1>1 DEF PortEvesOnly
<1>3. /\ eves' \in Seq(Eves)
      /\ Beginnings' /\ OneRequest' /\ AnswersFit' /\ DisablesLast' /\ EnabledLater'
      /\ SlotsOwned' /\ LockKept'
  BY <1>1, <1>2, QuietStep
<1>4. /\ edev \in Devs /\ \A p \in Ports : port[p] # edev
      /\ edev \in mgrTask => pc[edev] \notin Handler \cup {"none", "start"}
  BY <1>1 DEF IInv, Types, Beginnings, PortsNamed
<1>5. edev \in mgrTask => pc[edev] \in Interruptible
  BY <1>4 DEF IInv, Types, TypeOK
<1>6. Types'
  BY <1>1, <1>3, <1>4, <1>5 DEF IInv, Types, TypeOK, Faults, ReadAgain
<1>7. PortsNamed'
  BY <1>1, <1>4 DEF IInv, PortsNamed
<1>8. FaultWindows'
  BY <1>1, <1>4 DEF FaultWindows, ReadAgain
<1> QED BY <1>3, <1>6, <1>7, <1>8 DEF IInv

(* HW_USB_XHCI_portConnect makes a device that nobody knows yet.            *)
LEMMA ConnectStep ==
  ASSUME IInv, epc \notin Faults, PortConnect PROVE IInv'
<1> USE XHCIDeviceAssumption
<1> DEFINE n == made + 1
<1>1. /\ UNCHANGED <<plug, changed, eves, owner, cmds, xfer, entry, lock, edev, slotId>>
      /\ UNCHANGED <<ring, mgrTask, signal, stage, res, disabled>>
      /\ epc = "port" /\ made < MaxDevs /\ made' = n
      /\ port' = [port EXCEPT ![eport] = n] /\ at' = [at EXCEPT ![n] = eport]
      /\ pc' = [pc EXCEPT ![n] = "start"] /\ epc' = "get" /\ eport' = None
  BY DEF PortConnect, ctrl, flow, names, answ
<1>2. /\ made \in 0..MaxDevs /\ n \in Devs /\ n \in Nat /\ n \in 0..MaxDevs /\ eport \in Ports
      /\ port \in [Ports -> Devs \cup {None}] /\ at \in [Devs -> Ports \cup {None}]
      /\ None \notin Devs
  BY <1>1 DEF IInv, Types, TypeOK, Devs
<1>3. pc \in [Devs -> Places]
  BY DEF IInv, Types, TypeOK
<1>4. pc[n] = "none" /\ pc'[n] = "start" /\ \A d \in Devs \ {n} : pc'[d] = pc[d]
  <2>1. n > made
    BY <1>2
  <2> QED BY <2>1, <1>1, <1>2, <1>3 DEF IInv, Beginnings
<1>5. /\ "none" \notin Interruptible /\ "start" \notin Interruptible
      /\ \A d \in Devs : pc'[d] \in Interruptible <=> pc[d] \in Interruptible
  BY <1>4 DEF Interruptible
<1>6. \A d \in Devs : \A s \in Asked \cup {"ask", "insert", "giveUp"} :
        pc'[d] = s <=> pc[d] = s
  BY <1>4
<1>7. \A d : /\ ReqCmds(d)' = ReqCmds(d) /\ DisCmds(d)' = DisCmds(d)
             /\ ReqEves(d)' = ReqEves(d) /\ DisEves(d)' = DisEves(d) /\ Pending(d)' = Pending(d)
  BY <1>1, SameCmds, SameEves DEF Pending
<1>8. Types'
  <2>1. port' \in [Ports -> Devs \cup {None}] /\ at' \in [Devs -> Ports \cup {None}]
    BY <1>1, <1>2
  <2>2. /\ pc' \in [Devs -> Places]
        /\ signal' \subseteq {d \in Devs : pc'[d] \in Interruptible}
    BY <1>1, <1>2, <1>3, <1>5 DEF IInv, Types, TypeOK
  <2>3. mgrTask' \subseteq 1..made'
    BY <1>1, <1>2 DEF IInv, Types, TypeOK
  <2> QED BY <2>1, <2>2, <2>3, <1>1, <1>2 DEF IInv, Types, TypeOK
<1>9. Beginnings'
  <2>1. \A d \in Devs : d > n <=> d > made /\ d # n
    BY <1>2 DEF Devs
  <2> QED BY <2>1, <1>1, <1>4 DEF IInv, Beginnings
<1>10. OneRequest' /\ DisablesLast' /\ LockKept'
  BY <1>1, <1>6, <1>7 DEF IInv, OneRequest, DisablesLast, LockKept
<1>11. AnswersFit'
  BY <1>1, <1>7 DEF IInv, AnswersFit
<1>12. EnabledLater'
  BY <1>1, <1>7, SameEves DEF IInv, EnabledLater
<1>13. SlotsOwned'
  BY <1>1, <1>5, <1>6 DEF IInv, SlotsOwned, Holds, EntryKept
<1>14. PortsNamed'
  <2>1. \A p \in Ports : port'[p] = IF p = eport THEN n ELSE port[p]
    BY <1>1, <1>2
  <2>2. ASSUME NEW p \in Ports, port'[p] # None
        PROVE  at'[port'[p]] = p /\ pc'[port'[p]] # "none"
    <3>1. CASE p = eport
      BY <3>1, <2>1, <1>1, <1>2, <1>4
    <3>2. CASE p # eport
      <4>1. port'[p] = port[p] /\ port[p] \in Devs /\ at[port[p]] = p /\ pc[port[p]] # "none"
        BY <2>1, <2>2, <3>2, <1>2 DEF IInv, PortsNamed
      <4> QED BY <4>1, <1>1, <1>2, <1>4
    <3> QED BY <3>1, <3>2
  <2>3. ASSUME NEW d \in mgrTask, d \in signal \/ pc'[d] \in Handler
        PROVE  \A p \in Ports : port'[p] # d
    <3>1. d \in Devs
      BY <1>2 DEF IInv, Types, TypeOK, Devs
    <3>2. d # n
      BY <3>1, <1>4 DEF IInv, Beginnings
    <3> QED BY <3>1, <3>2, <2>1, <2>3, <1>4 DEF IInv, PortsNamed
  <2> QED BY <2>2, <2>3, <1>1, <1>6 DEF IInv, PortsNamed
<1>15. FaultWindows'
  BY <1>1 DEF FaultWindows
<1> QED BY <1>8, <1>9, <1>10, <1>11, <1>12, <1>13, <1>14, <1>15 DEF IInv

-----------------------------------------------------------------------------
(* The manager and its device                                               *)

(* The manager's step leaves requests, answers and slots where they are.    *)
LEMMA FlowKept ==
  ASSUME UNCHANGED <<eves, cmds, xfer>>
  PROVE  \A d : /\ ReqCmds(d)' = ReqCmds(d) /\ DisCmds(d)' = DisCmds(d)
                /\ ReqEves(d)' = ReqEves(d) /\ DisEves(d)' = DisEves(d)
                /\ Pending(d)' = Pending(d)
  BY SameCmds, SameEves DEF Pending

(* addr0Lock is free: no manager is addressing its device.                  *)
LEMMA BeginStep ==
  ASSUME IInv, epc \notin Faults, NEW d \in Devs, Begin(d) PROVE IInv'
<1> USE XHCIDeviceAssumption
<1>1. /\ UNCHANGED <<plug, changed, eves, owner, cmds, xfer, entry, epc, eport, edev, port>>
      /\ UNCHANGED <<made, at, ring, slotId, signal, stage, res, disabled>>
      /\ pc[d] = "start" /\ lock = None /\ lock' = d
      /\ mgrTask' = mgrTask \cup {d} /\ pc' = [pc EXCEPT ![d] = "ask"]
  BY DEF Begin, Goto, ctrl, flow, etsk, host, answ
<1>2. /\ pc \in [Devs -> Places]
      /\ made \in 0..MaxDevs /\ None \notin Devs
  BY DEF IInv, Types, TypeOK, Devs
<1>3. pc'[d] = "ask" /\ \A e \in Devs \ {d} : pc'[e] = pc[e]
  BY <1>1, <1>2
<1>4. /\ slotId[d] = None /\ stage[d] = "enable" /\ res[d] = None /\ ~Pending(d)
      /\ d \notin mgrTask /\ d \notin signal /\ d \notin disabled
      /\ DisCmds(d) = {} /\ DisEves(d) = {}
  <2>1. d \notin signal
    BY <1>1 DEF IInv, Types, TypeOK, Interruptible
  <2> QED BY <2>1, <1>1 DEF IInv, Beginnings, OneRequest, DisablesLast
<1>5. \A e : /\ ReqCmds(e)' = ReqCmds(e) /\ DisCmds(e)' = DisCmds(e)
             /\ ReqEves(e)' = ReqEves(e) /\ DisEves(e)' = DisEves(e) /\ Pending(e)' = Pending(e)
  BY <1>1, FlowKept
<1>6. Types'
  <2>1. /\ pc' \in [Devs -> Places]
        /\ signal' \subseteq {e \in Devs : pc'[e] \in Interruptible}
    BY <1>1, <1>2, <1>3, <1>4 DEF IInv, Types, TypeOK, Interruptible
  <2>2. d \in 1..made
    BY <1>1, <1>2 DEF IInv, Beginnings, Devs
  <2> QED BY <2>1, <2>2, <1>1 DEF IInv, Types, TypeOK
<1>7. Beginnings'
  BY <1>1, <1>3, <1>4 DEF IInv, Beginnings
<1>8. OneRequest' /\ DisablesLast'
  BY <1>1, <1>3, <1>4, <1>5 DEF IInv, OneRequest, DisablesLast
<1>9. AnswersFit' /\ EnabledLater'
  BY <1>1, <1>5, SameEves DEF IInv, AnswersFit, EnabledLater
<1>10. SlotsOwned'
  BY <1>1, <1>3, <1>4 DEF IInv, SlotsOwned, Holds, EntryKept
<1>11. LockKept'
  BY <1>1, <1>2, <1>3, <1>4, <1>5 DEF IInv, LockKept
<1>12. PortsNamed'
  BY <1>1, <1>3, <1>4 DEF IInv, PortsNamed, Types, TypeOK
<1>13. FaultWindows'
  BY <1>1 DEF FaultWindows, Faults
<1> QED BY <1>6, <1>7, <1>8, <1>9, <1>10, <1>11, <1>12, <1>13 DEF IInv

(* The error path of a manager: mgrTask is cleared before it signals itself.*)
LEMMA GiveUpStep ==
  ASSUME IInv, epc \notin Faults, NEW d \in Devs, Unname(d) \/ GiveUp(d) PROVE IInv'
<1>1. /\ UNCHANGED <<plug, changed, eves, owner, cmds, xfer, entry, lock, epc, eport, edev, port>>
      /\ UNCHANGED <<made, at, ring, slotId, stage, res, disabled>>
      /\ pc[d] \in {"unname", "giveUp"} /\ d \notin mgrTask' /\ mgrTask' \subseteq mgrTask
      /\ \A e \in Devs \ {d} : e \in mgrTask' <=> e \in mgrTask
      /\ signal \subseteq signal' /\ signal' \subseteq signal \cup {d}
      /\ \/ pc' = [pc EXCEPT ![d] = "giveUp"]
         \/ pc' = [pc EXCEPT ![d] = "halt"]
  BY DEF Unname, GiveUp, Goto, ctrl, flow, etsk, host, names, answ, IInv, PortsNamed
<1>2. pc \in [Devs -> Places]
  BY DEF IInv, Types, TypeOK
<1>3. pc'[d] \in {"giveUp", "halt"} /\ \A e \in Devs \ {d} : pc'[e] = pc[e]
  BY <1>1, <1>2
<1>4. ~Pending(d) /\ d \notin disabled /\ DisCmds(d) = {} /\ DisEves(d) = {}
  BY <1>1 DEF IInv, OneRequest, DisablesLast
<1>5. \A e : /\ ReqCmds(e)' = ReqCmds(e) /\ DisCmds(e)' = DisCmds(e)
             /\ ReqEves(e)' = ReqEves(e) /\ DisEves(e)' = DisEves(e) /\ Pending(e)' = Pending(e)
  BY <1>1, FlowKept
<1>6. Types'
  <2>1. pc' \in [Devs -> Places]
    BY <1>1, <1>2 DEF Interruptible
  <2>2. \A e \in signal' : e \in Devs /\ pc'[e] \in Interruptible
    BY <1>1, <1>3, TypeFacts DEF Interruptible
  <2> QED BY <2>2, <2>1, <1>1 DEF IInv, Types, TypeOK
<1>7. Beginnings'
  BY <1>1, <1>3 DEF IInv, Beginnings
<1>8. OneRequest' /\ DisablesLast'
  BY <1>1, <1>3, <1>4, <1>5 DEF IInv, OneRequest, DisablesLast
<1>9. AnswersFit' /\ EnabledLater'
  BY <1>1, <1>5, SameEves DEF IInv, AnswersFit, EnabledLater
<1>10. SlotsOwned'
  BY <1>1, <1>3 DEF IInv, SlotsOwned, Holds, EntryKept, Interruptible
<1>11. LockKept'
  BY <1>1, <1>3, <1>5 DEF IInv, LockKept
<1>12. PortsNamed'
  <2>1. \A p \in Ports : port[p] # None => pc'[port[p]] # "none"
    BY <1>3, TypeFacts DEF IInv, PortsNamed
  <2>2. \A e \in mgrTask' :
          /\ e \in mgrTask /\ (e \in signal' => e \in signal)
          /\ pc'[e] \in Handler => pc[e] \in Handler
    BY <1>1, <1>3, TypeFacts
  <2>3. \A e \in Devs : pc'[e] = "giveUp" => e \notin mgrTask'
    BY <1>1, <1>3 DEF IInv, PortsNamed
  <2> QED BY <2>1, <2>2, <2>3, <1>1 DEF IInv, PortsNamed
<1>13. FaultWindows'
  BY <1>1 DEF FaultWindows, Faults
<1> QED BY <1>6, <1>7, <1>8, <1>9, <1>10, <1>11, <1>12, <1>13 DEF IInv

(* The end of the signal's handler: the entry of the slot is cleared, maybe *)
(* late, and the manager is gone.                                           *)
LEMMA EndStep ==
  ASSUME IInv, epc \notin Faults, NEW d \in Devs, Clear(d) \/ Exit(d) PROVE IInv'
<1> USE XHCIDeviceAssumption
<1>1. /\ UNCHANGED <<plug, changed, eves, owner, cmds, xfer, lock, epc, eport, edev, port>>
      /\ UNCHANGED <<made, at, ring, slotId, mgrTask, signal, stage, res, disabled>>
      /\ \/ /\ pc[d] = "disableWait" /\ d \in disabled /\ pc' = [pc EXCEPT ![d] = "exit"]
            /\ entry' = [entry EXCEPT ![slotId[d]] = None]
         \/ pc[d] = "exit" /\ pc' = [pc EXCEPT ![d] = "gone"] /\ entry' = entry
  BY DEF Clear, Exit, Goto, ctrl, flow, etsk, host, dev, names, answ
<1>2. /\ pc \in [Devs -> Places]
      /\ slotId \in [Devs -> Slots \cup {None}] /\ entry \in [Slots -> Devs \cup {None}]
  BY DEF IInv, Types, TypeOK
<1>3. /\ pc[d] \in {"disableWait", "exit"} /\ pc'[d] \in {"exit", "gone"}
      /\ \A e \in Devs \ {d} : pc'[e] = pc[e]
  BY <1>1, <1>2
<1>4. \A e : /\ ReqCmds(e)' = ReqCmds(e) /\ DisCmds(e)' = DisCmds(e)
             /\ ReqEves(e)' = ReqEves(e) /\ DisEves(e)' = DisEves(e) /\ Pending(e)' = Pending(e)
  BY <1>1, FlowKept
<1>5. /\ entry' \in [Slots -> Devs \cup {None}]
      /\ \A s \in Slots : entry'[s] = entry[s] \/ s = slotId[d]
  BY <1>1, <1>2
<1>6. Types'
  <2>1. pc' \in [Devs -> Places]
    BY <1>1, <1>2 DEF Interruptible
  <2>2. \A e \in signal' : e \in Devs /\ pc'[e] \in Interruptible
    BY <1>1, <1>3, TypeFacts DEF Interruptible
  <2> QED BY <2>2, <2>1, <1>1, <1>5 DEF IInv, Types, TypeOK
<1>7. Beginnings'
  BY <1>1, <1>3 DEF IInv, Beginnings
<1>8. OneRequest'
  BY <1>1, <1>3, <1>4 DEF IInv, OneRequest
<1>9. DisablesLast'
  BY <1>1, <1>2, <1>3, <1>4 DEF IInv, DisablesLast
<1>10. AnswersFit' /\ EnabledLater'
  BY <1>1, <1>4, SameEves DEF IInv, AnswersFit, EnabledLater
<1>11. SlotsOwned'
  <2>1. ASSUME NEW e \in Devs, Holds(e)' PROVE owner'[slotId'[e]] = e
    BY <2>1, <1>1, <1>3 DEF IInv, SlotsOwned, Holds, Interruptible
  <2>2. ASSUME NEW e \in Devs, Holds(e)' \/ (pc'[e] = "disableWait" /\ e \notin disabled')
        PROVE  EntryKept(e)'
    <3>1. e # d /\ (Holds(e) \/ (pc[e] = "disableWait" /\ e \notin disabled))
      BY <2>2, <1>1, <1>3 DEF Holds, Interruptible
    <3>2. slotId[e] \in Slots
      BY <3>1, <1>2 DEF IInv, DisablesLast, Holds
    <3>3. EntryKept(e)
      BY <3>1 DEF IInv, SlotsOwned
    <3> QED BY <3>1, <3>2, <3>3, <1>1, <1>3, <1>5 DEF EntryKept
  <2> QED BY <2>1, <2>2 DEF SlotsOwned
<1>12. LockKept'
  BY <1>1, <1>3, <1>4 DEF IInv, LockKept
<1>13. PortsNamed'
  <2>1. ASSUME NEW e \in mgrTask, e \in signal \/ pc'[e] \in Handler
        PROVE  e \in signal \/ pc[e] \in Handler
    BY <2>1, <1>3, TypeFacts
  <2>2. \A p \in Ports : port[p] # None => pc'[port[p]] # "none"
    BY <1>3, TypeFacts DEF IInv, PortsNamed
  <2>3. \A e \in Devs : pc'[e] = "giveUp" => e \notin mgrTask
    BY <1>3 DEF IInv, PortsNamed
  <2> QED BY <2>1, <2>2, <2>3, <1>1 DEF IInv, PortsNamed
<1>14. FaultWindows'
  BY <1>1 DEF FaultWindows, Faults
<1> QED BY <1>6, <1>7, <1>8, <1>9, <1>10, <1>11, <1>12, <1>13, <1>14 DEF IInv

(* A manager takes or releases the lock of the command ring, or a signal    *)
(* makes it go on in the handler: what it had asked for stays on its way.   *)
LEMMA ManagerOnlyStep ==
  ASSUME IInv, epc \notin Faults, NEW d \in Devs, LockRing(d) \/ Unlock(d) \/ TakeInt(d)
  PROVE  IInv'
<1> USE XHCIDeviceAssumption
<1>1. /\ UNCHANGED <<plug, changed, eves, owner, cmds, xfer, entry, lock, epc, eport, edev, port>>
      /\ UNCHANGED <<made, at, slotId, mgrTask, stage, res, disabled>>
      /\ \/ pc[d] = "ask" /\ pc' = [pc EXCEPT ![d] = "insert"] /\ ring' = d /\ signal' = signal
         \/ /\ pc[d] = "inserted" /\ pc' = [pc EXCEPT ![d] = "wait"]
            /\ ring' = None /\ signal' = signal
         \/ /\ d \in signal /\ signal' = signal \ {d} /\ pc[d] \in Interruptible
            /\ slotId[d] = None /\ pc' = [pc EXCEPT ![d] = "exit"] /\ ring' = ring
         \/ /\ d \in signal /\ signal' = signal \ {d} /\ pc[d] \in Interruptible
            /\ slotId[d] # None /\ pc' = [pc EXCEPT ![d] = "disable"] /\ ring' = ring
  BY DEF LockRing, Unlock, TakeInt, Goto, ctrl, flow, etsk, host, names, answ
<1>2. /\ \/ pc[d] = "ask" /\ pc'[d] = "insert" /\ signal' = signal
         \/ pc[d] = "inserted" /\ pc'[d] = "wait" /\ signal' = signal
         \/ /\ pc'[d] = IF slotId[d] = None THEN "exit" ELSE "disable"
            /\ d \in signal /\ signal' = signal \ {d} /\ pc[d] \in Interruptible
      /\ \A e \in Devs \ {d} : pc'[e] = pc[e]
  BY <1>1, TypeFacts
<1>3. d \notin disabled /\ DisCmds(d) = {} /\ DisEves(d) = {}
  BY <1>2 DEF IInv, DisablesLast, Interruptible
<1>4. \A e : /\ ReqCmds(e)' = ReqCmds(e) /\ DisCmds(e)' = DisCmds(e)
             /\ ReqEves(e)' = ReqEves(e) /\ DisEves(e)' = DisEves(e) /\ Pending(e)' = Pending(e)
  BY <1>1, FlowKept
<1>5. Types'
  <2>1. pc' \in [Devs -> Places]
    BY <1>1, TypeFacts DEF Interruptible
  <2>2. \A e \in signal' : e \in Devs /\ pc'[e] \in Interruptible
    BY <1>1, <1>2, TypeFacts DEF Interruptible
  <2>3. ring' \in Devs \cup {None}
    BY <1>1 DEF IInv, Types, TypeOK
  <2> QED BY <2>1, <2>2, <2>3, <1>1 DEF IInv, Types, TypeOK
<1>6. Beginnings'
  BY <1>1, <1>2 DEF IInv, Beginnings, Interruptible
<1>7. OneRequest'
  <2>1. pc[d] = "ask" => ~Pending(d)
    BY DEF IInv, OneRequest
  <2> QED BY <2>1, <1>1, <1>2, <1>4 DEF IInv, OneRequest
<1>8. DisablesLast'
  BY <1>1, <1>2, <1>3, <1>4 DEF IInv, DisablesLast
<1>9. AnswersFit' /\ EnabledLater'
  BY <1>1, <1>4, SameEves DEF IInv, AnswersFit, EnabledLater
<1>10. SlotsOwned'
  <2>1. \A e \in Devs : EntryKept(e) => EntryKept(e)'
    BY <1>1, <1>2 DEF EntryKept, Interruptible
  <2>2. \A e \in Devs : /\ Holds(e)' => Holds(e)
                        /\ pc'[e] = "disableWait" => pc[e] = "disableWait"
    BY <1>1, <1>2 DEF Holds, Interruptible
  <2> QED BY <2>1, <2>2, <1>1 DEF IInv, SlotsOwned
<1>11. LockKept'
  BY <1>1, <1>2, <1>4 DEF IInv, LockKept
<1>12. PortsNamed'
  <2>1. \A p \in Ports : port[p] # None => pc'[port[p]] # "none"
    BY <1>2, TypeFacts DEF IInv, PortsNamed
  <2>2. \A e \in mgrTask :
          e \in signal' \/ pc'[e] \in Handler => e \in signal \/ pc[e] \in Handler
    BY <1>1, <1>2, TypeFacts
  <2>3. \A e \in Devs : pc'[e] = "giveUp" => e \notin mgrTask
    BY <1>2 DEF IInv, PortsNamed
  <2> QED BY <2>1, <2>2, <2>3, <1>1 DEF IInv, PortsNamed
<1>13. FaultWindows'
  BY <1>1 DEF FaultWindows, Faults
<1> QED BY <1>5, <1>6, <1>7, <1>8, <1>9, <1>10, <1>11, <1>12, <1>13 DEF IInv

(* A manager asks for something when nothing of it is on its way.           *)
LEMMA AskStep ==
  ASSUME IInv, epc \notin Faults, NEW d \in Devs, AskTransfer(d) \/ Insert(d) PROVE IInv'
<1> USE XHCIDeviceAssumption
<1> DEFINE c == [kind |-> stage[d], dev |-> d]
<1>1. /\ UNCHANGED <<plug, changed, eves, owner, entry, lock, epc, eport, edev, port>>
      /\ UNCHANGED <<made, at, ring, slotId, mgrTask, signal, stage, res, disabled>>
      /\ pc[d] \in {"ask", "insert"} /\ ring' = ring
      /\ \/ pc' = [pc EXCEPT ![d] = "wait"]
         \/ pc' = [pc EXCEPT ![d] = "inserted"]
      /\ \/ xfer' = xfer /\ cmds' = Append(cmds, c)
         \/ stage[d] \in ByTransfer /\ xfer' = xfer \cup {d} /\ cmds' = cmds
  BY DEF AskTransfer, Insert, Goto, ctrl, etsk, host, names, answ
<1>2. pc'[d] \in {"wait", "inserted"} /\ \A e \in Devs \ {d} : pc'[e] = pc[e]
  BY <1>1, TypeFacts
<1>3. /\ ~Pending(d) /\ res[d] = None /\ d \notin disabled
      /\ DisCmds(d) = {} /\ DisEves(d) = {} /\ ReqCmds(d) = {} /\ ReqEves(d) = {} /\ d \notin xfer
  BY <1>1 DEF IInv, Beginnings, OneRequest, DisablesLast, Pending
<1>4. \A e : ReqEves(e)' = ReqEves(e) /\ DisEves(e)' = DisEves(e)
  BY <1>1, SameEves
<1>5. /\ cmds' \in Seq(Commands)
      /\ \A e \in Devs : \A i : i \in DisCmds(e)' <=> i \in DisCmds(e)
      /\ \A e \in Devs \ {d} : \A i : /\ i \in ReqCmds(e)' <=> i \in ReqCmds(e)
                                      /\ i \in ReqCmds(e) => cmds'[i] = cmds[i]
      /\ \A i, j \in ReqCmds(d)' : i = j
      /\ \A i \in ReqCmds(d)' : cmds'[i].kind = stage[d]
      /\ ReqCmds(d)' = {} \/ d \notin xfer'
      /\ d \in xfer' => stage[d] # "enable"
  <2>1. CASE cmds' = Append(cmds, c) /\ xfer' = xfer
    <3>1. c \in Commands /\ c.kind # "disable" /\ c.dev = d /\ c.kind = stage[d]
      <4>1. stage[d] \in Stages /\ "disable" \notin Stages
        BY DEF Stages, ByCommand, ByTransfer, IInv, Types
      <4> QED BY <4>1 DEF Commands
    <3>2. Types
      BY DEF IInv
    <3>3. /\ \A e \in Devs : \A i :
               /\ i \in ReqCmds(e)' <=> i \in ReqCmds(e) \/ (i = Len(cmds) + 1 /\ e = d)
               /\ i \in DisCmds(e)' <=> i \in DisCmds(e)
               /\ i \in ReqCmds(e) => cmds'[i] = cmds[i]
          /\ cmds'[Len(cmds) + 1].kind = stage[d] /\ cmds' \in Seq(Commands)
      <4> HIDE DEF c
      <4>1. /\ \A e \in Devs : \A i :
                 /\ i \in ReqCmds(e)' <=> i \in ReqCmds(e) \/ (i = Len(cmds) + 1 /\ e = d)
                 /\ i \in DisCmds(e)' <=> i \in DisCmds(e)
            /\ cmds'[Len(cmds) + 1] = c /\ cmds' \in Seq(Commands)
        BY <2>1, <3>1, <3>2, CmdsAfterAppend
      <4>2. \A e \in Devs : \A i : i \in ReqCmds(e) => cmds'[i] = cmds[i]
        BY <2>1, <3>1, <3>2, CmdsAppended DEF ReqCmds
      <4> QED BY <4>1, <4>2, <3>1
    <3>4. \A i : i \in ReqCmds(d)' <=> i = Len(cmds) + 1
      BY <3>3, <1>3
    <3>5. \A i \in ReqCmds(d)' : cmds'[i].kind = stage[d]
      BY <3>3, <3>4
    <3>6. d \notin xfer'
      BY <2>1, <1>3
    <3>7. \A e \in Devs \ {d} : \A i : /\ i \in ReqCmds(e)' <=> i \in ReqCmds(e)
                                       /\ i \in ReqCmds(e) => cmds'[i] = cmds[i]
      BY <3>3
    <3> QED BY <3>3, <3>4, <3>5, <3>6, <3>7
  <2>2. CASE cmds' = cmds /\ stage[d] \in ByTransfer /\ xfer' = xfer \cup {d}
    <3>1. \A e : ReqCmds(e)' = ReqCmds(e) /\ DisCmds(e)' = DisCmds(e)
      BY <2>2, SameCmds
    <3> QED BY <2>2, <3>1, <1>3 DEF IInv, Types, ByTransfer
  <2> QED BY <1>1, <2>1, <2>2
<1> HIDE DEF c
<1>6. ASSUME NEW e \in Devs \ {d}
      PROVE  /\ ReqCmds(e)' = ReqCmds(e) /\ DisCmds(e)' = DisCmds(e)
             /\ (e \in xfer' <=> e \in xfer) /\ Pending(e)' = Pending(e)
  <2>1. \A i : i \in ReqCmds(e)' <=> i \in ReqCmds(e)
    BY <1>5
  <2>2. \A i : i \in DisCmds(e)' <=> i \in DisCmds(e)
    BY <1>5
  <2>3. ReqCmds(e)' = ReqCmds(e) /\ DisCmds(e)' = DisCmds(e) /\ (e \in xfer' <=> e \in xfer)
    BY <2>1, <2>2, <1>1
  <2> QED BY <2>3, <1>4 DEF Pending
<1>7. DisCmds(d)' = {} /\ DisEves(d)' = {} /\ ReqEves(d)' = {}
  BY <1>3, <1>4, <1>5
<1>8. Types'
  <2>1. /\ pc' \in [Devs -> Places]
        /\ xfer' \subseteq Devs
    BY <1>1, TypeFacts DEF Interruptible, IInv, Types
  <2>2. \A e \in signal' : e \in Devs /\ pc'[e] \in Interruptible
    BY <1>1, <1>2, TypeFacts DEF Interruptible
  <2> QED BY <2>1, <2>2, <1>1, <1>5 DEF IInv, Types, TypeOK
<1>9. Beginnings'
  BY <1>1, <1>2 DEF IInv, Beginnings
<1>10. OneRequest'
  BY <1>1, <1>2, <1>3, <1>4, <1>5, <1>6, <1>7 DEF IInv, OneRequest
<1>11. AnswersFit'
  <2>1. ASSUME NEW e \in Devs \ {d}
        PROVE  \A i \in ReqCmds(e)' : cmds'[i].kind = stage'[e]
    <3>1. \A i \in ReqCmds(e)' : i \in ReqCmds(e) /\ cmds'[i] = cmds[i]
      BY <1>5
    <3> QED BY <3>1, <1>1 DEF IInv, AnswersFit
  <2> QED BY <2>1, <1>1, <1>4, <1>5, <1>6 DEF IInv, AnswersFit
<1>12. DisablesLast'
  BY <1>1, <1>2, <1>3, <1>4, <1>6, <1>7 DEF IInv, DisablesLast
<1>13. EnabledLater'
  BY <1>1, <1>4, SameEves DEF IInv, EnabledLater
<1>14. SlotsOwned'
  BY <1>1, <1>2 DEF IInv, SlotsOwned, Holds, EntryKept, Interruptible
<1>15. LockKept'
  BY <1>1, <1>2, <1>6 DEF IInv, LockKept, Addressing
<1>16. PortsNamed'
  <2>1. \A p \in Ports : port[p] # None => pc'[port[p]] # "none"
    BY <1>2, TypeFacts DEF IInv, PortsNamed
  <2>2. \A e \in mgrTask : pc'[e] \in Handler => pc[e] \in Handler
    BY <1>2, TypeFacts
  <2>3. \A e \in Devs : pc'[e] = "giveUp" => e \notin mgrTask
    BY <1>2 DEF IInv, PortsNamed
  <2> QED BY <2>1, <2>2, <2>3, <1>1 DEF IInv, PortsNamed
<1>17. FaultWindows'
  BY <1>1 DEF FaultWindows, Faults
<1> QED BY <1>8, <1>9, <1>10, <1>11, <1>12, <1>13, <1>14, <1>15, <1>16, <1>17 DEF IInv

(* HW_USB_XHCI_devMgrTask_int: DisableSlot comes after what the manager had *)
(* asked for.                                                               *)
LEMMA HandlerStep ==
  ASSUME IInv, epc \notin Faults, NEW d \in Devs, Disable(d) PROVE IInv'
<1> USE XHCIDeviceAssumption
<1> DEFINE c == [kind |-> "disable", dev |-> d]
<1>1. /\ UNCHANGED <<plug, changed, eves, owner, xfer, entry, lock, epc, eport, edev, port>>
      /\ UNCHANGED <<made, at, slotId, mgrTask, stage, res, disabled, ring, signal>>
      /\ pc[d] = "disable" /\ pc' = [pc EXCEPT ![d] = "disableWait"]
      /\ cmds' = Append(cmds, c) /\ slotId[d] # None
  BY DEF Disable, Goto, HandlerWaits, ctrl, etsk, host, names, answ, IInv, Beginnings
<1>2. pc'[d] = "disableWait" /\ \A e \in Devs \ {d} : pc'[e] = pc[e]
  BY <1>1, TypeFacts
<1>3. d \notin disabled /\ DisCmds(d) = {} /\ DisEves(d) = {}
  BY <1>1 DEF IInv, DisablesLast, Interruptible
<1>4. \A e : ReqEves(e)' = ReqEves(e) /\ DisEves(e)' = DisEves(e)
  BY <1>1, SameEves
<1>5. /\ cmds' \in Seq(Commands)
      /\ \A e \in Devs : \A i : /\ i \in ReqCmds(e)' <=> i \in ReqCmds(e)
                                /\ i \in ReqCmds(e) => cmds'[i] = cmds[i]
      /\ \A e \in Devs \ {d} : \A i : i \in DisCmds(e)' <=> i \in DisCmds(e)
      /\ \A i, j \in DisCmds(d)' : i = j
      /\ \A i \in DisCmds(d)', j \in ReqCmds(d)' : j < i
      /\ DisCmds(d)' # {}
  <2>1. c \in Commands /\ c.kind = "disable" /\ c.dev = d
    BY DEF Commands
  <2>2. Types /\ Len(cmds) \in Nat
    BY DEF IInv, Types
  <2>3. /\ \A e \in Devs : \A i :
             /\ i \in DisCmds(e)' <=> i \in DisCmds(e) \/ (i = Len(cmds) + 1 /\ e = d)
             /\ i \in ReqCmds(e)' <=> i \in ReqCmds(e)
             /\ i \in ReqCmds(e) => i \in Nat /\ i <= Len(cmds) /\ cmds'[i] = cmds[i]
        /\ cmds' \in Seq(Commands)
    <3> HIDE DEF c
    <3>1. /\ \A e \in Devs : \A i :
               /\ i \in DisCmds(e)' <=> i \in DisCmds(e) \/ (i = Len(cmds) + 1 /\ e = d)
               /\ i \in ReqCmds(e)' <=> i \in ReqCmds(e)
          /\ cmds' \in Seq(Commands)
      BY <1>1, <2>1, <2>2, CmdsAfterAppend
    <3>2. \A e \in Devs : \A i :
            i \in ReqCmds(e) => i \in Nat /\ i <= Len(cmds) /\ cmds'[i] = cmds[i]
      BY <1>1, <2>1, <2>2, CmdsAppended DEF ReqCmds
    <3> QED BY <3>1, <3>2
  <2>4. \A i : i \in DisCmds(d)' <=> i = Len(cmds) + 1
    BY <2>3, <1>3
  <2>5. DisCmds(d)' # {}
    BY <2>4
  <2>6. \A i \in DisCmds(d)', j \in ReqCmds(d)' : j < i
    BY <2>2, <2>3, <2>4
  <2>7. \A e \in Devs \ {d} : \A i : i \in DisCmds(e)' <=> i \in DisCmds(e)
    BY <2>3
  <2>8. \A e \in Devs : \A i : /\ i \in ReqCmds(e)' <=> i \in ReqCmds(e)
                               /\ i \in ReqCmds(e) => cmds'[i] = cmds[i]
    BY <2>3
  <2>9. \A i, j \in DisCmds(d)' : i = j
    BY <2>4
  <2>10. cmds' \in Seq(Commands)
    BY <2>3
  <2> QED BY <1>1, <2>5, <2>6, <2>7, <2>8, <2>9, <2>10
<1> HIDE DEF c
<1>6. ASSUME NEW e \in Devs PROVE ReqCmds(e)' = ReqCmds(e) /\ Pending(e)' = Pending(e)
  <2>1. \A i : i \in ReqCmds(e)' <=> i \in ReqCmds(e)
    BY <1>5
  <2>2. ReqCmds(e)' = ReqCmds(e)
    BY <2>1
  <2> QED BY <2>2, <1>1, <1>4 DEF Pending
<1>7. ASSUME NEW e \in Devs \ {d} PROVE DisCmds(e)' = DisCmds(e)
  <2>1. \A i : i \in DisCmds(e)' <=> i \in DisCmds(e)
    BY <1>5
  <2> QED BY <2>1
<1>8. owner[slotId[d]] = d /\ EntryKept(d)
  BY <1>1 DEF IInv, SlotsOwned, Holds
<1>9. Types'
  <2>1. pc' \in [Devs -> Places]
    BY <1>1, TypeFacts
  <2>2. \A e \in signal' : e \in Devs /\ pc'[e] \in Interruptible
    BY <1>1, <1>2, TypeFacts DEF Interruptible
  <2> QED BY <2>1, <2>2, <1>1, <1>5 DEF IInv, Types, TypeOK
<1>10. Beginnings'
  BY <1>1, <1>2 DEF IInv, Beginnings, Interruptible
<1>11. OneRequest'
  BY <1>1, <1>2, <1>4, <1>6 DEF IInv, OneRequest
<1>12. AnswersFit'
  <2>1. ASSUME NEW e \in Devs
        PROVE  \A i \in ReqCmds(e)' : cmds'[i].kind = stage'[e]
    <3>1. \A i \in ReqCmds(e)' : i \in ReqCmds(e) /\ cmds'[i] = cmds[i]
      BY <1>5
    <3> QED BY <3>1, <1>1 DEF IInv, AnswersFit
  <2> QED BY <2>1, <1>1, <1>4, <1>6 DEF IInv, AnswersFit
<1>13. DisablesLast'
  <2>1. ASSUME NEW e \in Devs
        PROVE  /\ \A i, j \in DisCmds(e)' : i = j
               /\ \A i \in DisCmds(e)', j \in ReqCmds(e)' : j < i
               /\ DisCmds(e)' # {} => DisEves(e) = {} /\ owner[slotId[e]] = e
               /\ DisCmds(e)' # {} \/ DisEves(e) # {} =>
                    pc'[e] = "disableWait" /\ e \notin disabled /\ slotId[e] # None
               /\ DisEves(e) # {} => ReqCmds(e)' = {} /\ e \notin xfer
               /\ e \in disabled => ~Pending(e) /\ pc'[e] \in {"disableWait", "exit", "gone"}
               /\ pc'[e] = "disableWait" /\ e \notin disabled => DisCmds(e)' # {} \/ DisEves(e) # {}
               /\ pc'[e] \in {"exit", "gone"} /\ slotId[e] # None => e \in disabled
    <3>1. CASE e = d
      BY <3>1, <1>1, <1>2, <1>3, <1>5, <1>6, <1>8
    <3>2. CASE e # d
      BY <3>2, <1>2, <1>6, <1>7 DEF IInv, DisablesLast
    <3> QED BY <3>1, <3>2
  <2> QED BY <2>1, <1>1, <1>4, <1>6 DEF IInv, DisablesLast
<1>14. EnabledLater'
  BY <1>1, <1>4, SameEves DEF IInv, EnabledLater
<1>15. SlotsOwned'
  <2>1. \A e \in Devs : EntryKept(e) => EntryKept(e)'
    BY <1>1, <1>2 DEF EntryKept, Interruptible
  <2>2. \A e \in Devs \ {d} : Holds(e)' <=> Holds(e)
    BY <1>1, <1>2 DEF Holds
  <2>3. ~Holds(d)'
    BY <1>2 DEF Holds, Interruptible
  <2> QED BY <2>1, <2>2, <2>3, <1>1, <1>2, <1>8 DEF IInv, SlotsOwned
<1>16. LockKept'
  BY <1>1, <1>2, <1>6 DEF IInv, LockKept
<1>17. PortsNamed'
  <2>1. \A p \in Ports : port[p] # None => pc'[port[p]] # "none"
    BY <1>2, TypeFacts DEF IInv, PortsNamed
  <2>2. \A e \in mgrTask :
          e \in signal' \/ pc'[e] \in Handler => e \in signal \/ pc[e] \in Handler
    BY <1>1, <1>2, TypeFacts
  <2>3. \A e \in Devs : pc'[e] = "giveUp" => e \notin mgrTask
    BY <1>2 DEF IInv, PortsNamed
  <2> QED BY <2>1, <2>2, <2>3, <1>1 DEF IInv, PortsNamed
<1>18. FaultWindows'
  BY <1>1 DEF FaultWindows, Faults
<1> QED BY <1>9, <1>10, <1>11, <1>12, <1>13, <1>14, <1>15, <1>16, <1>17, <1>18 DEF IInv

(* What an answer means: the manager's slot is enabled, it goes on in a     *)
(* later stage, or it stops.                                                *)
NewSlot(d) ==
  /\ stage[d] = "enable" /\ res[d] # "failed"
  /\ stage' = [stage EXCEPT ![d] = "address"] /\ pc' = [pc EXCEPT ![d] = "ask"]
  /\ slotId' = [slotId EXCEPT ![d] = res[d]] /\ entry' = [entry EXCEPT ![res[d]] = d]
GoesOn(d) ==
  /\ stage[d] # "enable" /\ slotId' = slotId /\ entry' = entry
  /\ \E st \in Stages \ Addressing : stage' = [stage EXCEPT ![d] = st]
  /\ pc' = [pc EXCEPT ![d] = "ask"]
Stops(d) ==
  /\ res[d] = "failed" /\ slotId' = slotId /\ entry' = entry /\ stage' = stage
  /\ pc' \in {[pc EXCEPT ![d] = "halt"], [pc EXCEPT ![d] = "unname"]}

(* An answer is one of these, and there is no other on its way.             *)
LEMMA AnsweredCases ==
  ASSUME IInv, NEW d \in Devs, Answered(d)
  PROVE  /\ UNCHANGED <<plug, changed, eves, cmds, xfer, owner, epc, eport, edev, port>>
         /\ UNCHANGED <<made, at, ring, mgrTask, signal, disabled>>
         /\ pc[d] = "wait" /\ res[d] # None /\ res' = [res EXCEPT ![d] = None]
         /\ lock' = IF Unlocks(d) THEN None ELSE lock
         /\ NewSlot(d) \/ GoesOn(d) \/ Stops(d)
         /\ ~Pending(d) /\ d \notin disabled /\ DisCmds(d) = {} /\ DisEves(d) = {}
<1>1. /\ UNCHANGED <<plug, changed, eves, cmds, xfer, owner, epc, eport, edev, port>>
      /\ UNCHANGED <<made, at, ring, mgrTask, signal, disabled>>
      /\ pc[d] = "wait" /\ res[d] # None /\ res' = [res EXCEPT ![d] = None]
      /\ lock' = IF Unlocks(d) THEN None ELSE lock
  BY DEF Answered, ctrl, flow, etsk, host
<1>2. stage[d] \in Stages
  BY DEF IInv, Types
<1>3. \/ /\ res[d] # "failed" /\ Goto(d, "ask")
         /\ \E st \in After(stage[d]) : stage' = [stage EXCEPT ![d] = st]
         /\ IF stage[d] = "enable"
            THEN slotId' = [slotId EXCEPT ![d] = res[d]] /\ entry' = SlotSaved(d)
            ELSE UNCHANGED <<slotId, entry>>
      \/ /\ res[d] = "failed" /\ Goto(d, IF stage[d] = "driver" THEN "halt" ELSE "unname")
         /\ UNCHANGED <<stage, slotId, entry>>
      \/ /\ res[d] = "failed" /\ stage[d] = "driver" /\ Goto(d, "ask")
         /\ UNCHANGED <<stage, slotId, entry>>
  BY DEF Answered
<1>4. NewSlot(d) \/ GoesOn(d) \/ Stops(d)
  <2>1. CASE res[d] # "failed" /\ stage[d] = "enable"
    <3>1. After("enable") = {"address"}
      BY DEF After
    <3> QED BY <1>3, <2>1, <3>1 DEF Goto, SlotSaved, NewSlot
  <2>2. CASE res[d] # "failed" /\ stage[d] # "enable"
    <3>1. /\ After("address") = {"desc"} /\ After("desc") = {"eval"} /\ After("eval") = {"config"}
          /\ After("config") = {"config", "driver"} /\ After("driver") = {"driver"}
      BY DEF After
    <3>2. stage[d] \in {"address", "desc", "eval", "config", "driver"}
      BY <1>2, <2>2 DEF Stages, ByCommand, ByTransfer
    <3>3. {"desc", "eval", "config", "driver"} \subseteq Stages \ Addressing
      BY DEF Stages, ByCommand, ByTransfer, Addressing
    <3>4. After(stage[d]) \subseteq {"desc", "eval", "config", "driver"}
      BY <3>1, <3>2
    <3>5. \E st \in Stages \ Addressing : stage' = [stage EXCEPT ![d] = st]
      BY <3>3, <3>4, <1>3, <2>2
    <3> QED BY <3>5, <1>3, <2>2 DEF Goto, GoesOn
  <2>3. CASE res[d] = "failed"
    <3>1. UNCHANGED <<stage, slotId, entry>>
      BY <1>3, <2>3
    <3>2. CASE pc' \in {[pc EXCEPT ![d] = "halt"], [pc EXCEPT ![d] = "unname"]}
      BY <2>3, <3>1, <3>2 DEF Stops
    <3>3. CASE stage[d] = "driver" /\ pc' = [pc EXCEPT ![d] = "ask"]
      <4>1. stage' = [stage EXCEPT ![d] = "driver"]
        BY <3>1, <3>3 DEF IInv, Types
      <4>2. "driver" \in Stages \ Addressing /\ stage[d] # "enable"
        BY <3>3 DEF Stages, ByCommand, Addressing
      <4> QED BY <3>1, <3>3, <4>1, <4>2 DEF GoesOn
    <3>4. \/ pc' \in {[pc EXCEPT ![d] = "halt"], [pc EXCEPT ![d] = "unname"]}
          \/ stage[d] = "driver" /\ pc' = [pc EXCEPT ![d] = "ask"]
      BY <1>3, <2>3 DEF Goto
    <3> QED BY <3>2, <3>3, <3>4
  <2> QED BY <2>1, <2>2, <2>3
<1>5. ~Pending(d) /\ d \notin disabled /\ DisCmds(d) = {} /\ DisEves(d) = {}
  BY <1>1 DEF IInv, OneRequest, DisablesLast
<1> QED BY <1>1, <1>4, <1>5

(* The manager takes its answer; a new slot is nobody else's, and an old    *)
(* owner has heard that it was disabled.                                    *)
LEMMA AnsweredStep ==
  ASSUME IInv, epc \notin Faults, NEW d \in Devs, Answered(d) PROVE IInv'
<1> USE XHCIDeviceAssumption
<1>1. /\ UNCHANGED <<plug, changed, eves, cmds, xfer, owner, epc, eport, edev, port>>
      /\ UNCHANGED <<made, at, ring, mgrTask, signal, disabled>>
      /\ pc[d] = "wait" /\ res[d] # None /\ res' = [res EXCEPT ![d] = None]
      /\ lock' = IF Unlocks(d) THEN None ELSE lock
      /\ ~Pending(d) /\ d \notin disabled /\ DisCmds(d) = {} /\ DisEves(d) = {}
  BY AnsweredCases
<1>2. NewSlot(d) \/ GoesOn(d) \/ Stops(d)
  BY AnsweredCases
<1>3. /\ stage \in [Devs -> Stages] /\ res \in [Devs -> Answers \cup {None}]
      /\ slotId \in [Devs -> Slots \cup {None}] /\ entry \in [Slots -> Devs \cup {None}]
      /\ None \notin Slots
  BY DEF IInv, Types, TypeOK
<1>4. /\ pc'[d] \in {"ask", "halt", "unname"} /\ \A e \in Devs \ {d} : pc'[e] = pc[e]
      /\ pc' \in [Devs -> Places]
  BY <1>2, TypeFacts DEF NewSlot, GoesOn, Stops, Interruptible
<1>5. /\ res'[d] = None /\ res' \in [Devs -> Answers \cup {None}]
      /\ \A e \in Devs \ {d} : res'[e] = res[e] /\ stage'[e] = stage[e] /\ slotId'[e] = slotId[e]
  BY <1>1, <1>2, <1>3 DEF NewSlot, GoesOn, Stops
<1>6. NewSlot(d) => res[d] \in Slots /\ owner[res[d]] = d /\ slotId[d] = None /\ lock = d
  BY <1>1 DEF IInv, Beginnings, AnswersFit, LockKept, Addressing, NewSlot
<1>7. /\ NewSlot(d) => slotId'[d] = res[d] /\ stage'[d] = "address"
      /\ ~NewSlot(d) => slotId'[d] = slotId[d] /\ (stage'[d] = "enable" <=> stage[d] = "enable")
      /\ stage' \in [Devs -> Stages]
  <2>1. "address" \in Stages
    BY DEF Stages, ByCommand
  <2> QED BY <2>1, <1>2, <1>3 DEF NewSlot, GoesOn, Stops, Addressing
<1>8. /\ entry' \in [Slots -> Devs \cup {None}]
      /\ NewSlot(d) => \A s \in Slots : entry'[s] = IF s = res[d] THEN d ELSE entry[s]
      /\ ~NewSlot(d) => entry' = entry
  BY <1>2, <1>3, <1>6 DEF NewSlot, GoesOn, Stops
<1>9. \A e : /\ ReqCmds(e)' = ReqCmds(e) /\ DisCmds(e)' = DisCmds(e)
             /\ ReqEves(e)' = ReqEves(e) /\ DisEves(e)' = DisEves(e) /\ Pending(e)' = Pending(e)
  BY <1>1, FlowKept
<1>10. Types'
  <2>1. slotId' \in [Devs -> Slots \cup {None}]
    BY <1>2, <1>3, <1>6 DEF NewSlot, GoesOn, Stops
  <2>2. \A e \in signal' : e \in Devs /\ pc'[e] \in Interruptible
    BY <1>1, <1>4, TypeFacts DEF Interruptible
  <2>3. lock' \in Devs \cup {None}
    BY <1>1 DEF IInv, Types, TypeOK
  <2> QED BY <2>1, <2>2, <2>3, <1>1, <1>4, <1>5, <1>7, <1>8 DEF IInv, Types, TypeOK
<1>11. Beginnings'
  <2>1. slotId'[d] = None <=> stage'[d] = "enable"
    BY <1>3, <1>6, <1>7 DEF IInv, Beginnings
  <2> QED BY <2>1, <1>1, <1>4, <1>5 DEF IInv, Beginnings
<1>12. OneRequest'
  BY <1>1, <1>4, <1>5, <1>9 DEF IInv, OneRequest
<1>13. AnswersFit'
  <2>1. ReqCmds(d) = {} /\ ReqEves(d) = {} /\ d \notin xfer
    BY <1>1 DEF Pending
  <2> QED BY <2>1, <1>1, <1>3, <1>5, <1>9 DEF IInv, AnswersFit
<1>14. DisablesLast'
  <2>1. ASSUME NEW e \in Devs, e # d, DisCmds(e) # {} \/ DisEves(e) # {}
        PROVE  slotId'[e] = slotId[e]
    BY <2>1, <1>5
  <2>2. pc[d] \notin {"exit", "gone", "disableWait"} /\ pc'[d] \notin {"exit", "gone", "disableWait"}
    BY <1>1, <1>4
  <2> QED BY <2>1, <2>2, <1>1, <1>4, <1>5, <1>9 DEF IInv, DisablesLast
<1>15. EnabledLater'
  <2>1. ASSUME NEW e \in Devs, DisEves(e) # {}
        PROVE  e # d /\ slotId'[e] = slotId[e] /\ slotId[e] # None
    BY <2>1, <1>1, <1>5 DEF IInv, DisablesLast
  <2> QED BY <2>1, <1>1, <1>5, <1>9, SameEves DEF IInv, EnabledLater
<1>16. SlotsOwned'
  <2>1. ASSUME NEW e \in Devs, Holds(e)' PROVE owner'[slotId'[e]] = e
    <3>1. CASE e = d /\ NewSlot(d)
      BY <3>1, <1>1, <1>6, <1>7
    <3>2. CASE e = d /\ ~NewSlot(d)
      BY <2>1, <3>2, <1>1, <1>7 DEF IInv, SlotsOwned, Holds, Interruptible
    <3>3. CASE e # d
      BY <2>1, <3>3, <1>1, <1>4, <1>5 DEF IInv, SlotsOwned, Holds
    <3> QED BY <3>1, <3>2, <3>3
  <2>2. ASSUME NEW e \in Devs, EntryKept(e), ~NewSlot(d) PROVE EntryKept(e)'
    <3>1. \A f \in Devs : slotId'[f] = slotId[f]
      BY <2>2, <1>5, <1>7
    <3>2. \A f \in Devs : pc[f] \in {"exit", "gone"} => pc'[f] = pc[f]
      BY <1>1, <1>4
    <3> QED BY <2>2, <3>1, <3>2, <1>8 DEF EntryKept
  <2>3. ASSUME NEW e \in Devs \ {d}, EntryKept(e), NewSlot(d), slotId[e] \in Slots \ {res[d]}
        PROVE  EntryKept(e)'
    <3>1. \A f \in Devs : pc[f] \in {"exit", "gone"} => pc'[f] = pc[f] /\ slotId'[f] = slotId[f]
      BY <1>1, <1>4, <1>5
    <3>2. slotId'[e] = slotId[e] /\ entry'[slotId[e]] = entry[slotId[e]]
      BY <2>3, <1>5, <1>8
    <3> QED BY <2>3, <3>1, <3>2 DEF EntryKept
  <2>4. ASSUME NEW e \in Devs, Holds(e)' \/ (pc'[e] = "disableWait" /\ e \notin disabled')
        PROVE  EntryKept(e)'
    <3>1. CASE e = d /\ NewSlot(d)
      BY <3>1, <1>6, <1>7, <1>8 DEF EntryKept
    <3>2. CASE ~NewSlot(d)
      <4>1. Holds(e) \/ (pc[e] = "disableWait" /\ e \notin disabled)
        BY <2>4, <3>2, <1>1, <1>4, <1>5, <1>7 DEF Holds, Interruptible
      <4> QED BY <4>1, <3>2, <2>2 DEF IInv, SlotsOwned
    <3>3. CASE e # d /\ NewSlot(d)
      <4>1. Holds(e) \/ (pc[e] = "disableWait" /\ e \notin disabled)
        BY <2>4, <3>3, <1>1, <1>4, <1>5 DEF Holds
      <4>2. Holds(e) \/ DisCmds(e) # {} \/ DisEves(e) # {}
        BY <4>1 DEF IInv, DisablesLast
      <4>3. slotId[e] # None
        BY <4>2 DEF IInv, DisablesLast, Holds
      <4>4. slotId[e] # res[d]
        <5>1. Holds(e) \/ DisCmds(e) # {} => owner[slotId[e]] = e
          BY DEF IInv, SlotsOwned, DisablesLast
        <5>2. DisEves(e) # {} => slotId[e] # res[d]
          BY DEF IInv, EnabledLater
        <5> QED BY <4>2, <5>1, <5>2, <3>3, <1>6
      <4> QED BY <4>1, <4>3, <4>4, <3>3, <2>3, <1>3 DEF IInv, SlotsOwned
    <3> QED BY <3>1, <3>2, <3>3
  <2> QED BY <2>1, <2>4 DEF SlotsOwned
<1>17. LockKept'
  <2>1. stage[d] \in Addressing => lock = d
    BY <1>1 DEF IInv, LockKept
  <2>2. \A e \in Devs \ {d} : lock = e => lock' = e
    BY <2>1, <1>1 DEF Unlocks, Addressing
  <2>3. pc'[d] = "ask" /\ stage'[d] \in Addressing => lock' = d
    <3>1. CASE NewSlot(d)
      BY <3>1, <1>1, <1>6 DEF NewSlot, Unlocks
    <3>2. CASE GoesOn(d)
      BY <3>2, <1>3 DEF GoesOn, Addressing
    <3>3. CASE Stops(d)
      BY <3>3, TypeFacts DEF Stops
    <3> QED BY <1>2, <3>1, <3>2, <3>3
  <2> QED BY <2>2, <2>3, <1>1, <1>4, <1>5, <1>9 DEF IInv, LockKept
<1>18. PortsNamed'
  <2>1. \A p \in Ports : port[p] # None => pc'[port[p]] # "none"
    BY <1>4, TypeFacts DEF IInv, PortsNamed
  <2>2. \A e \in mgrTask : pc'[e] \in Handler => pc[e] \in Handler
    BY <1>4, TypeFacts
  <2>3. \A e \in Devs : pc'[e] = "giveUp" => e \notin mgrTask
    BY <1>4 DEF IInv, PortsNamed
  <2> QED BY <2>1, <2>2, <2>3, <1>1 DEF IInv, PortsNamed
<1>19. FaultWindows'
  BY <1>1 DEF FaultWindows, Faults
<1> QED BY <1>10, <1>11, <1>12, <1>13, <1>14, <1>15, <1>16, <1>17, <1>18, <1>19 DEF IInv

-----------------------------------------------------------------------------
(* The controller                                                           *)

(* Everything but requests, their answers and the slots' owners stays.      *)
HostKept ==
  /\ UNCHANGED <<plug, changed, entry, lock, epc, eport, edev, port, made, at>>
  /\ UNCHANGED <<ring, slotId, mgrTask, signal, pc, stage, res, disabled>>

(* What the controller does is no business of ports and lock holders.       *)
LEMMA HostKeptStep ==
  ASSUME IInv, epc \notin Faults, HostKept,
         cmds' \in Seq(Commands), eves' \in Seq(Eves), xfer' \subseteq Devs,
         owner' \in [Slots -> Devs \cup {None}],
         \A d \in Devs : Pending(d)' => Pending(d),
         \A d \in Devs : Holds(d) => owner'[slotId[d]] = d
  PROVE  Types' /\ Beginnings' /\ SlotsOwned' /\ LockKept' /\ PortsNamed' /\ FaultWindows'
<1> USE DEF HostKept
<1>1. Types' /\ Beginnings'
  BY DEF IInv, Types, TypeOK, Beginnings
<1>2. SlotsOwned' /\ LockKept'
  BY DEF IInv, SlotsOwned, Holds, EntryKept, LockKept
<1>3. PortsNamed' /\ FaultWindows'
  BY DEF IInv, PortsNamed, FaultWindows
<1> QED BY <1>1, <1>2, <1>3

(* A transfer is answered before the device's slot is disabled.             *)
LEMMA TransferStep ==
  ASSUME IInv, epc \notin Faults, NEW d \in Devs, Transfer(d) PROVE IInv'
<1> USE XHCIDeviceAssumption
<1>1. PICK ok \in BOOLEAN : eves' = Append(eves, TransEve(d, ok))
  BY DEF Transfer
<1> DEFINE e == TransEve(d, ok)
<1>2. HostKept /\ UNCHANGED <<owner, cmds>> /\ d \in xfer /\ xfer' = xfer \ {d}
  BY DEF Transfer, HostKept, ctrl, etsk, host, dev, names, answ
<1>3. /\ Types /\ None \notin Slots /\ Len(eves) \in Nat
      /\ stage[d] # "enable" /\ slotId[d] \in Slots
      /\ ReqCmds(d) = {} /\ ReqEves(d) = {} /\ DisEves(d) = {} /\ d \notin disabled
      /\ res[d] = None /\ pc[d] \in Asked /\ Pending(d)
  <2>1. Types /\ None \notin Slots /\ Len(eves) \in Nat
    BY DEF IInv, Types
  <2>2. stage[d] # "enable" /\ slotId[d] \in Slots
    BY <1>2, TypeFacts DEF IInv, Beginnings, AnswersFit
  <2>3. Pending(d) /\ ReqCmds(d) = {} /\ ReqEves(d) = {} /\ res[d] = None
    BY <1>2 DEF IInv, OneRequest, Pending
  <2>4. DisEves(d) = {} /\ d \notin disabled
    BY <1>2, <2>3 DEF IInv, DisablesLast
  <2>5. pc[d] \in Asked
    BY <2>3 DEF IInv, OneRequest
  <2> QED BY <2>1, <2>2, <2>3, <2>4, <2>5
<1>4. e \in Eves /\ e.type = "trans" /\ e.dev = d /\ e.slot = slotId[d] /\ IsReq(e) /\ ~IsDis(e)
  BY <1>3 DEF TransEve, Eves, TransEves, IsReq, IsDis
<1>5. e = TransEve(d, ok)
  OBVIOUS
<1> HIDE DEF e
<1>6. /\ eves' \in Seq(Eves) /\ eves'[Len(eves) + 1] = e
      /\ \A i \in 1..Len(eves) : eves'[i] = eves[i]
  BY <1>1, <1>3, <1>4, <1>5, EvesAppended
<1>7. /\ \A b \in Devs : \A i :
           /\ i \in ReqEves(b)' <=> i \in ReqEves(b) \/ (i = Len(eves) + 1 /\ b = d)
           /\ i \in DisEves(b)' <=> i \in DisEves(b)
      /\ \A j \in 1..Len(eves') : \A s :
           \/ j \in 1..Len(eves) /\ (Enabled(j, s)' <=> Enabled(j, s))
           \/ j = Len(eves) + 1 /\ eves'[j] = e
  BY <1>1, <1>3, <1>4, <1>5, EvesAfterAppend
<1>8. \A i : i \in ReqEves(d)' <=> i = Len(eves) + 1
  BY <1>3, <1>7
<1>9. ASSUME NEW b \in Devs PROVE DisEves(b)' = DisEves(b) /\ (b # d => ReqEves(b)' = ReqEves(b))
  <2>1. \A i : i \in DisEves(b)' <=> i \in DisEves(b)
    BY <1>7
  <2>2. b # d => \A i : i \in ReqEves(b)' <=> i \in ReqEves(b)
    BY <1>7
  <2> QED BY <2>1, <2>2
<1>10. \A b \in Devs : \A i \in ReqEves(b) : eves'[i] = eves[i]
  BY <1>6 DEF ReqEves
<1>11. \A b : ReqCmds(b)' = ReqCmds(b) /\ DisCmds(b)' = DisCmds(b)
  BY <1>2, SameCmds
<1>12. \A b \in Devs : Pending(b)' <=> Pending(b)
  <2>1. Pending(d)'
    BY <1>8 DEF Pending
  <2> QED BY <2>1, <1>2, <1>3, <1>9, <1>11 DEF Pending
<1>13. Types' /\ Beginnings' /\ SlotsOwned' /\ LockKept' /\ PortsNamed' /\ FaultWindows'
  <2>1. xfer' \subseteq Devs /\ owner' \in [Slots -> Devs \cup {None}] /\ cmds' \in Seq(Commands)
    BY <1>2 DEF IInv, Types, TypeOK
  <2>2. \A b \in Devs : Holds(b) => owner'[slotId[b]] = b
    BY <1>2 DEF IInv, SlotsOwned
  <2> QED BY <2>1, <2>2, <1>2, <1>6, <1>12, HostKeptStep
<1>14. OneRequest'
  <2>1. d \notin xfer' /\ \A i, j \in ReqEves(d)' : i = j
    BY <1>2, <1>8
  <2> QED BY <2>1, <1>2, <1>3, <1>9, <1>11, <1>12 DEF IInv, OneRequest, HostKept
<1>15. AnswersFit'
  <2>1. \A i \in ReqEves(d)' : eves'[i] = e
    BY <1>6, <1>8
  <2> QED BY <2>1, <1>2, <1>3, <1>4, <1>9, <1>10, <1>11 DEF IInv, AnswersFit, HostKept
<1>16. DisablesLast'
  BY <1>2, <1>3, <1>9, <1>11, <1>12 DEF IInv, DisablesLast, HostKept
<1>17. EnabledLater'
  <2>1. \A j \in 1..Len(eves') : \A s : Enabled(j, s)' => j \in 1..Len(eves) /\ Enabled(j, s)
    BY <1>4, <1>7 DEF Enabled
  <2> QED BY <2>1, <1>2, <1>9 DEF IInv, EnabledLater, HostKept
<1> QED BY <1>13, <1>14, <1>15, <1>16, <1>17 DEF IInv

(* The controller takes a slot from its device, which has no request left.  *)
LEMMA DisableStep ==
  ASSUME IInv, epc \notin Faults, Command, Head(cmds).kind = "disable" PROVE IInv'
<1> USE XHCIDeviceAssumption
<1>5. PICK c, d, e : c = Head(cmds) /\ d = c.dev /\ e = CmdEve(c, TRUE, None)
  OBVIOUS
<1>1. /\ HostKept /\ cmds # <<>> /\ cmds' = Tail(cmds)
      /\ owner' = [owner EXCEPT ![slotId[d]] = None] /\ xfer' = xfer \ {d}
      /\ eves' = Append(eves, e)
  BY <1>5 DEF Command, HostKept, etsk, host, dev, names, answ
<1>2. /\ Types /\ None \notin Slots /\ None \notin Devs /\ Len(eves) \in Nat
      /\ slotId \in [Devs -> Slots \cup {None}] /\ owner \in [Slots -> Devs \cup {None}]
  BY TypeFacts DEF IInv, Types, TypeOK
<1>3. /\ d \in Devs /\ 1 \in DisCmds(d) /\ c \in Commands /\ c = cmds[1] /\ c.kind = "disable"
      /\ cmds' \in Seq(Commands)
  <2>1. /\ Len(cmds) \in Nat \ {0} /\ c = cmds[1] /\ c \in Commands /\ c.kind = "disable"
        /\ cmds' \in Seq(Commands)
    BY <1>1, <1>2, <1>5, CmdsTaken
  <2> QED BY <2>1, <1>5 DEF Commands, DisCmds
<1>4. e \in Eves /\ e.type = "cmd" /\ e.kind = "disable" /\ e.dev = d /\ ~IsReq(e) /\ IsDis(e)
  BY <1>3, <1>5 DEF CmdEve, Eves, CmdEves, IsReq, IsDis, Commands
<1>6. /\ ReqCmds(d) = {} /\ DisEves(d) = {} /\ d \notin disabled /\ pc[d] = "disableWait"
      /\ slotId[d] \in Slots /\ owner[slotId[d]] = d
  BY <1>1, <1>2, <1>3, CmdsAfterTake DEF IInv, DisablesLast
<1>7. stage[d] # "enable"
  BY <1>2, <1>3, <1>6 DEF IInv, Beginnings
<1>8. /\ eves' \in Seq(Eves) /\ \A i \in 1..Len(eves) : eves'[i] = eves[i]
  BY <1>1, <1>2, <1>4, EvesAppended
<1>9. /\ \A b \in Devs : \A i :
           /\ i \in ReqEves(b)' <=> i \in ReqEves(b)
           /\ i \in DisEves(b)' <=> i \in DisEves(b) \/ (i = Len(eves) + 1 /\ b = d)
      /\ \A j \in 1..Len(eves') : \A s : Enabled(j, s)' => j \in 1..Len(eves) /\ Enabled(j, s)
  <2>1. \A s : \A j : eves'[j] = e => ~Enabled(j, s)'
    BY <1>4 DEF Enabled
  <2>2. /\ \A b \in Devs : \A i :
             /\ i \in ReqEves(b)' <=>
                  i \in ReqEves(b) \/ (i = Len(eves) + 1 /\ IsReq(e) /\ e.dev = b)
             /\ i \in DisEves(b)' <=>
                  i \in DisEves(b) \/ (i = Len(eves) + 1 /\ IsDis(e) /\ e.dev = b)
        /\ \A j \in 1..Len(eves') : \A s :
             \/ j \in 1..Len(eves) /\ (Enabled(j, s)' <=> Enabled(j, s))
             \/ j = Len(eves) + 1 /\ eves'[j] = e
    BY <1>1, <1>2, <1>4, EvesAfterAppend
  <2> QED BY <2>1, <2>2, <1>4
<1>10. ASSUME NEW b \in Devs PROVE ReqEves(b)' = ReqEves(b) /\ (b # d => DisEves(b)' = DisEves(b))
  <2>1. \A i : i \in ReqEves(b)' <=> i \in ReqEves(b)
    BY <1>9
  <2>2. b # d => \A i : i \in DisEves(b)' <=> i \in DisEves(b)
    BY <1>9
  <2> QED BY <2>1, <2>2
<1>11. \A b \in Devs : \A i \in ReqEves(b) : eves'[i] = eves[i]
  BY <1>8 DEF ReqEves
<1>12. /\ \A i : i \in DisEves(d)' <=> i = Len(eves) + 1
       /\ \A i \in ReqEves(d) : i < Len(eves) + 1
  <2>1. \A i : i \in DisEves(d)' <=> i = Len(eves) + 1
    BY <1>3, <1>6, <1>9
  <2>2. \A i \in ReqEves(d) : i < Len(eves) + 1
    BY <1>2 DEF ReqEves
  <2> QED BY <2>1, <2>2
<1>13. \A b \in Devs :
         /\ \A i, j \in ReqCmds(b)' : i = j
         /\ \A i, j \in DisCmds(b)' : i = j
         /\ \A i \in DisCmds(b)', j \in ReqCmds(b)' : j < i
         /\ ReqCmds(b)' # {} <=> ReqCmds(b) # {}
         /\ DisCmds(b)' # {} <=> DisCmds(b) # {} /\ b # d
         /\ \A i \in ReqCmds(b)' : \E j \in ReqCmds(b) : cmds'[i] = cmds[j]
  <2>1. \A b \in Devs : 1 \notin ReqCmds(b) /\ (1 \in DisCmds(b) <=> b = d)
    BY <1>3, <1>5 DEF ReqCmds, DisCmds
  <2> QED BY <2>1, <1>1, CmdsAfterTake
<1>14. \A b \in Devs : Pending(b)' => Pending(b)
  BY <1>1, <1>10, <1>13 DEF Pending
<1>15. \A z \in Slots, b \in Devs \ {d} : owner[z] = b => owner'[z] = b
  BY <1>1, <1>2, <1>6
<1>16. Types' /\ Beginnings' /\ SlotsOwned' /\ LockKept' /\ PortsNamed' /\ FaultWindows'
  <2>1. xfer' \subseteq Devs /\ owner' \in [Slots -> Devs \cup {None}]
    BY <1>1, <1>2 DEF Types
  <2>2. \A b \in Devs : Holds(b) => owner'[slotId[b]] = b
    BY <1>2, <1>6, <1>15 DEF IInv, SlotsOwned, Holds, Interruptible
  <2> QED BY <2>1, <2>2, <1>1, <1>3, <1>8, <1>14, HostKeptStep
<1>17. OneRequest'
  BY <1>1, <1>10, <1>13, <1>14 DEF IInv, OneRequest, HostKept
<1>18. AnswersFit'
  <2>1. ASSUME NEW b \in Devs PROVE /\ \A i \in ReqCmds(b)' : cmds'[i].kind = stage[b]
                                    /\ b \in xfer' => stage[b] # "enable"
    <3>1. \A i \in ReqCmds(b) : cmds[i].kind = stage[b]
      BY DEF IInv, AnswersFit
    <3>2. b \in xfer => stage[b] # "enable"
      BY DEF IInv, AnswersFit
    <3>3. \A i \in ReqCmds(b)' : cmds'[i].kind = stage[b]
      <4>1. \A i \in ReqCmds(b)' : \E j \in ReqCmds(b) : cmds'[i] = cmds[j]
        BY <1>13
      <4> QED BY <3>1, <4>1
    <3> QED BY <3>2, <3>3, <1>1
  <2>2. ASSUME NEW b \in Devs, stage[b] = "enable", NEW z \in Slots, owner[z] = b
        PROVE  owner'[z] = b
    BY <2>2, <1>7, <1>15
  <2>3. ASSUME NEW b \in Devs, NEW i \in ReqEves(b)'
        PROVE  IF eves'[i].type = "trans" THEN stage[b] # "enable" /\ eves'[i].slot = slotId[b]
               ELSE /\ eves'[i].kind = stage[b]
                    /\ eves'[i].ok /\ stage[b] = "enable" =>
                         eves'[i].slot \in Slots /\ owner'[eves'[i].slot] = b
                    /\ stage[b] # "enable" => eves'[i].slot = None
    <3>1. i \in ReqEves(b) /\ eves'[i] = eves[i]
      BY <2>3, <1>10, <1>11
    <3> QED BY <2>2, <3>1 DEF IInv, AnswersFit
  <2>4. ASSUME NEW b \in Devs
        PROVE  /\ stage[b] = "enable" /\ res[b] \notin {None, "failed"} =>
                    res[b] \in Slots /\ owner'[res[b]] = b
               /\ stage[b] # "enable" => res[b] \notin Slots
    <3>1. /\ stage[b] = "enable" /\ res[b] \notin {None, "failed"} =>
               res[b] \in Slots /\ owner[res[b]] = b
          /\ stage[b] # "enable" => res[b] \notin Slots
      BY DEF IInv, AnswersFit
    <3> QED BY <2>2, <3>1
  <2>5. stage' = stage /\ res' = res /\ slotId' = slotId
    BY <1>1 DEF HostKept
  <2> QED BY <2>1, <2>3, <2>4, <2>5 DEF AnswersFit
<1>19. DisablesLast'
  <2>1. \A b \in Devs : DisCmds(b)' # {} => owner'[slotId[b]] = b
    BY <1>2, <1>13, <1>15 DEF IInv, DisablesLast
  <2>2. \A b \in Devs : DisEves(b)' # {} => b = d \/ DisEves(b) # {}
    BY <1>10
  <2>3. ReqCmds(d)' = {} /\ d \notin xfer' /\ DisCmds(d)' = {} /\ DisEves(d)' # {}
    <3>1. ReqCmds(d)' = {} /\ DisCmds(d)' = {}
      BY <1>3, <1>6, <1>13
    <3>2. d \notin xfer' /\ DisEves(d)' # {}
      BY <1>1, <1>12
    <3> QED BY <3>1, <3>2
  <2>4. ASSUME NEW b \in Devs
        PROVE  /\ \A i, j \in DisCmds(b)' : i = j
               /\ \A i, j \in DisEves(b)' : i = j
               /\ DisCmds(b)' # {} => DisEves(b)' = {} /\ owner'[slotId[b]] = b
               /\ DisCmds(b)' # {} \/ DisEves(b)' # {} =>
                    pc[b] = "disableWait" /\ b \notin disabled /\ slotId[b] # None
               /\ \A i \in DisCmds(b)', j \in ReqCmds(b)' : j < i
               /\ \A i \in DisEves(b)', j \in ReqEves(b)' : j < i
               /\ DisEves(b)' # {} => ReqCmds(b)' = {} /\ b \notin xfer'
               /\ b \in disabled => ~Pending(b)' /\ pc[b] \in {"disableWait", "exit", "gone"}
               /\ pc[b] = "disableWait" /\ b \notin disabled => DisCmds(b)' # {} \/ DisEves(b)' # {}
               /\ pc[b] \in {"exit", "gone"} /\ slotId[b] # None => b \in disabled
    <3>1. CASE b = d
      <4>1. \A i, j \in DisEves(d)' : i = j
        BY <1>12
      <4>2. \A i \in DisEves(d)', j \in ReqEves(d)' : j < i
        BY <1>3, <1>10, <1>12
      <4>3. slotId[d] # None
        BY <1>2, <1>6
      <4> QED BY <3>1, <4>1, <4>2, <4>3, <2>3, <1>6
    <3>2. CASE b # d
      BY <3>2, <2>1, <1>1, <1>10, <1>13, <1>14 DEF IInv, DisablesLast
    <3> QED BY <3>1, <3>2
  <2> QED BY <2>4, <1>1 DEF DisablesLast, HostKept
<1>20. EnabledLater'
  <2>1. \A j \in 1..Len(eves) : ~Enabled(j, slotId[d])
    <3>1. SUFFICES ASSUME NEW j \in 1..Len(eves), Enabled(j, slotId[d]) PROVE FALSE
      OBVIOUS
    <3>2. eves[j].dev \in Devs /\ j \in ReqEves(eves[j].dev)
      <4>1. eves[j] \in Eves /\ eves[j].type = "cmd" /\ eves[j].kind = "enable"
        BY <1>2, <3>1 DEF Types, Enabled
      <4>2. eves[j] \in CmdEves
        BY <4>1 DEF Eves, PortEves, CmdEves, TransEves
      <4> QED BY <4>1, <4>2 DEF CmdEves, ReqEves, IsReq
    <3>3. owner[slotId[d]] = eves[j].dev /\ stage[eves[j].dev] = "enable"
      BY <3>1, <3>2 DEF IInv, AnswersFit, Enabled
    <3> QED BY <3>3, <1>6, <1>7
  <2>2. \A b \in Devs : res[b] # slotId[d]
    BY <1>2, <1>6, <1>7 DEF IInv, AnswersFit
  <2>3. ASSUME NEW b \in Devs, NEW i \in DisEves(b)'
        PROVE  /\ \A j \in 1..Len(eves') : Enabled(j, slotId[b])' => i < j
               /\ \A x \in Devs : res[x] # slotId[b]
    <3>1. CASE b = d
      <4>1. \A j \in 1..Len(eves') : ~Enabled(j, slotId[b])'
        BY <3>1, <2>1, <1>1, <1>9 DEF HostKept
      <4> QED BY <3>1, <4>1, <2>2
    <3>2. CASE b # d
      <4>1. i \in DisEves(b)
        BY <3>2, <2>3, <1>10
      <4>2. \A j \in 1..Len(eves') : Enabled(j, slotId[b])' => j \in 1..Len(eves) /\ Enabled(j, slotId[b])
        BY <1>1, <1>9 DEF HostKept
      <4> QED BY <4>1, <4>2 DEF IInv, EnabledLater
    <3> QED BY <3>1, <3>2
  <2> QED BY <2>3, <1>1 DEF EnabledLater, HostKept
<1> QED BY <1>16, <1>17, <1>18, <1>19, <1>20 DEF IInv

(* The controller answers a request; a slot it enables belonged to nobody.  *)
LEMMA RequestStep ==
  ASSUME IInv, epc \notin Faults, Command, Head(cmds).kind # "disable" PROVE IInv'
<1> USE XHCIDeviceAssumption
<1>1. PICK c, d : c = Head(cmds) /\ d = c.dev
  OBVIOUS
<1>2. HostKept /\ cmds # <<>> /\ cmds' = Tail(cmds) /\ xfer' = xfer
  BY <1>1 DEF Command, HostKept, etsk, host, dev, names, answ
<1>3. /\ Types /\ None \notin Slots /\ None \notin Devs /\ Len(eves) \in Nat
      /\ slotId \in [Devs -> Slots \cup {None}] /\ owner \in [Slots -> Devs \cup {None}]
  BY TypeFacts DEF IInv, Types, TypeOK
<1>4. /\ d \in Devs /\ 1 \in ReqCmds(d) /\ c \in Commands /\ c = cmds[1] /\ c.kind # "disable"
      /\ c.kind \in Stages /\ cmds' \in Seq(Commands)
  <2>1. /\ Len(cmds) \in Nat \ {0} /\ c = cmds[1] /\ c \in Commands /\ c.kind # "disable"
        /\ cmds' \in Seq(Commands)
    BY <1>1, <1>2, <1>3, CmdsTaken
  <2> QED BY <2>1, <1>1 DEF Commands, ReqCmds
<1>5. PICK ok \in BOOLEAN, z \in Slots \cup {None} :
        /\ eves' = Append(eves, CmdEve(c, ok, z))
        /\ ok /\ c.kind = "enable" =>
             z \in Slots /\ owner[z] = None /\ owner' = [owner EXCEPT ![z] = d]
        /\ ~(ok /\ c.kind = "enable") => z = None /\ owner' = owner
  BY <1>1 DEF Command
<1>6. PICK e : e = CmdEve(c, ok, z)
  OBVIOUS
<1>7. /\ e \in Eves /\ e.type = "cmd" /\ e.kind = c.kind /\ e.dev = d /\ e.ok = ok /\ e.slot = z
      /\ IsReq(e) /\ ~IsDis(e)
  BY <1>1, <1>4, <1>6 DEF CmdEve, Eves, CmdEves, IsReq, IsDis, Commands
<1>8. /\ ReqEves(d) = {} /\ d \notin xfer /\ Pending(d) /\ DisEves(d) = {}
      /\ res[d] = None /\ pc[d] \in Asked /\ c.kind = stage[d]
  <2>1. ReqEves(d) = {} /\ d \notin xfer /\ Pending(d)
    BY <1>4 DEF IInv, OneRequest, Pending
  <2>2. DisEves(d) = {} /\ c.kind = stage[d]
    BY <1>4 DEF IInv, DisablesLast, AnswersFit
  <2> QED BY <2>1, <2>2, <1>4 DEF IInv, OneRequest
<1>9. /\ eves' \in Seq(Eves) /\ eves'[Len(eves) + 1] = e
      /\ \A i \in 1..Len(eves) : eves'[i] = eves[i]
  BY <1>3, <1>5, <1>6, <1>7, EvesAppended
<1>10. /\ \A b \in Devs : \A i :
            /\ i \in ReqEves(b)' <=> i \in ReqEves(b) \/ (i = Len(eves) + 1 /\ b = d)
            /\ i \in DisEves(b)' <=> i \in DisEves(b)
       /\ \A j \in 1..Len(eves') : \A s :
            \/ j \in 1..Len(eves) /\ (Enabled(j, s)' <=> Enabled(j, s))
            \/ j = Len(eves) + 1 /\ eves'[j] = e
  BY <1>3, <1>5, <1>6, <1>7, EvesAfterAppend
<1>11. \A i : i \in ReqEves(d)' <=> i = Len(eves) + 1
  BY <1>4, <1>8, <1>10
<1>12. ASSUME NEW b \in Devs PROVE DisEves(b)' = DisEves(b) /\ (b # d => ReqEves(b)' = ReqEves(b))
  <2>1. \A i : i \in DisEves(b)' <=> i \in DisEves(b)
    BY <1>10
  <2>2. b # d => \A i : i \in ReqEves(b)' <=> i \in ReqEves(b)
    BY <1>10
  <2> QED BY <2>1, <2>2
<1>13. \A b \in Devs : \A i \in ReqEves(b) : eves'[i] = eves[i]
  BY <1>9 DEF ReqEves
<1>14. \A b \in Devs :
         /\ \A i, j \in ReqCmds(b)' : i = j
         /\ \A i, j \in DisCmds(b)' : i = j
         /\ \A i \in DisCmds(b)', j \in ReqCmds(b)' : j < i
         /\ ReqCmds(b)' # {} <=> ReqCmds(b) # {} /\ b # d
         /\ DisCmds(b)' # {} <=> DisCmds(b) # {}
         /\ \A i \in ReqCmds(b)' : \E j \in ReqCmds(b) : cmds'[i] = cmds[j]
  <2>1. \A b \in Devs : 1 \notin DisCmds(b) /\ (1 \in ReqCmds(b) <=> b = d)
    BY <1>1, <1>4 DEF ReqCmds, DisCmds
  <2> QED BY <2>1, <1>2, CmdsAfterTake
<1>15. \A b \in Devs : Pending(b)' => Pending(b)
  BY <1>2, <1>8, <1>12, <1>14 DEF Pending
<1>16. /\ \A s \in Slots, b \in Devs : owner[s] = b => owner'[s] = b
       /\ owner' \in [Slots -> Devs \cup {None}]
       /\ ok /\ c.kind = "enable" => owner'[z] = d
  BY <1>3, <1>4, <1>5
<1>17. Types' /\ Beginnings' /\ SlotsOwned' /\ LockKept' /\ PortsNamed' /\ FaultWindows'
  <2>1. xfer' \subseteq Devs
    BY <1>2, <1>3 DEF Types
  <2>2. \A b \in Devs : Holds(b) => owner'[slotId[b]] = b
    BY <1>3, <1>16 DEF IInv, SlotsOwned, Holds
  <2> QED BY <2>1, <2>2, <1>2, <1>4, <1>9, <1>15, <1>16, HostKeptStep
<1>18. OneRequest'
  <2>1. ReqCmds(d)' = {} /\ \A i, j \in ReqEves(d)' : i = j
    BY <1>4, <1>11, <1>14
  <2>2. UNCHANGED <<res, pc, xfer>>
    BY <1>2 DEF HostKept
  <2> QED BY <2>1, <2>2, <1>8, <1>12, <1>14, <1>15 DEF IInv, OneRequest
<1>19. AnswersFit'
  <2>1. ASSUME NEW b \in Devs PROVE \A i \in ReqCmds(b)' : cmds'[i].kind = stage[b]
    <3>1. \A i \in ReqCmds(b)' : \E j \in ReqCmds(b) : cmds'[i] = cmds[j]
      BY <1>14
    <3> QED BY <3>1 DEF IInv, AnswersFit
  <2>2. ASSUME NEW b \in Devs, NEW i \in ReqEves(b)'
        PROVE  IF eves'[i].type = "trans" THEN stage[b] # "enable" /\ eves'[i].slot = slotId[b]
               ELSE /\ eves'[i].kind = stage[b]
                    /\ eves'[i].ok /\ stage[b] = "enable" =>
                         eves'[i].slot \in Slots /\ owner'[eves'[i].slot] = b
                    /\ stage[b] # "enable" => eves'[i].slot = None
    <3>1. CASE b = d
      <4>1. eves'[i] = e
        BY <2>2, <3>1, <1>9, <1>11
      <4> QED BY <3>1, <4>1, <1>5, <1>7, <1>8, <1>16
    <3>2. CASE b # d
      <4>1. i \in ReqEves(b) /\ eves'[i] = eves[i]
        BY <2>2, <3>2, <1>12, <1>13
      <4> QED BY <4>1, <1>16 DEF IInv, AnswersFit
    <3> QED BY <3>1, <3>2
  <2>3. ASSUME NEW b \in Devs
        PROVE  /\ stage[b] = "enable" /\ res[b] \notin {None, "failed"} =>
                    res[b] \in Slots /\ owner'[res[b]] = b
               /\ stage[b] # "enable" => res[b] \notin Slots
               /\ b \in xfer => stage[b] # "enable"
    BY <1>16 DEF IInv, AnswersFit
  <2>4. UNCHANGED <<stage, res, slotId, xfer>>
    BY <1>2 DEF HostKept
  <2> QED BY <2>1, <2>2, <2>3, <2>4 DEF AnswersFit
<1>20. DisablesLast'
  <2>1. \A b \in Devs : DisCmds(b)' # {} => owner'[slotId[b]] = b
    <3>1. \A b \in Devs : DisCmds(b) # {} => slotId[b] \in Slots /\ owner[slotId[b]] = b
      BY <1>3 DEF IInv, DisablesLast
    <3> QED BY <3>1, <1>14, <1>16
  <2>2. \A b \in Devs : \A i \in DisEves(b)', j \in ReqEves(b)' : j < i
    BY <1>8, <1>12 DEF IInv, DisablesLast
  <2>3. UNCHANGED <<pc, disabled, slotId, xfer>>
    BY <1>2 DEF HostKept
  <2>4. ASSUME NEW b \in Devs
        PROVE  /\ DisEves(b)' # {} => ReqCmds(b)' = {} /\ b \notin xfer'
               /\ b \in disabled => ~Pending(b)'
    BY <2>3, <1>12, <1>14, <1>15 DEF IInv, DisablesLast
  <2> QED BY <2>1, <2>2, <2>3, <2>4, <1>12, <1>14 DEF IInv, DisablesLast
<1>21. EnabledLater'
  <2>1. ASSUME NEW b \in Devs, NEW i \in DisEves(b)', NEW j \in 1..Len(eves'), Enabled(j, slotId[b])'
        PROVE  i < j
    <3>1. i \in DisEves(b) /\ i \in Nat /\ i <= Len(eves) /\ slotId'[b] = slotId[b]
      BY <2>1, <1>2, <1>3, <1>12 DEF DisEves, HostKept
    <3>2. CASE j \in 1..Len(eves) /\ Enabled(j, slotId[b])
      BY <3>1, <3>2 DEF IInv, EnabledLater
    <3>3. CASE j = Len(eves) + 1
      BY <3>1, <3>3, <1>3
    <3> QED BY <2>1, <3>1, <3>2, <3>3, <1>10
  <2>2. UNCHANGED <<res, slotId>>
    BY <1>2 DEF HostKept
  <2> QED BY <2>1, <2>2, <1>12 DEF IInv, EnabledLater
<1> QED BY <1>17, <1>18, <1>19, <1>20, <1>21 DEF IInv

-----------------------------------------------------------------------------
(* The event task and its answers                                           *)

(* An answer is taken; it is told to its manager or meets what is gone.     *)
AnswerTaken ==
  /\ epc = "get" /\ eves # <<>> /\ eves' = Tail(eves)
  /\ UNCHANGED <<cmds, xfer, owner, plug, changed, entry, lock, eport, port, made, at>>
  /\ UNCHANGED <<ring, slotId, mgrTask, signal, pc, stage>>
Told(d, a) ==
  /\ 1 \in ReqEves(d) /\ a \in Answers /\ res' = [res EXCEPT ![d] = a]
  /\ a \in Slots => Enabled(1, a) /\ owner[a] = d
  /\ stage[d] = "enable" /\ a # "failed" <=> a \in Slots
  /\ UNCHANGED <<disabled, epc, edev>>
ToldDisabled(d) ==
  /\ 1 \in DisEves(d) /\ disabled' = disabled \cup {d} /\ UNCHANGED <<res, epc, edev>>
Lost(d) ==
  /\ 1 \in ReqEves(d) /\ epc' \in {"reqFault", "entryFault"} /\ FaultWindows'
  /\ UNCHANGED <<res, disabled>>

(* A manager hears what it asked for, and nothing of it is left; what it    *)
(* hears after its slot is disabled is the end.                             *)
LEMMA AnswerTakenStep ==
  ASSUME IInv, AnswerTaken, NEW d \in Devs,
         ToldDisabled(d) \/ Lost(d) \/ \E a \in Answers : Told(d, a)
  PROVE  IInv'
<1> USE XHCIDeviceAssumption
<1>1. /\ epc = "get" /\ eves # <<>> /\ eves' = Tail(eves)
      /\ UNCHANGED <<cmds, xfer, owner, plug, changed, entry, lock, eport, port, made, at>>
      /\ UNCHANGED <<ring, slotId, mgrTask, signal, pc, stage>>
  BY DEF AnswerTaken
<1>2. /\ Types /\ None \notin Slots /\ None \notin Answers
      /\ res \in [Devs -> Answers \cup {None}] /\ disabled \subseteq Devs
  BY DEF IInv, Types, Answers
<1>3. \A b : ReqCmds(b)' = ReqCmds(b) /\ DisCmds(b)' = DisCmds(b)
  BY <1>1, SameCmds
<1>4. \A b \in Devs :
        /\ \A i, j \in ReqEves(b)' : i = j
        /\ \A i, j \in DisEves(b)' : i = j
        /\ \A i \in DisEves(b)', j \in ReqEves(b)' : j < i
        /\ ReqEves(b)' # {} <=> ReqEves(b) # {} /\ 1 \notin ReqEves(b)
        /\ DisEves(b)' # {} <=> DisEves(b) # {} /\ 1 \notin DisEves(b)
        /\ \A i \in ReqEves(b)' : \E j \in ReqEves(b) : eves'[i] = eves[j]
  BY <1>1, EvesAfterTake
<1>5. \A b \in Devs : \A i \in DisEves(b)', j \in 1..Len(eves') :
        Enabled(j, slotId[b])' => i < j
  BY <1>1, EvesAfterTake
<1>6. eves' \in Seq(Eves)
  BY <1>1, <1>2, EvesTaken
<1>7. \A b \in Devs : Pending(b)' => Pending(b)
  BY <1>1, <1>3, <1>4 DEF Pending
<1>8. \A b \in Devs : ~(1 \in ReqEves(b) /\ (1 \in DisEves(d) \/ 1 \in DisEves(b)))
  BY DEF ReqEves, DisEves, IsReq, IsDis
<1>9. \A b \in Devs \ {d} : 1 \notin DisEves(b) \/ 1 \notin DisEves(d)
  BY DEF DisEves
<1>10. 1 \in ReqEves(d) =>
         /\ ~Pending(d)' /\ d \notin disabled
         /\ pc[d] \in Asked
  <2>1. 1 \in ReqEves(d) => ReqCmds(d) = {} /\ d \notin xfer /\ ReqEves(d)' = {} /\ Pending(d)
    BY <1>4 DEF IInv, OneRequest, Pending
  <2> QED BY <2>1, <1>1, <1>3 DEF IInv, OneRequest, DisablesLast, Pending
<1>11. 1 \in DisEves(d) =>
         /\ ~Pending(d)' /\ DisCmds(d) = {} /\ DisEves(d)' = {} /\ pc[d] = "disableWait"
         /\ slotId[d] # None
  <2>1. 1 \in DisEves(d) => DisCmds(d) = {} /\ ReqCmds(d) = {} /\ d \notin xfer
    BY DEF IInv, DisablesLast
  <2>2. 1 \in DisEves(d) => ReqEves(d) = {}
    <3>1. 1 \in DisEves(d) => \A j \in ReqEves(d) : j < 1
      BY DEF IInv, DisablesLast
    <3>2. ReqEves(d) \subseteq 1..Len(eves)
      BY DEF ReqEves
    <3> QED BY <3>1, <3>2
  <2>3. 1 \in DisEves(d) => pc[d] = "disableWait" /\ slotId[d] # None
    BY DEF IInv, DisablesLast
  <2> QED BY <2>1, <2>2, <2>3, <1>1, <1>3, <1>4 DEF Pending
<1>12. /\ \A b \in Devs \ {d} : res'[b] = res[b] /\ (b \in disabled' <=> b \in disabled)
       /\ res' \in [Devs -> Answers \cup {None}] /\ disabled \subseteq disabled'
       /\ disabled' \subseteq Devs
       /\ d \in disabled' <=> d \in disabled \/ 1 \in DisEves(d)
       /\ res'[d] # res[d] => 1 \in ReqEves(d)
  BY <1>2, <1>8 DEF Told, ToldDisabled, Lost
<1>13. \A b \in Devs : 1 \in DisEves(b) \/ 1 \in ReqEves(b) => b = d
  <2>1. 1 \in DisEves(d) \/ 1 \in ReqEves(d)
    BY DEF Told, ToldDisabled, Lost
  <2> QED BY <2>1 DEF ReqEves, DisEves
<1>14. epc' \in {"get", "reqFault", "entryFault"} /\ FaultWindows'
  BY <1>1 DEF Told, ToldDisabled, Lost, FaultWindows
<1>15. Types'
  BY <1>1, <1>2, <1>6, <1>12, <1>14 DEF Types, TypeOK, Faults
<1>16. Beginnings'
  BY <1>1, <1>10, <1>12 DEF IInv, Beginnings
<1>17. OneRequest'
  BY <1>1, <1>3, <1>4, <1>7, <1>10, <1>12 DEF IInv, OneRequest
<1>18. AnswersFit'
  <2>1. /\ stage[d] = "enable" /\ res'[d] \notin {None, "failed"} =>
             res'[d] \in Slots /\ owner[res'[d]] = d
        /\ stage[d] # "enable" => res'[d] \notin Slots
    <3>1. CASE \E a \in Answers : Told(d, a)
      BY <3>1, <1>2 DEF Told
    <3>2. CASE res' = res
      BY <3>2 DEF IInv, AnswersFit
    <3> QED BY <3>1, <3>2 DEF ToldDisabled, Lost
  <2>2. ASSUME NEW b \in Devs, NEW i \in ReqEves(b)'
        PROVE  IF eves'[i].type = "trans" THEN stage'[b] # "enable" /\ eves'[i].slot = slotId'[b]
               ELSE /\ eves'[i].kind = stage'[b]
                    /\ eves'[i].ok /\ stage'[b] = "enable" =>
                         eves'[i].slot \in Slots /\ owner'[eves'[i].slot] = b
                    /\ stage'[b] # "enable" => eves'[i].slot = None
    <3>1. PICK j \in ReqEves(b) : eves'[i] = eves[j]
      BY <2>2, <1>4
    <3> QED BY <3>1, <1>1 DEF IInv, AnswersFit
  <2>3. ASSUME NEW b \in Devs
        PROVE  /\ stage'[b] = "enable" /\ res'[b] \notin {None, "failed"} =>
                    res'[b] \in Slots /\ owner'[res'[b]] = b
               /\ stage'[b] # "enable" => res'[b] \notin Slots
    <3>1. CASE b = d
      BY <3>1, <2>1, <1>1
    <3>2. CASE b # d
      BY <3>2, <1>1, <1>12 DEF IInv, AnswersFit
    <3> QED BY <3>1, <3>2
  <2>4. ASSUME NEW b \in Devs
        PROVE  /\ \A i \in ReqCmds(b)' : cmds'[i].kind = stage'[b]
               /\ b \in xfer' => stage'[b] # "enable"
    BY <1>1, <1>3 DEF IInv, AnswersFit
  <2> QED BY <2>2, <2>3, <2>4 DEF AnswersFit
<1>19. DisablesLast'
  <2>1. ASSUME NEW b \in Devs
        PROVE  /\ DisCmds(b) # {} => DisEves(b)' = {}
               /\ DisCmds(b) # {} \/ DisEves(b)' # {} => b \notin disabled'
               /\ DisEves(b)' # {} => ReqCmds(b) = {} /\ b \notin xfer
               /\ b \in disabled' => ~Pending(b)' /\ pc[b] \in {"disableWait", "exit", "gone"}
               /\ pc[b] = "disableWait" /\ b \notin disabled' => DisCmds(b) # {} \/ DisEves(b)' # {}
    <3>1. CASE b = d
      BY <3>1, <1>4, <1>7, <1>10, <1>11, <1>12 DEF IInv, DisablesLast
    <3>2. CASE b # d
      BY <3>2, <1>4, <1>7, <1>12, <1>13 DEF IInv, DisablesLast
    <3> QED BY <3>1, <3>2
  <2> QED BY <2>1, <1>1, <1>3, <1>4, <1>12 DEF IInv, DisablesLast
<1>20. EnabledLater'
  <2>1. ASSUME NEW b \in Devs, DisEves(b)' # {} PROVE \A f \in Devs : res'[f] # slotId[b]
    <3>1. PICK i \in DisEves(b) : i # 1
      BY <2>1, <1>4
    <3>2. /\ \A f \in Devs : res[f] # slotId[b]
          /\ \A j \in 1..Len(eves) : Enabled(j, slotId[b]) => i < j
          /\ i \in Nat /\ i > 1 /\ Len(eves) \in Nat /\ 1 <= Len(eves)
      <4>1. i \in 1..Len(eves) /\ Len(eves) \in Nat
        BY <1>2 DEF DisEves, Types
      <4>2. /\ \A f \in Devs : res[f] # slotId[b]
            /\ \A j \in 1..Len(eves) : Enabled(j, slotId[b]) => i < j
        BY DEF IInv, EnabledLater
      <4> QED BY <3>1, <4>1, <4>2
    <3>3. slotId[b] \in Slots
      BY <3>1, TypeFacts DEF IInv, DisablesLast
    <3>4. ~Enabled(1, slotId[b])
      BY <3>2
    <3>5. res'[d] # slotId[b]
      BY <3>2, <3>3, <3>4, <1>2 DEF Told, ToldDisabled, Lost
    <3> QED BY <3>2, <3>5, <1>12
  <2> QED BY <2>1, <1>1, <1>5 DEF EnabledLater
<1>21. SlotsOwned'
  BY <1>1, <1>12 DEF IInv, SlotsOwned, Holds, EntryKept
<1>22. LockKept' /\ PortsNamed'
  BY <1>1, <1>7, <1>14 DEF IInv, LockKept, PortsNamed
<1> QED BY <1>14, <1>15, <1>16, <1>17, <1>18, <1>19, <1>20, <1>21, <1>22 DEF IInv

(* The answer to a command: a manager that is gone while its request is not *)
(* answered was interrupted before it had a slot, and holds the lock.       *)
LEMMA CmdEveStep ==
  ASSUME IInv, epc \notin Faults, GetCmdEve PROVE IInv'
<1> USE XHCIDeviceAssumption
<1>1. PICK e, d : e = Head(eves) /\ d = e.dev
  OBVIOUS
<1>2. AnswerTaken /\ e.type = "cmd"
  BY <1>1 DEF GetCmdEve, AnswerTaken, ctrl, host, dev, names
<1>3. /\ Types /\ None \notin Slots
  BY DEF IInv, Types
<1>4. /\ e = eves[1] /\ e \in CmdEves /\ 1 \in 1..Len(eves)
      /\ d \in Devs /\ e.ok \in BOOLEAN /\ e.slot \in Slots \cup {None}
      /\ IF e.kind = "disable" THEN 1 \in DisEves(d) ELSE 1 \in ReqEves(d)
  <2>1. e = eves[1] /\ e \in Eves /\ Len(eves) \in Nat \ {0}
    BY <1>1, <1>2, <1>3, EvesTaken DEF AnswerTaken
  <2>2. e \in CmdEves
    BY <2>1, <1>2 DEF Eves, PortEves, CmdEves, TransEves
  <2> QED BY <2>1, <2>2, <1>1, <1>2 DEF CmdEves, ReqEves, DisEves, IsReq, IsDis
<1>5. CASE pc[d] = "gone"
  <2>1. epc' = "reqFault" /\ edev' = d /\ UNCHANGED <<res, disabled>>
    BY <1>1, <1>5 DEF GetCmdEve, answ
  <2>2. 1 \in ReqEves(d)
    BY <1>4, <1>5 DEF IInv, DisablesLast
  <2>3. slotId[d] = None
    BY <2>2, <1>4, <1>5 DEF IInv, DisablesLast, Pending
  <2>4. lock = d
    BY <2>2, <2>3, <1>4 DEF IInv, Beginnings, LockKept, Pending
  <2>5. Lost(d)
    BY <2>1, <2>2, <2>3, <2>4, <1>2 DEF Lost, FaultWindows, AnswerTaken
  <2> QED BY <2>5, <1>2, <1>4, AnswerTakenStep
<1>6. CASE pc[d] # "gone" /\ e.kind = "disable"
  <2>1. disabled' = disabled \cup {d} /\ UNCHANGED <<res, epc, edev>>
    BY <1>1, <1>6 DEF GetCmdEve
  <2>2. ToldDisabled(d)
    BY <2>1, <1>4, <1>6 DEF ToldDisabled
  <2> QED BY <2>2, <1>2, <1>4, AnswerTakenStep
<1>7. CASE pc[d] # "gone" /\ e.kind # "disable"
  <2>1. res' = [res EXCEPT ![d] = Answer(e)] /\ UNCHANGED <<disabled, epc, edev>>
    BY <1>1, <1>7 DEF GetCmdEve
  <2>2. /\ 1 \in ReqEves(d) /\ e.kind = stage[d]
        /\ e.ok /\ stage[d] = "enable" => e.slot \in Slots /\ owner[e.slot] = d
        /\ stage[d] # "enable" => e.slot = None
    BY <1>2, <1>4, <1>7 DEF IInv, AnswersFit
  <2>3. /\ Answer(e) \in Answers
        /\ Answer(e) \in Slots => e.ok /\ stage[d] = "enable" /\ Answer(e) = e.slot
        /\ stage[d] = "enable" /\ Answer(e) # "failed" => Answer(e) \in Slots
    BY <2>2, <1>3, <1>4 DEF Answer, Answers
  <2>4. Answer(e) \in Slots => Answer(e) # "failed"
    BY DEF XHCIDeviceAssumption
  <2>5. Told(d, Answer(e))
    BY <2>1, <2>2, <2>3, <2>4, <1>2, <1>4 DEF Told, Enabled
  <2> QED BY <2>3, <2>5, <1>2, <1>4, AnswerTakenStep
<1> QED BY <1>5, <1>6, <1>7

(* The answer to a transfer: the entry that leads to its manager is wrong   *)
(* only after an earlier owner of the slot has cleared it.                  *)
LEMMA TransEveStep ==
  ASSUME IInv, epc \notin Faults, GetTransEve PROVE IInv'
<1> USE XHCIDeviceAssumption
<1>1. PICK e, d : e = Head(eves) /\ d = e.dev
  OBVIOUS
<1>2. AnswerTaken /\ e.type = "trans" /\ UNCHANGED disabled
  BY <1>1 DEF GetTransEve, AnswerTaken, ctrl, host, dev, names
<1>3. /\ Types /\ None \notin Slots
  BY DEF IInv, Types
<1>4. d \in Devs /\ 1 \in ReqEves(d) /\ e = eves[1]
  <2>1. e = eves[1] /\ e \in Eves /\ Len(eves) \in Nat \ {0}
    BY <1>1, <1>2, <1>3, EvesTaken DEF AnswerTaken
  <2>2. e \in TransEves
    BY <2>1, <1>2 DEF Eves, PortEves, CmdEves, TransEves
  <2> QED BY <2>1, <2>2, <1>1, <1>2 DEF TransEves, ReqEves, IsReq
<1>5. stage[d] # "enable" /\ e.slot = slotId[d] /\ slotId[d] # None
  BY <1>2, <1>4 DEF IInv, AnswersFit, Beginnings
<1>6. pc[d] \in {"inserted", "wait", "disable", "disableWait"} /\ d \notin disabled
  BY <1>4, <1>5 DEF IInv, OneRequest, DisablesLast, Pending
<1>7. EntryKept(d)
  BY <1>4, <1>5, <1>6 DEF IInv, SlotsOwned, Holds, Interruptible
<1>8. CASE entry[e.slot] = d
  <2>1. res' = [res EXCEPT ![d] = IF e.ok THEN "ok" ELSE "failed"] /\ UNCHANGED <<epc, edev>>
    BY <1>1, <1>6, <1>8 DEF GetTransEve
  <2>2. \A a \in {"ok", "failed"} : a \in Answers /\ a \notin Slots
    BY DEF Answers
  <2>3. \E a \in Answers : Told(d, a)
    <3>1. CASE e.ok
      BY <3>1, <2>1, <2>2, <1>2, <1>4, <1>5 DEF Told
    <3>2. CASE ~e.ok
      BY <3>2, <2>1, <2>2, <1>2, <1>4, <1>5 DEF Told
    <3> QED BY <3>1, <3>2
  <2> QED BY <2>3, <1>2, <1>4, AnswerTakenStep
<1>9. CASE entry[e.slot] # d
  <2>1. epc' = "entryFault" /\ edev' = d /\ UNCHANGED res
    BY <1>1, <1>6, <1>9 DEF GetTransEve
  <2>2. \E b \in Devs \ {d} : slotId[b] = slotId[d] /\ pc[b] \in {"exit", "gone"}
    BY <1>5, <1>7, <1>9 DEF EntryKept
  <2>3. UNCHANGED <<slotId, pc>>
    BY <1>2 DEF AnswerTaken
  <2>4. Lost(d)
    BY <2>1, <2>2, <2>3, <1>2, <1>4 DEF Lost, FaultWindows
  <2> QED BY <2>4, <1>2, <1>4, AnswerTakenStep
<1> QED BY <1>8, <1>9

-----------------------------------------------------------------------------
(* The theorems                                                             *)

(* No step of the ports, the controller, the event task or a manager breaks *)
(* the invariant.                                                           *)
LEMMA NextStep ==
  ASSUME IInv, [Next]_vars PROVE IInv'
<1>1. CASE UNCHANGED vars
  <2>1. UNCHANGED <<plug, changed, eves, cmds, xfer, owner, epc, eport, edev, port>>
        /\ UNCHANGED <<made, at, ring, mgrTask, signal, disabled, slotId, stage, res, pc>>
        /\ UNCHANGED <<entry, lock>>
    BY <1>1 DEF vars, ctrl, flow, etsk, host, dev, names, answ
  <2>2. PortEvesOnly
    BY <2>1 DEF PortEvesOnly
  <2>3. Types' /\ PortsNamed' /\ FaultWindows'
    BY <2>1 DEF IInv, Types, TypeOK, PortsNamed, FaultWindows
  <2> QED BY <2>1, <2>2, <2>3, QuietStep DEF IInv
<1>2. CASE Next
  <2>1. epc \notin Faults
    BY <1>2 DEF Next
  <2>2. ASSUME NEW p \in Ports, Move(p) \/ ResetDone(p) PROVE IInv'
    BY <2>1, <2>2, PlugStep
  <2>3. ASSUME Command PROVE IInv'
    BY <2>1, <2>3, DisableStep, RequestStep
  <2>4. ASSUME EventTask PROVE IInv'
    BY <2>1, <2>4, PortTaskStep, ConnectStep, DisconnectStep, SignalStep, CmdEveStep, TransEveStep
    DEF EventTask
  <2>5. ASSUME NEW d \in Devs, Transfer(d) PROVE IInv'
    BY <2>1, <2>5, TransferStep
  <2>6. ASSUME NEW d \in Devs, Manager(d) PROVE IInv'
    BY <2>1, <2>6, BeginStep, ManagerOnlyStep, AskStep, AnsweredStep, GiveUpStep,
         HandlerStep, EndStep DEF Manager, Ask
  <2> QED BY <1>2, <2>2, <2>3, <2>4, <2>5, <2>6 DEF Next
<1> QED BY <1>1, <1>2

(* The ports, the event task, the managers and the controller keep the      *)
(* invariant, whatever order they run in.                                   *)
THEOREM Inductive == Spec => []IInv
<1>1. Init => IInv
  BY InitIInv
<1>2. IInv /\ [Next]_vars => IInv'
  BY NextStep
<1> QED BY <1>1, <1>2, PTL DEF Spec

(* The slot of a manager stays its own until it gives it back               *)
(* (HW_USB_XHCI_devMgrTask_int), however commands and events of other       *)
(* devices come in between.                                                 *)
THEOREM SlotIsItsOwn == Spec => []OneOwner
<1>1. IInv => OneOwner
  BY DEF IInv, Types, SlotsOwned, Holds, EntryKept, OneOwner
<1> QED BY <1>1, Inductive, PTL

(* HW_USB_XHCI_eveHandleTask meets memory that is no longer what it takes   *)
(* it for in the four windows of FaultWindows and in no other.              *)
THEOREM FaultsFourWays == Spec => []FaultWindows
<1>1. IInv => FaultWindows
  BY DEF IInv
<1> QED BY <1>1, Inductive, PTL
=============================================================================
