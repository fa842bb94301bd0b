-------------------------------- MODULE XHCI --------------------------------
(***************************************************************************)
(* The rings of an XHCI host and the way back of an answer: tasks put      *)
(* requests of one or more TRBs on a ring, the controller (external)       *)
(* executes them and posts an event, the message interrupt moves events    *)
(* into a queue, and HW_USB_XHCI_eveHandleTask finishes the requests.      *)
(* A ring's last entry is the link to its first.  The segments of the      *)
(* event ring are laid end to end.  One interrupter: all TRBs name it.     *)
(***************************************************************************)
EXTENDS Naturals, FiniteSets

CONSTANTS
  Tasks, Rings,
  Users,      \* per ring, the tasks that use it
  Lens,       \* per ring, the numbers of TRBs of its requests
  Halting,    \* rings of endpoints, which halt on an error (not the command ring)
  Size,       \* per ring, its TRBs without the link
  EveSize,    \* entries of the event ring
  QueSize,    \* XHCI_Host_EveQueSize
  None

ASSUME XHCIAssumption ==
  /\ Users \in [Rings -> SUBSET Tasks] /\ Halting \subseteq Rings
  /\ \A r \in Rings : Size[r] \in Nat \ {0} /\ Lens[r] \subseteq 1..Size[r]
  /\ EveSize \in Nat \ {0, 1} /\ QueSize \in Nat \ {0} /\ None \notin Tasks \cup Rings
  \* a command is one TRB; a device's rings are used by its manager only
  /\ \A r \in Rings \ Halting : Lens[r] \subseteq {1}
  /\ \A r \in Halting : \A t, u \in Users[r] : t = u

VARIABLES
  trb,      \* per ring, its entries: [cyc, cmd, last]
  curPos, cycBit,   \* per ring, where the host goes on
  reqSrc,   \* per ring, whose request occupies an entry
  deq, ccs, \* per ring, where the controller goes on
  rung,     \* rings whose doorbell the controller has yet to serve
  halted,   \* rings halted by an error
  eve,      \* the event ring: [cyc, ev]
  enq, pcs, \* where the controller posts
  evePos, eveCyc,   \* where the host reads
  deqPtr,   \* the dequeue pointer register
  busy,     \* its event handler busy bit
  intr,     \* the message interrupt is pending
  hpc, ptr, \* the handler: "off" or "write", and what it will write
  que, hdr, til, len,   \* eveQue
  epc, slot, req,   \* the event task, its entry and the request released
  pc, at,   \* per task: where it is, and its ring
  finished, res     \* XHCI_Request_Flag_Finished and req->res

rings == <<trb, curPos, cycBit, reqSrc>>
ctrl  == <<deq, ccs, halted, enq, pcs>>
queue == <<que, hdr, til, len>>
evtsk == <<epc, slot, req>>
task  == <<pc, at>>
handler == <<hpc, ptr>>
vars  == <<rings, ctrl, rung, eve, evePos, eveCyc, deqPtr, busy, intr, handler,
           queue, evtsk, task, finished, res>>

NoEve == [ring |-> None, pos |-> 0, cmd |-> None, ok |-> TRUE]

Init ==
  /\ trb = [r \in Rings |-> [i \in 0..Size[r] |-> [cyc |-> 0, cmd |-> None, last |-> TRUE]]]
  /\ curPos = [r \in Rings |-> 0] /\ cycBit = [r \in Rings |-> 1]
  /\ reqSrc = [r \in Rings |-> [i \in 0..(Size[r] - 1) |-> None]]
  /\ deq = [r \in Rings |-> 0] /\ ccs = [r \in Rings |-> 1]
  /\ rung = {} /\ halted = {}
  /\ eve = [i \in 0..(EveSize - 1) |-> [cyc |-> 0, ev |-> NoEve]]
  /\ enq = 0 /\ pcs = 1 /\ evePos = 0 /\ eveCyc = 1 /\ deqPtr = 0
  /\ busy = FALSE /\ intr = FALSE /\ hpc = "off" /\ ptr = None
  /\ que = [i \in 0..(QueSize - 1) |-> NoEve] /\ hdr = 0 /\ til = 0 /\ len = 0
  /\ epc = "get" /\ slot = 0 /\ req = None
  /\ pc = [t \in Tasks |-> "idle"] /\ at = [t \in Tasks |-> None]
  /\ finished = {} /\ res = [t \in Tasks |-> NoEve]

-----------------------------------------------------------------------------
(* HW_USB_XHCI_Ring_tryInsReq                                               *)

(* the entry of the i-th TRB (from 0) of a request, and its cycle bit       *)
Place(r, i) == (curPos[r] + i) % Size[r]
Cross(r, i) == (curPos[r] + i) \div Size[r]
CycOf(r, i) == (cycBit[r] + Cross(r, i)) % 2
Full(r, n)  == \E i \in 0..(n - 1) : reqSrc[r][Place(r, i)] # None

(* what the host goes back to, and a faulty variant that forgets cycBit     *)
RestorePos(r, n) == [pos |-> curPos[r], cyc |-> CycOf(r, n - 1)]
Restore(r, n) == [pos |-> curPos[r], cyc |-> cycBit[r]]

(* the link is handed over with the cycle bit of the round it ends          *)
LinkCyc(r, n) == IF Cross(r, n - 1) > 0 THEN cycBit[r] ELSE trb[r][Size[r]].cyc

(* the entries whose reqSrc is set; a faulty variant marks the first only   *)
MarkedFirst(r, n) == {Place(r, 0)}
Marked(r, n) == {Place(r, i) : i \in 0..(n - 1)}

Insert(t, r, n) ==
  LET mine == {Place(r, i) : i \in 0..(n - 1)}
      ith(p) == CHOOSE i \in 0..(n - 1) : Place(r, i) = p
  IN /\ trb' = [trb EXCEPT ![r] =
          [p \in 0..Size[r] |->
             IF p = Size[r] THEN [@[p] EXCEPT !.cyc = LinkCyc(r, n)]
             ELSE IF p \in mine
                  THEN [cyc |-> CycOf(r, ith(p)), cmd |-> t, last |-> ith(p) = n - 1]
                  ELSE @[p]]]
     /\ reqSrc' = [reqSrc EXCEPT ![r] =
          [p \in 0..(Size[r] - 1) |-> IF p \in Marked(r, n) THEN t ELSE @[p]]]
     /\ curPos' = [curPos EXCEPT ![r] = Place(r, n - 1) + 1]
     /\ cycBit' = [cycBit EXCEPT ![r] = CycOf(r, n - 1)]

TryInsReq(t, r, n) ==
  /\ pc[t] = "idle" /\ t \in Users[r] /\ n \in Lens[r]
  /\ finished' = finished \ {t}
  /\ IF Full(r, n)
     THEN /\ curPos' = [curPos EXCEPT ![r] = Restore(r, n).pos]
          /\ cycBit' = [cycBit EXCEPT ![r] = Restore(r, n).cyc]
          /\ UNCHANGED <<trb, reqSrc, pc, at>>
     ELSE /\ Insert(t, r, n)
          /\ pc' = [pc EXCEPT ![t] = "ring"] /\ at' = [at EXCEPT ![t] = r]
  /\ UNCHANGED <<ctrl, rung, eve, evePos, eveCyc, deqPtr, busy, intr, handler, queue,
                 evtsk, res>>

(* HW_USB_XHCI_Req_ringDbWait                                               *)
RingDb(t) ==
  /\ pc[t] = "ring"
  /\ rung' = rung \cup {at[t]} /\ pc' = [pc EXCEPT ![t] = "wait"]
  /\ UNCHANGED <<rings, ctrl, eve, evePos, eveCyc, deqPtr, busy, intr, handler, queue,
                 evtsk, at, finished, res>>

(* A task whose request failed stops, as all callers but one do.  The flag  *)
(* is forgotten: the next TryInsReq clears it before anybody reads it.      *)
Return(t) ==
  /\ pc[t] = "wait" /\ t \in finished
  /\ pc' = [pc EXCEPT ![t] = IF res[t].ok THEN "idle" ELSE "stopped"]
  /\ finished' = finished \ {t}
  /\ at' = [at EXCEPT ![t] = None] /\ res' = [res EXCEPT ![t] = NoEve]
  /\ UNCHANGED <<rings, ctrl, rung, eve, evePos, eveCyc, deqPtr, busy, intr, handler,
                 queue, evtsk>>

-----------------------------------------------------------------------------
(* The controller                                                           *)

NextTrb(r) == trb[r][deq[r]]
Running(r) == r \in rung \ halted
EveRoom    == (enq + 1) % EveSize # deqPtr

Post(e) ==
  /\ EveRoom
  /\ eve' = [eve EXCEPT ![enq] = [cyc |-> pcs, ev |-> e]]
  /\ enq' = (enq + 1) % EveSize
  /\ pcs' = IF enq' = 0 THEN 1 - pcs ELSE pcs

(* It follows the link, or stops at a TRB that is not handed over.          *)
Follow(r) ==
  /\ Running(r)
  /\ \/ /\ NextTrb(r).cyc # ccs[r] /\ rung' = rung \ {r} /\ UNCHANGED <<deq, ccs>>
     \/ /\ NextTrb(r).cyc = ccs[r] /\ deq[r] = Size[r]
        /\ deq' = [deq EXCEPT ![r] = 0] /\ ccs' = [ccs EXCEPT ![r] = 1 - @]
        /\ UNCHANGED rung
  /\ UNCHANGED <<rings, halted, enq, pcs, eve, evePos, eveCyc, deqPtr, busy, intr,
                 handler, queue, evtsk, task, finished, res>>

(* It executes a TRB: the last one of a request is answered, any may fail.  *)
Execute(r) ==
  /\ Running(r) /\ NextTrb(r).cyc = ccs[r] /\ deq[r] < Size[r]
  /\ deq' = [deq EXCEPT ![r] = @ + 1]
  /\ \E ok \in BOOLEAN :
       /\ IF ok /\ ~NextTrb(r).last THEN UNCHANGED <<eve, enq, pcs>>
          ELSE Post([ring |-> r, pos |-> deq[r], cmd |-> NextTrb(r).cmd, ok |-> ok])
       /\ halted' = IF ok \/ r \notin Halting THEN halted ELSE halted \cup {r}
  /\ UNCHANGED <<rings, ccs, rung, evePos, eveCyc, deqPtr, busy, intr, handler, queue,
                 evtsk, task, finished, res>>

(* It interrupts when the ring has entries and the last interrupt is over.  *)
Interrupt ==
  /\ ~busy /\ enq # deqPtr
  /\ busy' = TRUE /\ intr' = TRUE
  /\ UNCHANGED <<rings, ctrl, rung, eve, evePos, eveCyc, deqPtr, handler, queue, evtsk,
                 task, finished, res>>

-----------------------------------------------------------------------------
(* HW_USB_XHCI_msiHandler: the loop runs under the queue's lock, the write  *)
(* of the dequeue pointer after it.  What is read for the last time, here   *)
(* and below, is forgotten, but for its cycle bit: it keeps the model small.*)

Ahead(i)  == (evePos + i) % EveSize
CycSame(i) == eveCyc           \* a faulty variant: no flip at the wrap
CycAt(i)  == IF evePos + i < EveSize THEN eveCyc ELSE 1 - eveCyc
Posted(i) == eve[Ahead(i)].cyc = CycAt(i)
Available == CHOOSE n \in 0..EveSize :
               /\ \A i \in 0..(n - 1) : Posted(i)
               /\ n = EveSize \/ ~Posted(n)
Room      == QueSize - len
Taken     == IF Available < Room THEN Available ELSE Room

(* where the loop leaves trb: at the first entry that is not posted, at the *)
(* last it took when the queue is full, or nowhere                          *)
TrbAfter ==
  IF Room = 0 THEN None ELSE IF Available < Room THEN Ahead(Taken) ELSE Ahead(Taken - 1)

Drain ==
  /\ intr /\ hpc = "off"
  /\ intr' = FALSE /\ hpc' = "write" /\ ptr' = TrbAfter
  /\ que' = [i \in 0..(QueSize - 1) |->
               LET k == (i + QueSize - til) % QueSize
               IN IF k < Taken THEN eve[Ahead(k)].ev ELSE que[i]]
  /\ eve' = [i \in 0..(EveSize - 1) |->
               IF (i + EveSize - evePos) % EveSize < Taken THEN [eve[i] EXCEPT !.ev = NoEve]
               ELSE eve[i]]
  /\ til' = (til + Taken) % QueSize /\ len' = len + Taken
  /\ evePos' = Ahead(Taken) /\ eveCyc' = CycAt(Taken)
  /\ UNCHANGED <<rings, ctrl, rung, deqPtr, busy, hdr, evtsk, task, finished, res>>

(* bit 3 of the written value clears the busy bit                           *)
BusyAfter(p) == IF p = None THEN busy ELSE FALSE

WriteDeqPtr ==
  /\ hpc = "write" /\ hpc' = "off" /\ ptr' = None
  /\ deqPtr' = IF ptr = None THEN deqPtr ELSE ptr
  /\ busy' = BusyAfter(ptr)
  /\ UNCHANGED <<rings, ctrl, rung, eve, evePos, eveCyc, intr, queue, evtsk, task,
                 finished, res>>

-----------------------------------------------------------------------------
(* HW_USB_XHCI_eveHandleTask                                                *)

NextSlot == (hdr + 1) % QueSize    \* a faulty variant: taken after the step
HeadSlot == hdr

(* _getEvePtr; port events are left to module XHCIDevice                    *)
GetEve ==
  /\ epc = "get" /\ len > 0
  /\ hdr' = (hdr + 1) % QueSize /\ len' = len - 1
  /\ epc' = "release" /\ slot' = HeadSlot
  /\ UNCHANGED <<rings, ctrl, rung, eve, evePos, eveCyc, deqPtr, busy, intr, handler, que,
                 til, req, task, finished, res>>

(* the entries that point to the request                                    *)
Targets(t) == {p \in DOMAIN reqSrc[at[t]] : reqSrc[at[t]][p] = t}

(* HW_USB_XHCI_Ring_release                                                 *)
Release ==
  /\ epc = "release"
  /\ LET e == que[slot]
         t == IF e.ring = None THEN None ELSE reqSrc[e.ring][e.pos]
     IN IF t = None THEN epc' = "fault" /\ UNCHANGED <<reqSrc, trb, req>>
        ELSE /\ req' = t /\ epc' = "finish"
             /\ reqSrc' = [reqSrc EXCEPT ![at[t]] =
                  [p \in DOMAIN @ |-> IF p \in Targets(t) THEN None ELSE @[p]]]
             /\ trb' = [trb EXCEPT ![at[t]] =
                  [p \in DOMAIN @ |-> IF p \in Targets(t)
                                       THEN [@[p] EXCEPT !.cmd = None, !.last = TRUE] ELSE @[p]]]
  /\ UNCHANGED <<curPos, cycBit, ctrl, rung, eve, evePos, eveCyc, deqPtr, busy,
                 intr, handler, queue, slot, task, finished, res>>

(* evePtr still points to the slot *)
Answer == que[slot]

Finish ==
  /\ epc = "finish" /\ epc' = "get"
  /\ res' = [res EXCEPT ![req] = Answer]
  /\ finished' = finished \cup {req} /\ req' = None /\ slot' = 0
  /\ que' = IF (slot + QueSize - hdr) % QueSize < len THEN que
            ELSE [que EXCEPT ![slot] = NoEve]
  /\ UNCHANGED <<rings, ctrl, rung, eve, evePos, eveCyc, deqPtr, busy, intr, handler,
                 hdr, til, len, task>>

-----------------------------------------------------------------------------

Host == \/ \E t \in Tasks : \/ RingDb(t) \/ Return(t)
                            \/ \E r \in Rings : \E n \in Lens[r] : TryInsReq(t, r, n)
        \/ Drain \/ WriteDeqPtr \/ GetEve \/ Release \/ Finish
Controller == Interrupt \/ \E r \in Rings : Follow(r) \/ Execute(r)
Next == Host \/ Controller

(* The handler and the tasks go on; the controller serves its doorbells and *)
(* delivers its interrupts.                                                 *)
Fairness ==
  /\ WF_vars(Drain) /\ WF_vars(WriteDeqPtr) /\ WF_vars(GetEve)
  /\ WF_vars(Release) /\ WF_vars(Finish) /\ WF_vars(Interrupt)
  /\ \A r \in Rings : WF_vars(Follow(r)) /\ SF_vars(Execute(r))
  /\ \A t \in Tasks : WF_vars(RingDb(t))

Spec == Init /\ [][Next]_vars /\ Fairness

-----------------------------------------------------------------------------

TypeOK ==
  /\ \A r \in Rings : /\ curPos[r] \in 0..Size[r] /\ deq[r] \in 0..Size[r]
                      /\ cycBit[r] \in {0, 1} /\ ccs[r] \in {0, 1}
                      /\ \A p \in 0..(Size[r] - 1) : reqSrc[r][p] \in Users[r] \cup {None}
  /\ rung \subseteq Rings /\ halted \subseteq Halting
  /\ enq \in 0..(EveSize - 1) /\ evePos \in 0..(EveSize - 1) /\ deqPtr \in 0..(EveSize - 1)
  /\ hdr \in 0..(QueSize - 1) /\ til \in 0..(QueSize - 1) /\ len \in 0..QueSize
  /\ epc \in {"get", "release", "finish", "fault"} /\ finished \subseteq Tasks
  /\ pc \in [Tasks -> {"idle", "ring", "wait", "stopped"}]

(* The controller never finds a TRB of an earlier round or of a request     *)
(* that is over: what it may execute belongs to the request that occupies   *)
(* the entry (the cycle bits of HW_USB_XHCI_Ring_tryInsReq).                *)
OnlyLiveTRBs ==
  \A r \in Rings \ halted :
    (deq[r] < Size[r] /\ NextTrb(r).cyc = ccs[r]) =>
      \E t \in Tasks : reqSrc[r][deq[r]] = t /\ NextTrb(r).cmd = t /\ t \notin finished

(* the TRBs the controller has yet to execute: ahead of it, up to the host  *)
Unread(r, p) ==
  IF ccs[r] = cycBit[r] THEN deq[r] <= p /\ p < curPos[r]
  ELSE deq[r] <= p \/ p < curPos[r]
LastOf(t, r, p) ==
  trb[r][p].cmd = t /\ trb[r][p].last /\ reqSrc[r][p] = t /\ Unread(r, p)
(* the events on their way: posted, in the queue, at the event task         *)
InRing  == {i \in 0..(EveSize - 1) : (i + EveSize - evePos) % EveSize < Available}
InQueue == {i \in 0..(QueSize - 1) : (i + QueSize - hdr) % QueSize < len}
Tokens(t) ==
  Cardinality({i \in InRing : eve[i].ev.cmd = t})
  + Cardinality({i \in InQueue : que[i].cmd = t})
  + (IF epc \in {"release", "finish"} /\ que[slot].cmd = t THEN 1 ELSE 0)
  + Cardinality({s \in (Rings \ halted) \X UNION {0..Size[r] : r \in Rings} :
                   s[2] < Size[s[1]] /\ LastOf(t, s[1], s[2])})

(* A request has one completion, on its way or arrived, as long as its task *)
(* waits, and none when it is over: requests are used again.  What arrives  *)
(* is the completion of that request.  The variables keep their types.      *)
OneCompletion ==
  /\ TypeOK
  /\ \A t \in Tasks :
       Tokens(t) = IF pc[t] \in {"ring", "wait"} /\ t \notin finished THEN 1 ELSE 0
  /\ \A t \in finished : pc[t] \in {"ring", "wait"} => res[t].cmd = t

(* The event task works on requests whose task still waits for them.        *)
RequestAlive ==
  /\ epc # "fault"
  /\ req # None => pc[req] \in {"ring", "wait"} /\ req \notin finished

(* Every request that is on a ring is answered.                             *)
Answered == \A t \in Tasks : pc[t] = "wait" ~> t \in finished
=============================================================================
