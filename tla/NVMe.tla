-------------------------------- MODULE NVMe --------------------------------
(***************************************************************************)
(* The command queues of one namespace in kernel/hardware/NVMe: tasks that *)
(* submit and wait, the interrupt handler, and the controller (external),  *)
(* which fetches what the doorbell announces and completes in any order.   *)
(* HW_NVMe_insReq is one step: nothing it does under the queue's lock can  *)
(* be seen before the doorbell.  The handler takes no lock and is several. *)
(***************************************************************************)
EXTENDS Naturals, FiniteSets

CONSTANTS
  Tasks,   \* tasks that read and write the disk
  Ques,    \* the submission queues: two in the code
  Size,    \* entries of a submission queue
  CmplSize,\* entries of the completion queue
  None

ASSUME NVMeAssumption ==
  Size \in Nat \ {0} /\ CmplSize \in Nat \ {0, 1} /\ None \notin Tasks

VARIABLES
  til,     \* per submission queue, the host's tail, as rung at the doorbell
  reqSrc,  \* the request of each slot, or None
  entry,   \* the command in each slot of a queue's memory
  fetched, \* per queue, the controller's head
  flight,  \* commands the controller works at: [que, id, cmd]
  cmpl,    \* the completion queue: [phase, que, id, cmd]
  post, postPhase,   \* the controller's tail and phase
  hdr, phaseBit,     \* the host's head and phase
  cmplDb,  \* the head last rung at the completion doorbell
  intr,    \* an interrupt is pending
  hpc,     \* the handler: "off", "scan", "finish"
  req,     \* the request it has taken
  found,   \* it has found an entry
  waiting, \* tasks in HW_NVMe_insReqWait, their request in a slot or done
  gen,     \* per task, the parity of its requests, so that two differ
  finished,\* requests with NVMe_Request_attr_Finished
  res      \* per task the command whose completion is in req->res

host == <<waiting, gen>>
ctrl == <<fetched, flight, post, postPhase>>
hand == <<hdr, phaseBit, cmplDb, hpc, req, found>>
vars == <<til, reqSrc, entry, cmpl, intr, finished, res, host, ctrl, hand>>

Slots == 0..(Size - 1)
NoCmd == <<None, 0>>
Cmds  == Tasks \X {0, 1}
Cmd(t) == <<t, gen[t]>>
Dead(p) == [phase |-> p, que |-> None, id |-> 0, cmd |-> NoCmd]

Init ==
  /\ til = [q \in Ques |-> 0] /\ fetched = [q \in Ques |-> 0]
  /\ reqSrc = [q \in Ques |-> [i \in Slots |-> None]]
  /\ entry = [q \in Ques |-> [i \in Slots |-> NoCmd]]
  /\ flight = {}
  /\ cmpl = [i \in 0..(CmplSize - 1) |-> Dead(0)]
  /\ post = 0 /\ postPhase = 1 /\ hdr = 0 /\ phaseBit = 1 /\ cmplDb = 0
  /\ intr = FALSE /\ hpc = "off" /\ req = None /\ found = FALSE
  /\ waiting = {} /\ gen = [t \in Tasks |-> 0] /\ finished = {}
  /\ res = [t \in Tasks |-> NoCmd]

-----------------------------------------------------------------------------

NextSlot(i) == (i + 1) % Size
SlotFreeAny(q) == TRUE       \* a faulty variant: the slot is not tested
SlotFree(q) == reqSrc[q][til[q]] = None

(* HW_NVMe_insReq; read and write alternate between the queues, with no     *)
(* lock, so any may be chosen.  While the slot is taken the task retries.   *)
InsReq(t, q) ==
  /\ t \notin waiting
  /\ SlotFree(q)
  /\ reqSrc' = [reqSrc EXCEPT ![q][til[q]] = t]
  /\ entry' = [entry EXCEPT ![q][til[q]] = <<t, 1 - gen[t]>>]
  /\ til' = [til EXCEPT ![q] = NextSlot(@)]
  /\ gen' = [gen EXCEPT ![t] = 1 - @]
  /\ waiting' = waiting \cup {t}
  /\ UNCHANGED <<cmpl, intr, finished, res, ctrl, hand>>

(* HW_NVMe_insReqWait returns: the request, on the task's stack, is dead.   *)
Return(t) ==
  /\ t \in waiting \cap finished
  /\ waiting' = waiting \ {t} /\ finished' = finished \ {t}
  /\ res' = [res EXCEPT ![t] = NoCmd]
  /\ UNCHANGED <<til, reqSrc, entry, cmpl, intr, gen, ctrl, hand>>

-----------------------------------------------------------------------------
(* The controller.  What it has read, and the completions the host has      *)
(* read, are forgotten: nothing may read them again.                        *)

Fetch(q) ==
  /\ fetched[q] # til[q]
  /\ flight' = flight \cup {[que |-> q, id |-> fetched[q], cmd |-> entry[q][fetched[q]]]}
  /\ entry' = [entry EXCEPT ![q][fetched[q]] = NoCmd]
  /\ fetched' = [fetched EXCEPT ![q] = (@ + 1) % Size]
  /\ UNCHANGED <<til, reqSrc, cmpl, post, postPhase, intr, finished, res, host, hand>>

Complete(q, i) == \E c \in flight :
  /\ c.que = q /\ c.id = i
  /\ (post + 1) % CmplSize # cmplDb
  /\ flight' = flight \ {c}
  /\ cmpl' = [cmpl EXCEPT ![post] = [phase |-> postPhase, que |-> q, id |-> i, cmd |-> c.cmd]]
  /\ post' = (post + 1) % CmplSize
  /\ postPhase' = IF post' = 0 THEN 1 - postPhase ELSE postPhase
  /\ intr' = TRUE
  /\ UNCHANGED <<til, reqSrc, entry, fetched, finished, res, host, hand>>

-----------------------------------------------------------------------------
(* HW_NVMe_intrHandler, with interrupts masked on the one processor that    *)
(* gets this vector.                                                        *)

Interrupt ==
  /\ hpc = "off" /\ intr
  /\ intr' = FALSE /\ hpc' = "scan" /\ found' = FALSE
  /\ UNCHANGED <<til, reqSrc, entry, cmpl, finished, res, hdr, phaseBit, cmplDb, req, host, ctrl>>

(* the request of the entry at the head: the slot is free for another, the  *)
(* completion copied into the request                                       *)
TakeReq ==
  LET e == cmpl[hdr] IN
  /\ hpc = "scan" /\ e.phase = phaseBit
  /\ found' = TRUE
  /\ req' = reqSrc[e.que][e.id]
  /\ reqSrc' = [reqSrc EXCEPT ![e.que][e.id] = None]
  /\ res' = [res EXCEPT ![req'] = e.cmd]
  /\ hpc' = "finish"
  /\ UNCHANGED <<til, entry, cmpl, intr, finished, hdr, phaseBit, cmplDb, host, ctrl>>

(* The waiting task may go on; the head moves, and its phase when it wraps. *)
FinishReq ==
  /\ hpc = "finish"
  /\ finished' = finished \cup {req} /\ req' = None
  /\ cmpl' = [cmpl EXCEPT ![hdr] = Dead(@.phase)]
  /\ hdr' = (hdr + 1) % CmplSize
  /\ phaseBit' = IF hdr' = 0 THEN 1 - phaseBit ELSE phaseBit
  /\ hpc' = "scan"
  /\ UNCHANGED <<til, reqSrc, entry, intr, res, cmplDb, found, host, ctrl>>

RungNever == cmplDb             \* a faulty variant
Rung == IF found THEN hdr ELSE cmplDb

(* no more entries: the head is rung if there were any                      *)
HandlerEnd ==
  /\ hpc = "scan" /\ cmpl[hdr].phase # phaseBit
  /\ cmplDb' = Rung
  /\ hpc' = "off"
  /\ UNCHANGED <<til, reqSrc, entry, cmpl, intr, finished, res, hdr, phaseBit, req, found, host, ctrl>>

Handler == Interrupt \/ TakeReq \/ FinishReq \/ HandlerEnd

Next ==
  \/ \E t \in Tasks : Return(t) \/ \E q \in Ques : InsReq(t, q)
  \/ \E q \in Ques : Fetch(q) \/ \E i \in Slots : Complete(q, i)
  \/ Handler

(* Interrupts are delivered and handlers run to their end; the controller   *)
(* fetches and completes what it has been given.                            *)
Fairness ==
  /\ WF_vars(Handler)
  /\ \A q \in Ques : WF_vars(Fetch(q)) /\ \A i \in Slots : SF_vars(Complete(q, i))

Spec == Init /\ [][Next]_vars /\ Fairness

-----------------------------------------------------------------------------

Fresh == {i \in 0..(CmplSize - 1) :
            IF hdr <= post THEN hdr <= i /\ i < post ELSE i >= hdr \/ i < post}

TypeOK ==
  /\ til \in [Ques -> Slots] /\ fetched \in [Ques -> Slots]
  /\ reqSrc \in [Ques -> [Slots -> Tasks \cup {None}]]
  /\ entry \in [Ques -> [Slots -> Cmds \cup {NoCmd}]]
  /\ hpc \in {"off", "scan", "finish"} /\ req \in Tasks \cup {None}
  /\ waiting \subseteq Tasks /\ finished \subseteq Tasks
  /\ hdr \in 0..(CmplSize - 1) /\ cmplDb \in 0..(CmplSize - 1) /\ phaseBit \in {0, 1}

(* reqSrc: each unfinished request is in one slot or in the handler's hands,*)
(* and no other is: the handler never writes into the stack of a task that  *)
(* has returned.  The variables keep their types.                           *)
OneSlot ==
  /\ TypeOK
  /\ \A t \in Tasks :
       Cardinality({s \in Ques \X Slots : reqSrc[s[1]][s[2]] = t}) + (IF req = t THEN 1 ELSE 0)
         = IF t \in waiting \ finished THEN 1 ELSE 0

(* HW_NVMe_insReqWait: a request whose waiting ends has the completion of   *)
(* its own, latest command, and one that waits is known in one place        *)
(* (OneSlot): slots, ids and phases never mix two requests up.              *)
OwnResult == OneSlot /\ \A t \in waiting \cap finished : res[t] = Cmd(t)

(* The controller knows the command in a slot, or has been told of it.      *)
Known(q, i) ==
  \/ \E c \in flight : c.que = q /\ c.id = i
  \/ \E k \in Fresh : cmpl[k].que = q /\ cmpl[k].id = i

(* All slots were filled before the controller fetched one: the doorbell    *)
(* tells it that the queue is empty.                                        *)
Lapped(q) == fetched[q] = til[q] /\ \E i \in Slots : reqSrc[q][i] # None /\ ~Known(q, i)

(* HW_NVMe_insReqWait does not wait for ever, unless the queue was filled   *)
(* whole: insReq's test of the slot lets one request too many in.           *)
AnsweredUnlessLapped ==
  \A t \in Tasks, q \in Ques :
    (\E i \in Slots : reqSrc[q][i] = t) ~> (t \in finished \/ Lapped(q))
=============================================================================
