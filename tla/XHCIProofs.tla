----------------------------- MODULE XHCIProofs -----------------------------
(***************************************************************************)
(* Proofs about XHCI, for any tasks and rings, and rings of any size: what *)
(* the controller executes belongs to a request that is waited for, and    *)
(* each request that is waited for has one completion.                     *)
(***************************************************************************)
EXTENDS XHCI, TLAPS, FiniteSetTheorems

(* The queue of events has room for an event of every task: there are 1024  *)
(* entries (XHCI_Host_EveQueSize).                                          *)
QueueHolds == IsFiniteSet(Tasks) /\ Cardinality(Tasks) <= QueSize

(* The way from entry f of a ring of n on to entry t.                       *)
Dist(n, f, t) == IF f <= t THEN t - f ELSE t + n - f
(* The entries of a ring of n less than d from f on.                        *)
From(n, f, d) == {i \in 0..(n - 1) : Dist(n, f, i) < d}
(* The entry i after f.                                                     *)
Wrap(n, f, i) == IF f + i < n THEN f + i ELSE f + i - n

Entries(r) == 0..(Size[r] - 1)
TRBs == [cyc : {0, 1}, cmd : Tasks \cup {None}, last : BOOLEAN]
Eves == [ring : Rings \cup {None}, pos : Nat, cmd : Tasks \cup {None}, ok : BOOLEAN]
Active(t)  == pc[t] \in {"ring", "wait"}
Waiting(t) == Active(t) /\ t \notin finished

RingTypes ==
  /\ DOMAIN trb = Rings /\ DOMAIN reqSrc = Rings
  /\ \A r \in Rings : trb[r] \in [0..Size[r] -> TRBs]
  /\ \A r \in Rings : reqSrc[r] \in [Entries(r) -> Users[r] \cup {None}]
  /\ curPos \in [Rings -> Nat] /\ \A r \in Rings : curPos[r] <= Size[r]
  /\ deq \in [Rings -> Nat] /\ \A r \in Rings : deq[r] <= Size[r]
  /\ cycBit \in [Rings -> {0, 1}] /\ ccs \in [Rings -> {0, 1}]
  /\ rung \subseteq Rings /\ halted \subseteq Halting
EventTypes ==
  /\ eve \in [0..(EveSize - 1) -> [cyc : {0, 1}, ev : Eves]]
  /\ enq \in 0..(EveSize - 1) /\ evePos \in 0..(EveSize - 1)
  /\ deqPtr \in 0..(EveSize - 1)
  /\ pcs \in {0, 1} /\ eveCyc \in {0, 1}
  /\ hpc \in {"off", "write"} /\ ptr \in 0..(EveSize - 1) \cup {None}
  /\ que \in [0..(QueSize - 1) -> Eves]
  /\ hdr \in 0..(QueSize - 1) /\ til \in 0..(QueSize - 1) /\ len \in 0..QueSize
  /\ epc \in {"get", "release", "finish"} /\ slot \in 0..(QueSize - 1)
TaskTypes ==
  /\ pc \in [Tasks -> {"idle", "ring", "wait", "stopped"}]
  /\ at \in [Tasks -> Rings \cup {None}] /\ res \in [Tasks -> Eves]
  /\ \A t \in Tasks : Active(t) => at[t] \in Rings /\ t \in Users[at[t]]
  /\ finished \subseteq Tasks /\ req \in Tasks \cup {None}
Types == RingTypes /\ EventTypes /\ TaskTypes

(* The host has written its cycle bit up to where it goes on, the other one *)
(* after it and in the link; the controller is behind it, or has the round  *)
(* before it to end first.                                                  *)
CycleBits ==
  \A r \in Rings :
    /\ trb[r][Size[r]].cyc = 1 - cycBit[r]
    /\ \A p \in Entries(r) :
         trb[r][p].cyc = IF p < curPos[r] THEN cycBit[r] ELSE 1 - cycBit[r]
    /\ IF ccs[r] = cycBit[r] THEN deq[r] <= curPos[r] ELSE curPos[r] <= deq[r]

(* An entry is occupied by a request on this ring that is waited for.       *)
Occupied ==
  \A r \in Rings : \A p \in Entries(r) :
    reqSrc[r][p] # None =>
      Waiting(reqSrc[r][p]) /\ at[reqSrc[r][p]] = r /\ reqSrc[r][p] # req

(* What the controller has yet to execute is in an occupied entry, which    *)
(* holds its request's TRB.                                                 *)
Owned ==
  \A r \in Rings \ halted : \A p \in Entries(r) :
    Unread(r, p) => reqSrc[r][p] # None /\ trb[r][p].cmd = reqSrc[r][p]

(* A request ends with the last TRB of its ring, or consists of it.         *)
OneLast ==
  /\ \A r \in Halting \ halted : \A p \in Entries(r) :
       Unread(r, p) => (trb[r][p].last <=> p + 1 = curPos[r])
  /\ \A r \in Rings \ Halting : \A p, q \in Entries(r) :
       /\ Unread(r, p) => trb[r][p].last
       /\ reqSrc[r][p] # None /\ reqSrc[r][p] = reqSrc[r][q] => p = q

RingsInv == CycleBits /\ Occupied /\ Owned /\ OneLast

(* The places of the events on their way, and the events.                   *)
OnRing == From(EveSize, evePos, Dist(EveSize, evePos, enq))
InQue  == From(QueSize, hdr, len)
InHand == IF epc \in {"release", "finish"} THEN {slot} ELSE {}
Places == ({1} \X OnRing) \cup ({2} \X InQue) \cup ({3} \X InHand)
EveAt(x) == IF x[1] = 1 THEN eve[x[2]].ev ELSE que[x[2]]

(* An event is the answer to a request that is waited for and, until it is  *)
(* released, found by the entry the event names.  Nothing of the request is *)
(* left for the controller, which has halted the ring if it failed.         *)
EventLive(e) ==
  /\ e \in [ring : Rings, pos : Nat, cmd : Tasks, ok : BOOLEAN]
  /\ e.pos \in Entries(e.ring)
  /\ Waiting(e.cmd) /\ at[e.cmd] = e.ring
  /\ e.cmd # req => reqSrc[e.ring][e.pos] = e.cmd
  /\ e.ring \in halted => ~e.ok
  /\ e.ring \notin halted =>
       \A p \in Entries(e.ring) : Unread(e.ring, p) => reqSrc[e.ring][p] # e.cmd
EventsLive == \A x \in Places : EventLive(EveAt(x))
Apart == \A x, y \in Places : EveAt(x).cmd = EveAt(y).cmd => x = y

(* A task waits for an event, or for its last TRB to be executed.           *)
LastAhead(t) ==
  at[t] \notin halted /\ \E p \in Entries(at[t]) : LastOf(t, at[t], p)
Answering ==
  \A t \in Tasks : Waiting(t) =>
    (\E x \in Places : EveAt(x).cmd = t) \/ LastAhead(t)
EventsInv == EventsLive /\ Apart /\ Answering

(* The request released is that of the event in hand.  What a task was told *)
(* is what it waited for, a failure if its ring has halted; its user stops. *)
Released == req = IF epc = "finish" THEN que[slot].cmd ELSE None
Told ==
  \A t \in finished : Active(t) /\ res[t].cmd = t /\ (at[t] \in halted => ~res[t].ok)
HaltedStops ==
  \A r \in halted : \A t \in Users[r] : pc[t] = "stopped" \/ (Active(t) /\ at[t] = r)

(* The cycle bits of the event ring tell this round from the last; the      *)
(* dequeue pointer, the host and the controller follow each other.          *)
EventRing ==
  /\ \A i \in 0..(EveSize - 1) : eve[i].cyc = IF i < enq THEN pcs ELSE 1 - pcs
  /\ IF eveCyc = pcs THEN evePos <= enq ELSE enq < evePos
  /\ Dist(EveSize, deqPtr, evePos) <= Dist(EveSize, deqPtr, enq)
  /\ hpc = "write" /\ ptr # None =>
       Dist(EveSize, deqPtr, ptr) <= Dist(EveSize, deqPtr, evePos)

(* The queue's indexes; the entry in hand is the one before it.             *)
QueueShape ==
  /\ til = Wrap(QueSize, hdr, len)
  /\ epc # "get" => len < QueSize /\ hdr = Wrap(QueSize, slot, 1)

IInv ==
  /\ Types /\ RingsInv /\ EventsInv /\ Released /\ Told /\ HaltedStops
  /\ EventRing /\ QueueShape

-----------------------------------------------------------------------------
(* Arithmetic of rings                                                      *)

(* Once round a ring, remainder and quotient are a subtraction.             *)
LEMMA RingWrap ==
  ASSUME NEW n \in Nat \ {0}, NEW a \in 0..(2 * n - 1)
  PROVE  /\ a % n = IF a < n THEN a ELSE a - n
         /\ a \div n = IF a < n THEN 0 ELSE 1
<1>1. CASE a < n
  BY <1>1
<1>2. CASE a >= n
  BY <1>2
<1> QED BY <1>1, <1>2

(* The way to an entry, as the code computes it.                            *)
LEMMA DistIs ==
  ASSUME NEW n \in Nat \ {0}, NEW f \in 0..(n - 1), NEW t \in 0..(n - 1)
  PROVE  /\ (t + n - f) % n = Dist(n, f, t)
         /\ Dist(n, f, t) \in 0..(n - 1)
         /\ Wrap(n, f, Dist(n, f, t)) = t
<1> DEFINE a == t + n - f
<1>1. a \in 0..(2 * n - 1)
  OBVIOUS
<1> HIDE DEF a
<1>2. a % n = IF a < n THEN a ELSE a - n
  BY <1>1, RingWrap
<1> QED BY <1>2 DEF a, Dist, Wrap

(* The entry some way ahead, as the code computes it.                       *)
LEMMA WrapIs ==
  ASSUME NEW n \in Nat \ {0}, NEW f \in 0..(n - 1), NEW i \in 0..n
  PROVE  /\ (f + i) % n = Wrap(n, f, i)
         /\ Wrap(n, f, i) \in 0..(n - 1)
         /\ i < n => Dist(n, f, Wrap(n, f, i)) = i
<1> DEFINE a == f + i
<1>1. a \in 0..(2 * n - 1)
  OBVIOUS
<1> HIDE DEF a
<1>2. a % n = IF a < n THEN a ELSE a - n
  BY <1>1, RingWrap
<1> QED BY <1>2 DEF a, Dist, Wrap

(* Going on from an entry shortens the way to what is ahead, and lengthens  *)
(* the way from what is behind.                                             *)
LEMMA WrapShortens ==
  ASSUME NEW n \in Nat \ {0}, NEW f \in 0..(n - 1), NEW t \in 0..(n - 1),
         NEW k \in 0..Dist(n, f, t)
  PROVE  /\ k \in 0..(n - 1) /\ Wrap(n, f, k) \in 0..(n - 1)
         /\ Dist(n, Wrap(n, f, k), t) = Dist(n, f, t) - k
BY DEF Dist, Wrap

LEMMA WrapLengthens ==
  ASSUME NEW n \in Nat \ {0}, NEW b \in 0..(n - 1), NEW f \in 0..(n - 1),
         NEW t \in 0..(n - 1), Dist(n, b, f) <= Dist(n, b, t), NEW k \in 0..Dist(n, f, t)
  PROVE  /\ Dist(n, b, Wrap(n, f, k)) = Dist(n, b, f) + k
         /\ Dist(n, b, t) = Dist(n, b, f) + Dist(n, f, t)
<1>1. Dist(n, b, t) = Dist(n, b, f) + Dist(n, f, t)
  BY DEF Dist
<1>2. Dist(n, b, Wrap(n, f, k)) = Dist(n, b, f) + k
  BY DEF Dist, Wrap
<1> QED BY <1>1, <1>2

-----------------------------------------------------------------------------
(* Steps that move no event and no TRB                                      *)

(* What an action leaves alone keeps the parts of the invariant about it.   *)
LEMMA RingsKept ==
  ASSUME RingsInv, UNCHANGED <<trb, curPos, cycBit, reqSrc, deq, ccs, halted, pc, at,
                               finished, req>>
  PROVE  RingsInv'
BY DEF RingsInv, CycleBits, Occupied, Owned, OneLast, Unread, Waiting, Active, Entries

(* The same for the events.                                                 *)
LEMMA EventsKept ==
  ASSUME EventsInv, UNCHANGED <<trb, curPos, cycBit, reqSrc, deq, ccs, halted, pc, at,
                                finished, req, eve, enq, evePos, que, hdr, len, epc, slot>>
  PROVE  EventsInv'
<1>1. Places' = Places /\ \A x : EveAt(x)' = EveAt(x)
  BY DEF Places, OnRing, InQue, InHand, EveAt
<1>2. \A e : EventLive(e) => EventLive(e)'
  BY DEF EventLive, Waiting, Active, Unread, Entries
<1>3. \A t : /\ Waiting(t)' <=> Waiting(t)
             /\ LastAhead(t)' <=> LastAhead(t)
  BY DEF Waiting, Active, LastAhead, LastOf, Unread, Entries
<1> QED BY <1>1, <1>2, <1>3 DEF EventsInv, EventsLive, Apart, Answering

(* The interrupt only marks that it is pending.                             *)
LEMMA InterruptStep ==
  ASSUME IInv, Interrupt
  PROVE  IInv'
<1> USE DEF IInv, Interrupt, rings, ctrl, handler, queue, evtsk, task
<1>1. Types'
  BY DEF Types, RingTypes, EventTypes, TaskTypes, Active
<1>2. RingsInv' /\ EventsInv'
  BY RingsKept, EventsKept
<1>3. Released' /\ Told' /\ HaltedStops'
  BY DEF Released, Told, HaltedStops, Active
<1>4. EventRing' /\ QueueShape'
  BY DEF EventRing, QueueShape
<1> QED BY <1>1, <1>2, <1>3, <1>4

(* The pointer written is between the old one and the host.                 *)
LEMMA WriteDeqPtrStep ==
  ASSUME IInv, WriteDeqPtr
  PROVE  IInv'
<1> USE DEF IInv, WriteDeqPtr, rings, ctrl, queue, evtsk, task
<1>1. Types'
  BY DEF Types, RingTypes, EventTypes, TaskTypes, Active
<1>2. RingsInv' /\ EventsInv'
  BY RingsKept, EventsKept
<1>3. Released' /\ Told' /\ HaltedStops'
  BY DEF Released, Told, HaltedStops, Active
<1>4. QueueShape'
  BY DEF QueueShape
<1>5. EventRing'
  <2>1. /\ EveSize \in Nat /\ enq \in 0..(EveSize - 1) /\ evePos \in 0..(EveSize - 1)
        /\ deqPtr \in 0..(EveSize - 1) /\ (ptr = None \/ ptr \in 0..(EveSize - 1))
    BY XHCIAssumption DEF Types, EventTypes
  <2>2. Dist(EveSize, deqPtr', evePos) <= Dist(EveSize, deqPtr', enq)
    <3>1. CASE ptr = None
      BY <3>1 DEF EventRing
    <3>2. CASE ptr # None
      <4>1. /\ Dist(EveSize, deqPtr, ptr) <= Dist(EveSize, deqPtr, evePos)
            /\ Dist(EveSize, deqPtr, evePos) <= Dist(EveSize, deqPtr, enq)
        BY <3>2 DEF EventRing
      <4>2. Dist(EveSize, ptr, evePos) <= Dist(EveSize, ptr, enq)
        BY <2>1, <3>2, <4>1 DEF Dist
      <4> QED BY <3>2, <4>2
    <3> QED BY <3>1, <3>2
  <2>3. hpc' = "off"
    OBVIOUS
  <2> QED BY <2>2, <2>3 DEF EventRing
<1> QED BY <1>1, <1>2, <1>3, <1>4, <1>5

(* The doorbell is that of a ring the task waits on.                        *)
LEMMA RingDbStep ==
  ASSUME IInv, NEW t \in Tasks, RingDb(t)
  PROVE  IInv'
<1> USE DEF IInv, RingDb, rings, ctrl, handler, queue, evtsk
<1>1. Types'
  BY DEF Types, RingTypes, EventTypes, TaskTypes, Active
<1>2. \A u \in Tasks : /\ Active(u)' <=> Active(u)
                       /\ Waiting(u)' <=> Waiting(u)
                       /\ LastAhead(u)' <=> LastAhead(u)
  BY DEF Active, Waiting, LastAhead, LastOf, Unread, Entries, Types, TaskTypes
<1>3. \A r, p : Unread(r, p)' <=> Unread(r, p)
  BY DEF Unread
<1>4. CycleBits' /\ Owned' /\ OneLast'
  BY <1>3 DEF RingsInv, CycleBits, Owned, OneLast, Entries
<1>5. Occupied'
  BY <1>2, XHCIAssumption DEF RingsInv, Occupied, Entries, Types, RingTypes
<1>6. EventsInv'
  <2>1. Places' = Places /\ \A x : EveAt(x)' = EveAt(x)
    BY DEF Places, OnRing, InQue, InHand, EveAt
  <2>2. \A e : EventLive(e) => EventLive(e)'
    BY <1>2, <1>3 DEF EventLive, Entries
  <2> QED BY <2>1, <2>2, <1>2 DEF EventsInv, EventsLive, Apart, Answering
<1>7. Released' /\ Told' /\ HaltedStops'
  BY <1>2, XHCIAssumption DEF Released, Told, HaltedStops, Types, TaskTypes, RingTypes
<1>8. EventRing' /\ QueueShape'
  BY DEF EventRing, QueueShape
<1> QED BY <1>1, <1>4, <1>5, <1>6, <1>7, <1>8 DEF RingsInv

(* A task returns from a request that is over, and stops if it failed.      *)
LEMMA ReturnStep ==
  ASSUME IInv, NEW t \in Tasks, Return(t)
  PROVE  IInv'
<1> USE DEF IInv, Return, rings, ctrl, handler, queue, evtsk
<1>1. NoEve \in Eves
  BY DEF NoEve, Eves
<1>2. Types'
  BY <1>1 DEF Types, RingTypes, EventTypes, TaskTypes, Active
<1>3. \A u \in Tasks : /\ Waiting(u)' <=> Waiting(u)
                       /\ Waiting(u) => u # t /\ at'[u] = at[u]
  BY DEF Active, Waiting, Types, TaskTypes
<1>4. \A u \in Tasks \ {t} : LastAhead(u)' <=> LastAhead(u)
  BY DEF LastAhead, LastOf, Unread, Entries, Types, TaskTypes
<1>5. \A r, p : Unread(r, p)' <=> Unread(r, p)
  BY DEF Unread
<1>6. CycleBits' /\ Owned' /\ OneLast'
  BY <1>5 DEF RingsInv, CycleBits, Owned, OneLast, Entries
<1>7. Occupied'
  BY <1>3, XHCIAssumption DEF RingsInv, Occupied, Entries, Types, RingTypes
<1>8. EventsInv'
  <2>1. Places' = Places /\ \A x : EveAt(x)' = EveAt(x)
    BY DEF Places, OnRing, InQue, InHand, EveAt
  <2>2. \A e : EventLive(e) => EventLive(e)'
    BY <1>3, <1>5 DEF EventLive, Entries
  <2> QED BY <2>1, <2>2, <1>3, <1>4 DEF EventsInv, EventsLive, Apart, Answering
<1>9. Released' /\ EventRing' /\ QueueShape'
  BY DEF Released, EventRing, QueueShape
<1>10. Told'
  BY DEF Told, Types, TaskTypes, Active
<1>11. HaltedStops'
  <2> SUFFICES ASSUME NEW r \in halted, NEW u \in Users[r]
               PROVE  pc'[u] = "stopped" \/ (Active(u)' /\ at'[u] = r)
    BY DEF HaltedStops
  <2>1. r \in Rings /\ u \in Tasks
    BY XHCIAssumption DEF Types, RingTypes
  <2>2. CASE u = t
    BY <2>1, <2>2 DEF HaltedStops, Told, Types, TaskTypes
  <2>3. CASE u # t
    BY <2>1, <2>3 DEF HaltedStops, Active, Types, TaskTypes
  <2> QED BY <2>2, <2>3
<1> QED BY <1>2, <1>6, <1>7, <1>8, <1>9, <1>10, <1>11 DEF RingsInv

(* The link leads the controller to the round the host is in.               *)
LEMMA FollowStep ==
  ASSUME IInv, NEW r \in Rings, Follow(r)
  PROVE  IInv'
<1> USE DEF IInv, rings, handler, queue, evtsk, task
<1> DEFINE Round == /\ deq[r] = Size[r] /\ ccs[r] = 1 - cycBit[r]
                    /\ deq' = [deq EXCEPT ![r] = 0] /\ ccs' = [ccs EXCEPT ![r] = 1 - @]
<1>0. /\ \A s \in Rings : Size[s] \in Nat \ {0}
      /\ curPos \in [Rings -> Nat] /\ \A s \in Rings : curPos[s] <= Size[s]
      /\ deq \in [Rings -> Nat] /\ \A s \in Rings : deq[s] <= Size[s]
      /\ cycBit \in [Rings -> {0, 1}] /\ ccs \in [Rings -> {0, 1}]
  BY XHCIAssumption DEF Types, RingTypes
<1>1. UNCHANGED <<deq, ccs>> \/ Round
  <2>1. deq[r] = Size[r] /\ NextTrb(r).cyc = ccs[r] => ccs[r] = 1 - cycBit[r]
    BY DEF NextTrb, RingsInv, CycleBits
  <2> QED BY <2>1 DEF Follow
<1>2. Types'
  <2>1. EventTypes' /\ TaskTypes'
    BY DEF Follow, Types, EventTypes, TaskTypes, Active
  <2>2. /\ deq' \in [Rings -> Nat] /\ \A s \in Rings : deq'[s] <= Size[s]
        /\ ccs' \in [Rings -> {0, 1}]
    BY <1>0, <1>1
  <2>3. rung' \subseteq Rings
    BY DEF Follow, Types, RingTypes
  <2> QED BY <2>1, <2>2, <2>3 DEF Follow, Types, RingTypes, Entries
<1>3. \A s \in Rings : \A p \in Entries(s) : Unread(s, p)' <=> Unread(s, p)
  <2>1. UNCHANGED <<curPos, cycBit>>
    BY DEF Follow
  <2>2. CASE UNCHANGED <<deq, ccs>>
    BY <2>1, <2>2 DEF Unread
  <2>3. CASE Round
    BY <2>1, <2>3, <1>0 DEF Unread, Entries
  <2> QED BY <1>1, <2>2, <2>3
<1>4. CycleBits'
  <2>1. UNCHANGED <<trb, curPos, cycBit>>
    BY DEF Follow
  <2>2. \A s \in Rings : IF ccs'[s] = cycBit[s] THEN deq'[s] <= curPos[s]
                                               ELSE curPos[s] <= deq'[s]
    BY <1>0, <1>1 DEF RingsInv, CycleBits
  <2> QED BY <2>1, <2>2 DEF RingsInv, CycleBits, Entries
<1>5. Occupied' /\ Owned' /\ OneLast'
  <2>1. UNCHANGED <<trb, curPos, reqSrc, halted, pc, at, finished, req>>
    BY DEF Follow
  <2>2. Occupied'
    BY <2>1 DEF RingsInv, Occupied, Entries, Waiting, Active
  <2>3. Owned'
    BY <2>1, <1>3 DEF RingsInv, Owned, Entries
  <2>4. OneLast'
    BY <2>1, <1>3, XHCIAssumption DEF RingsInv, OneLast, Entries
  <2> QED BY <2>2, <2>3, <2>4
<1>6. EventsInv'
  <2>1. Places' = Places /\ \A x : EveAt(x)' = EveAt(x)
    BY DEF Follow, Places, OnRing, InQue, InHand, EveAt
  <2>2. \A e : EventLive(e) => EventLive(e)'
    BY <1>3 DEF Follow, EventLive, Entries, Waiting, Active
  <2>3. \A t \in Tasks : Waiting(t) => (LastAhead(t)' <=> LastAhead(t))
    BY <1>3 DEF Follow, LastAhead, LastOf, Entries, Waiting, Types, TaskTypes
  <2> QED BY <2>1, <2>2, <2>3 DEF EventsInv, EventsLive, Apart, Answering, Waiting, Active, Follow
<1>7. Released' /\ Told' /\ HaltedStops'
  BY DEF Follow, Released, Told, HaltedStops, Active
<1>8. EventRing' /\ QueueShape'
  BY DEF Follow, EventRing, QueueShape
<1> QED BY <1>2, <1>4, <1>5, <1>6, <1>7, <1>8 DEF RingsInv

(* Events that only move keep what is said about them.                      *)
LEMMA EventsMoved ==
  ASSUME EventsInv, UNCHANGED <<trb, curPos, cycBit, reqSrc, deq, ccs, halted, pc, at,
                                finished, req>>,
         \A x \in Places' : \E y \in Places : EveAt(x)' = EveAt(y),
         \A y \in Places : \E x \in Places' : EveAt(x)' = EveAt(y),
         Apart'
  PROVE  EventsInv'
<1>1. \A e : EventLive(e) => EventLive(e)'
  BY DEF EventLive, Waiting, Active, Unread, Entries
<1>2. \A t : /\ Waiting(t)' <=> Waiting(t)
             /\ LastAhead(t)' <=> LastAhead(t)
  BY DEF Waiting, Active, LastAhead, LastOf, Unread, Entries
<1>3. EventsLive'
  BY <1>1 DEF EventsInv, EventsLive
<1>4. Answering'
  BY <1>2 DEF EventsInv, Answering
<1> QED BY <1>3, <1>4 DEF EventsInv

(* The first event of the queue is taken in hand.                           *)
LEMMA GetEveStep ==
  ASSUME IInv, GetEve
  PROVE  IInv'
<1> USE DEF IInv, GetEve, HeadSlot, rings, ctrl, handler, task
<1>1. QueSize \in Nat \ {0} /\ hdr \in 0..(QueSize - 1) /\ len \in 1..QueSize
  BY XHCIAssumption DEF Types, EventTypes
<1>2. hdr' = Wrap(QueSize, hdr, 1) /\ hdr' \in 0..(QueSize - 1)
  BY <1>1, WrapIs
<1>3. Types'
  BY <1>1, <1>2 DEF Types, RingTypes, EventTypes, TaskTypes, Active
<1>4. RingsInv'
  BY RingsKept
<1>5. InQue = {hdr} \cup InQue' /\ hdr \notin InQue'
  BY <1>1, <1>2 DEF InQue, From, Dist, Wrap
<1>6. OnRing' = OnRing /\ InHand = {} /\ InHand' = {hdr}
  BY DEF OnRing, InHand
<1>7. EventsInv'
  <2> DEFINE was(x) == IF x[1] = 3 THEN <<2, hdr>> ELSE x
  <2>1. \A x \in Places' : was(x) \in Places /\ EveAt(x)' = EveAt(was(x))
    BY <1>5, <1>6 DEF Places, EveAt
  <2>2. \A y \in Places : \E x \in Places' : was(x) = y
    <3> SUFFICES ASSUME NEW y \in Places
                 PROVE  \E x \in Places' : was(x) = y
      OBVIOUS
    <3>1. CASE y = <<2, hdr>>
      <4>1. <<3, hdr>> \in Places' /\ was(<<3, hdr>>) = y
        BY <3>1, <1>6 DEF Places
      <4> QED BY <4>1
    <3>2. CASE y # <<2, hdr>>
      <4>1. y \in Places' /\ was(y) = y
        BY <3>2, <1>5, <1>6 DEF Places
      <4> QED BY <4>1
    <3> QED BY <3>1, <3>2
  <2>3. \A x, y \in Places' : was(x) = was(y) => x = y
    BY <1>5, <1>6 DEF Places
  <2> HIDE DEF was
  <2>4. Apart'
    BY <2>1, <2>3 DEF EventsInv, Apart
  <2>5. \A x \in Places' : \E y \in Places : EveAt(x)' = EveAt(y)
    BY <2>1
  <2>6. \A y \in Places : \E x \in Places' : EveAt(x)' = EveAt(y)
    BY <2>1, <2>2
  <2> QED BY <2>4, <2>5, <2>6, EventsMoved
<1>8. Released' /\ Told' /\ HaltedStops' /\ EventRing'
  BY DEF Released, Told, HaltedStops, EventRing, Active
<1>9. QueueShape'
  BY <1>1, <1>2 DEF QueueShape, Wrap
<1> QED BY <1>3, <1>4, <1>7, <1>8, <1>9

(* The event in hand is answered: it is the only one of its request.        *)
LEMMA FinishStep ==
  ASSUME IInv, Finish
  PROVE  IInv'
<1> USE DEF IInv, Finish, Answer, rings, ctrl, handler, task
<1>1. QueSize \in Nat \ {0} /\ hdr \in 0..(QueSize - 1) /\ slot \in 0..(QueSize - 1)
      /\ len \in 0..(QueSize - 1) /\ hdr = Wrap(QueSize, slot, 1)
  BY XHCIAssumption DEF Types, EventTypes, QueueShape
<1>2. slot \notin InQue /\ Dist(QueSize, hdr, slot) >= len
  BY <1>1 DEF InQue, From, Dist, Wrap
<1>3. que' = [que EXCEPT ![slot] = NoEve]
  BY <1>1, <1>2, DistIs
<1>4. <<3, slot>> \in Places /\ EveAt(<<3, slot>>) = que[slot]
  BY DEF Places, InHand, EveAt
<1>5. EventLive(que[slot]) /\ req = que[slot].cmd
  BY <1>4 DEF EventsInv, EventsLive, Released
<1>6. req \in Tasks /\ Waiting(req) /\ que[slot] \in Eves /\ NoEve \in Eves
  BY <1>5 DEF EventLive, Eves, NoEve
<1>7. Types'
  <2>1. RingTypes'
    BY DEF Types, RingTypes, Entries
  <2>2. EventTypes'
    BY <1>1, <1>3, <1>6 DEF Types, EventTypes
  <2>3. TaskTypes'
    BY <1>6 DEF Types, TaskTypes, Active
  <2> QED BY <2>1, <2>2, <2>3 DEF Types
<1>8. \A t \in Tasks : Waiting(t)' <=> Waiting(t) /\ t # req
  BY DEF Waiting, Active
<1>9. \A r, p : Unread(r, p)' <=> Unread(r, p)
  BY DEF Unread
<1>10. CycleBits' /\ Owned' /\ OneLast'
  BY <1>9 DEF RingsInv, CycleBits, Owned, OneLast, Entries
<1>11. Occupied'
  <2> SUFFICES ASSUME NEW r \in Rings, NEW p \in Entries(r), reqSrc[r][p] # None
               PROVE  Waiting(reqSrc[r][p])' /\ at[reqSrc[r][p]] = r /\ reqSrc[r][p] # None
    BY DEF Occupied, Entries
  <2>1. reqSrc[r] \in [Entries(r) -> Users[r] \cup {None}] /\ Users[r] \subseteq Tasks
    BY XHCIAssumption DEF Types, RingTypes
  <2>2. reqSrc[r][p] \in Tasks
    BY <2>1
  <2> QED BY <2>2, <1>8 DEF RingsInv, Occupied
<1>12. Places' = Places \ {<<3, slot>>}
  BY DEF Places, OnRing, InQue, InHand
<1>13. \A x \in Places' : EveAt(x)' = EveAt(x) /\ EveAt(x).cmd # req
  <2>1. \A x \in Places' : EveAt(x).cmd # req
    BY <1>4, <1>5, <1>12 DEF EventsInv, Apart
  <2>2. \A x \in Places' : EveAt(x)' = EveAt(x)
    BY <1>2, <1>3, <1>12 DEF EveAt, Places, InHand, Types, EventTypes
  <2> QED BY <2>1, <2>2
<1>14. EventsInv'
  <2>1. \A e : EventLive(e) /\ e.cmd # req => EventLive(e)'
    BY <1>8, <1>9 DEF EventLive, Entries
  <2>2. \A t : LastAhead(t)' <=> LastAhead(t)
    BY DEF LastAhead, LastOf, Unread, Entries
  <2>3. EventsLive' /\ Apart'
    BY <2>1, <1>12, <1>13 DEF EventsInv, EventsLive, Apart
  <2>4. Answering'
    <3> SUFFICES ASSUME NEW t \in Tasks, Waiting(t)'
                 PROVE  (\E x \in Places' : EveAt(x)'.cmd = t) \/ LastAhead(t)'
      BY DEF Answering
    <3>1. Waiting(t) /\ t # req
      BY <1>8
    <3>2. ASSUME NEW x \in Places, EveAt(x).cmd = t
          PROVE  x \in Places' /\ EveAt(x)'.cmd = t
      BY <3>1, <3>2, <1>4, <1>5, <1>12, <1>13
    <3> QED BY <3>1, <3>2, <2>2 DEF EventsInv, Answering
  <2> QED BY <2>3, <2>4 DEF EventsInv
<1>15. Released' /\ HaltedStops' /\ EventRing' /\ QueueShape'
  BY DEF Released, HaltedStops, EventRing, QueueShape, Active
<1>16. Told'
  BY <1>5, <1>6 DEF Told, EventLive, Active, Waiting, Types, TaskTypes
<1> QED BY <1>7, <1>10, <1>11, <1>14, <1>15, <1>16 DEF RingsInv

(* The entries of the answered request are given up; the controller has     *)
(* executed them all, or halted.                                            *)
LEMMA ReleaseStep ==
  ASSUME IInv, Release
  PROVE  IInv'
<1> DEFINE e == que[slot]
           t == e.cmd
           own(r, p) == r = at[t] /\ reqSrc[r][p] = t
<1> USE DEF IInv, rings, ctrl, handler, queue, task
<1>1. epc = "release" /\ req = None
  BY Zenon DEF Release, Released
<1>2. <<3, slot>> \in Places /\ EveAt(<<3, slot>>) = e
  BY <1>1 DEF Places, InHand, EveAt
<1>3. EventLive(e)
  BY <1>2 DEF EventsInv, EventsLive
<1>4. /\ t \in Tasks /\ t # None /\ at[t] = e.ring /\ e.ring \in Rings /\ e.ring # None
      /\ e.pos \in Entries(e.ring) /\ reqSrc[e.ring][e.pos] = t /\ Waiting(t) /\ e \in Eves
  <2>1. /\ e \in [ring : Rings, pos : Nat, cmd : Tasks, ok : BOOLEAN]
        /\ e.pos \in Entries(e.ring) /\ Waiting(t) /\ at[t] = e.ring
        /\ t # req => reqSrc[e.ring][e.pos] = t
    BY <1>3 DEF EventLive
  <2>2. t \in Tasks /\ e.ring \in Rings /\ e \in Eves
    BY <2>1 DEF Eves
  <2>3. t # None /\ e.ring # None
    BY ONLY <2>2, XHCIAssumption
  <2> QED BY <2>1, <2>2, <2>3, <1>1
<1>5. /\ req' = t /\ epc' = "finish"
      /\ reqSrc' = [reqSrc EXCEPT ![at[t]] =
            [p \in DOMAIN @ |-> IF p \in Targets(t) THEN None ELSE @[p]]]
      /\ trb' = [trb EXCEPT ![at[t]] =
            [p \in DOMAIN @ |-> IF p \in Targets(t)
                                 THEN [@[p] EXCEPT !.cmd = None, !.last = TRUE] ELSE @[p]]]
      /\ UNCHANGED <<curPos, cycBit, ctrl, rung, eve, evePos, eveCyc, deqPtr, busy,
                     intr, handler, queue, slot, task, finished, res>>
  BY <1>4 DEF Release
<1> HIDE DEF e, t
<1>6. \A r \in Rings : Size[r] \in Nat \ {0} /\ DOMAIN reqSrc[r] = Entries(r)
                       /\ DOMAIN trb[r] = 0..Size[r]
                       /\ Entries(r) \subseteq 0..Size[r] /\ Size[r] \in 0..Size[r]
  BY XHCIAssumption DEF Types, RingTypes, Entries
<1>7. Targets(t) = {p \in Entries(at[t]) : reqSrc[at[t]][p] = t}
  BY <1>4, <1>6 DEF Targets
<1>8. \A r \in Rings : \A p \in Entries(r) :
        reqSrc'[r][p] = IF own(r, p) THEN None ELSE reqSrc[r][p]
  BY <1>4, <1>5, <1>6, <1>7 DEF Types, RingTypes
<1>9. ASSUME NEW r \in Rings
      PROVE  /\ trb'[r] \in [0..Size[r] -> TRBs]
             /\ \A p \in 0..Size[r] : trb'[r][p].cyc = trb[r][p].cyc
             /\ \A p \in Entries(r) : ~own(r, p) => trb'[r][p] = trb[r][p]
  <2>1. DOMAIN trb = Rings /\ trb[r] \in [0..Size[r] -> TRBs]
    BY DEF Types, RingTypes
  <2>2. CASE r = at[t]
    <3>1. trb'[r] = [p \in 0..Size[r] |->
                       IF p \in Targets(t)
                       THEN [trb[r][p] EXCEPT !.cmd = None, !.last = TRUE] ELSE trb[r][p]]
      BY <2>1, <2>2, <1>5, <1>6
    <3>2. \A p \in 0..Size[r] :
            /\ [trb[r][p] EXCEPT !.cmd = None, !.last = TRUE] \in TRBs
            /\ [trb[r][p] EXCEPT !.cmd = None, !.last = TRUE].cyc = trb[r][p].cyc
      BY <2>1 DEF TRBs
    <3>3. \A p \in Entries(r) : p \in Targets(t) => own(r, p)
      BY <2>2, <1>7
    <3>4. trb'[r] \in [0..Size[r] -> TRBs]
      BY <2>1, <3>1, <3>2
    <3>5. \A p \in 0..Size[r] : trb'[r][p].cyc = trb[r][p].cyc
      BY <3>1, <3>2
    <3>6. \A p \in Entries(r) : ~own(r, p) => trb'[r][p] = trb[r][p]
      BY <3>1, <3>3, <1>6
    <3> QED BY <3>4, <3>5, <3>6
  <2>3. CASE r # at[t]
    BY <2>1, <2>3, <1>5, <1>6
  <2> QED BY <2>2, <2>3
<1>10. Types'
  <2>1. DOMAIN trb' = Rings /\ \A r \in Rings : trb'[r] \in [0..Size[r] -> TRBs]
    BY <1>5, <1>9 DEF Types, RingTypes
  <2>2. \A r \in Rings : reqSrc'[r] \in [Entries(r) -> Users[r] \cup {None}]
    BY <1>4, <1>5, <1>6, <1>7 DEF Types, RingTypes
  <2> QED BY <2>1, <2>2, <1>4, <1>5
        DEF Types, RingTypes, EventTypes, TaskTypes, Active, Entries
<1>11. \A r, p : Unread(r, p)' <=> Unread(r, p)
  BY <1>5 DEF Unread
<1>12. \A r \in Rings \ halted : \A p \in Entries(r) : Unread(r, p) => ~own(r, p)
  BY <1>3, <1>4 DEF EventLive, t
<1>13. \A u : Waiting(u)' <=> Waiting(u)
  BY <1>5 DEF Waiting, Active
<1>14. CycleBits'
  <2>1. UNCHANGED <<curPos, cycBit, deq, ccs>>
    BY <1>5
  <2> QED BY <2>1, <1>6, <1>9 DEF RingsInv, CycleBits, Entries
<1>15. Owned'
  <2> SUFFICES ASSUME NEW r \in Rings \ halted, NEW p \in Entries(r), Unread(r, p)
               PROVE  reqSrc'[r][p] # None /\ trb'[r][p].cmd = reqSrc'[r][p]
    BY <1>5, <1>11 DEF Owned, Entries
  <2>1. ~own(r, p)
    BY <1>12
  <2> QED BY <2>1, <1>8, <1>9 DEF RingsInv, Owned
<1>16. OneLast'
  <2>1. \A r \in Halting \ halted' : \A p \in Entries(r) :
          Unread(r, p)' => (trb'[r][p].last <=> p + 1 = curPos'[r])
    <3> SUFFICES ASSUME NEW r \in Halting \ halted, NEW p \in Entries(r), Unread(r, p)
                 PROVE  trb'[r][p].last <=> p + 1 = curPos[r]
      BY <1>5, <1>11
    <3>1. r \in Rings /\ ~own(r, p)
      BY <1>12, XHCIAssumption
    <3> QED BY <3>1, <1>9 DEF RingsInv, OneLast
  <2>2. \A r \in Rings \ Halting : \A p, q \in Entries(r) :
          /\ Unread(r, p)' => trb'[r][p].last
          /\ reqSrc'[r][p] # None /\ reqSrc'[r][p] = reqSrc'[r][q] => p = q
    <3>1. Rings \ Halting \subseteq Rings \ halted
      BY DEF Types, RingTypes
    <3> QED BY <3>1, <1>8, <1>9, <1>11, <1>12 DEF RingsInv, OneLast
  <2> QED BY <2>1, <2>2 DEF OneLast, Entries
<1>17. Occupied'
  <2> SUFFICES ASSUME NEW r \in Rings, NEW p \in Entries(r), reqSrc'[r][p] # None
               PROVE  Waiting(reqSrc[r][p])' /\ at'[reqSrc'[r][p]] = r /\ reqSrc'[r][p] # req'
    BY DEF Occupied, Entries
  <2>1. reqSrc'[r][p] = reqSrc[r][p] /\ ~own(r, p)
    BY <1>8
  <2>2. /\ Waiting(reqSrc[r][p]) /\ at[reqSrc[r][p]] = r
        /\ reqSrc'[r][p] = reqSrc[r][p] /\ reqSrc[r][p] # t
    <3>1. Waiting(reqSrc[r][p]) /\ at[reqSrc[r][p]] = r
      BY <2>1 DEF RingsInv, Occupied
    <3> QED BY <2>1, <3>1
  <2>3. UNCHANGED <<pc, at, finished>> /\ req' = t
    BY <1>5
  <2> QED BY <2>2, <2>3 DEF Waiting, Active
<1>18. EventsInv'
  <2>1. Places' = Places /\ \A x : EveAt(x)' = EveAt(x)
    BY <1>1, <1>5 DEF Places, OnRing, InQue, InHand, EveAt
  <2>2. ASSUME NEW x \in Places
        PROVE  EventLive(EveAt(x))'
    <3>0. PICK d : d = EveAt(x)
      OBVIOUS
    <3>1. EventLive(d)
      BY <3>0 DEF EventsInv, EventsLive
    <3>2. EveAt(x)' = d
      BY <2>1, <3>0
    <3>3. d.cmd # t => reqSrc'[d.ring][d.pos] = d.cmd
      BY <3>1, <1>1, <1>4, <1>8, XHCIAssumption DEF EventLive
    <3>4. d.ring \notin halted =>
            \A p \in Entries(d.ring) : Unread(d.ring, p)' => reqSrc'[d.ring][p] # d.cmd
      <4> SUFFICES ASSUME d.ring \notin halted, NEW p \in Entries(d.ring),
                          Unread(d.ring, p)
                   PROVE  reqSrc'[d.ring][p] # d.cmd
        BY <1>11
      <4>1. d.ring \in Rings /\ reqSrc[d.ring][p] # d.cmd /\ d.cmd # None
        BY <3>1, XHCIAssumption DEF EventLive
      <4> QED BY <4>1, <1>8
    <3>5. EventLive(d)'
      BY <3>1, <3>3, <3>4, <1>5, <1>13 DEF EventLive, Entries
    <3> QED BY <3>2, <3>5
  <2>3. ASSUME NEW u \in Tasks, Waiting(u), u # t
        PROVE  LastAhead(u) => LastAhead(u)'
    <3>1. at[u] \in Rings /\ at' = at /\ halted' = halted
      BY <2>3, <1>5 DEF Waiting, Types, TaskTypes
    <3>2. ASSUME NEW p \in Entries(at[u]), LastOf(u, at[u], p)
          PROVE  LastOf(u, at[u], p)'
      <4>1. ~own(at[u], p)
        BY <3>2, <2>3 DEF LastOf
      <4> QED BY <4>1, <3>1, <3>2, <1>8, <1>9, <1>11 DEF LastOf
    <3> QED BY <3>1, <3>2 DEF LastAhead, Entries
  <2>4. EventsLive' /\ Apart'
    BY <2>1, <2>2 DEF EventsInv, EventsLive, Apart
  <2>5. Answering'
    <3> SUFFICES ASSUME NEW u \in Tasks, Waiting(u)
                 PROVE  (\E x \in Places' : EveAt(x)'.cmd = u) \/ LastAhead(u)'
      BY <1>13 DEF Answering
    <3>1. CASE u = t
      BY <3>1, <1>2, <2>1 DEF t
    <3>2. CASE u # t
      BY <3>2, <2>1, <2>3 DEF EventsInv, Answering
    <3> QED BY <3>1, <3>2
  <2> QED BY <2>4, <2>5 DEF EventsInv
<1>19. Released'
  BY <1>5 DEF Released, e, t
<1>20. Told' /\ HaltedStops' /\ EventRing' /\ QueueShape'
  BY <1>1, <1>5 DEF Told, HaltedStops, EventRing, QueueShape, Active
<1> QED BY ONLY <1>10, <1>14, <1>15, <1>16, <1>17, <1>18, <1>19, <1>20 DEF IInv, RingsInv

-----------------------------------------------------------------------------
(* The controller executes                                                  *)

(* The cycle bit tells a TRB that is handed over from one that is not.      *)
LEMMA HandedOver ==
  ASSUME IInv, NEW r \in Rings, deq[r] < Size[r], NextTrb(r).cyc = ccs[r]
  PROVE  deq[r] \in Entries(r) /\ Unread(r, deq[r])
<1>1. /\ Size[r] \in Nat \ {0} /\ deq[r] \in Nat /\ curPos[r] \in Nat
      /\ cycBit[r] \in {0, 1} /\ ccs[r] \in {0, 1}
  BY XHCIAssumption DEF IInv, Types, RingTypes
<1>2. deq[r] \in Entries(r)
  BY <1>1 DEF Entries
<1>3. ccs[r] = IF deq[r] < curPos[r] THEN cycBit[r] ELSE 1 - cycBit[r]
  BY <1>2 DEF IInv, RingsInv, CycleBits, NextTrb
<1> QED BY <1>1, <1>2, <1>3 DEF Unread

(* A TRB that is handed over belongs to a request that is waited for, and   *)
(* that has no event yet.                                                   *)
LEMMA HandedOverLives ==
  ASSUME IInv, NEW r \in Rings \ halted, NEW p \in Entries(r), Unread(r, p)
  PROVE  LET t == reqSrc[r][p]
         IN /\ t \in Users[r] /\ t \in Tasks /\ trb[r][p].cmd = t
            /\ Waiting(t) /\ at[t] = r /\ t # req
            /\ \A x \in Places : EveAt(x).cmd # t
<1> DEFINE t == reqSrc[r][p]
<1>1. t # None /\ trb[r][p].cmd = t
  BY DEF IInv, RingsInv, Owned
<1>2. t \in Users[r] /\ t \in Tasks
  BY <1>1, XHCIAssumption DEF IInv, Types, RingTypes
<1>3. Waiting(t) /\ at[t] = r /\ t # req
  BY <1>1 DEF IInv, RingsInv, Occupied
<1>4. \A x \in Places : EveAt(x).cmd # t
  <2> SUFFICES ASSUME NEW x \in Places, EveAt(x).cmd = t
               PROVE  FALSE
    OBVIOUS
  <2>1. EventLive(EveAt(x))
    BY DEF IInv, EventsInv, EventsLive
  <2> QED BY <2>1, <1>3 DEF EventLive
<1> QED BY <1>1, <1>2, <1>3, <1>4

(* On a ring that halts on an error all tasks are one.                      *)
LEMMA OneUser ==
  ASSUME IInv, NEW r \in Halting, NEW t \in Users[r], NEW u \in Tasks, Active(u), at[u] = r
  PROVE  u = t
BY XHCIAssumption DEF IInv, Types, TaskTypes

(* The event ring takes one more event at its end.                          *)
LEMMA PostMoves ==
  ASSUME IInv, NEW e \in Eves, Post(e), NEW i, i = enq,
         UNCHANGED <<evePos, eveCyc, deqPtr, hpc, ptr, que, hdr, len, epc, slot>>
  PROVE  /\ enq' \in 0..(EveSize - 1) /\ pcs' \in {0, 1}
         /\ eve' \in [0..(EveSize - 1) -> [cyc : {0, 1}, ev : Eves]]
         /\ EventRing'
         /\ <<1, i>> \notin Places /\ Places' = Places \cup {<<1, i>>}
         /\ EveAt(<<1, i>>)' = e /\ \A x \in Places : EveAt(x)' = EveAt(x)
<1>1. /\ EveSize \in Nat \ {0, 1} /\ enq \in 0..(EveSize - 1) /\ evePos \in 0..(EveSize - 1)
      /\ deqPtr \in 0..(EveSize - 1) /\ pcs \in {0, 1} /\ eveCyc \in {0, 1}
      /\ eve \in [0..(EveSize - 1) -> [cyc : {0, 1}, ev : Eves]]
      /\ ptr \in 0..(EveSize - 1) \cup {None}
  BY XHCIAssumption DEF IInv, Types, EventTypes
<1>2. (enq + 1) % EveSize = Wrap(EveSize, enq, 1)
  BY <1>1, WrapIs
<1>3. /\ Wrap(EveSize, enq, 1) # deqPtr /\ enq' = Wrap(EveSize, enq, 1)
      /\ eve' = [eve EXCEPT ![enq] = [cyc |-> pcs, ev |-> e]]
      /\ pcs' = IF enq' = 0 THEN 1 - pcs ELSE pcs
  BY <1>2 DEF Post, EveRoom
<1>4. enq' \in 0..(EveSize - 1) /\ pcs' \in {0, 1}
  BY <1>1, <1>3 DEF Wrap
<1>5. eve' \in [0..(EveSize - 1) -> [cyc : {0, 1}, ev : Eves]]
  BY <1>1, <1>3
<1>6. /\ \A k \in 0..(EveSize - 1) : eve[k].cyc = IF k < enq THEN pcs ELSE 1 - pcs
      /\ IF eveCyc = pcs THEN evePos <= enq ELSE enq < evePos
      /\ Dist(EveSize, deqPtr, evePos) <= Dist(EveSize, deqPtr, enq)
      /\ hpc = "write" /\ ptr # None =>
           Dist(EveSize, deqPtr, ptr) <= Dist(EveSize, deqPtr, evePos)
  BY DEF IInv, EventRing
<1>7. Dist(EveSize, deqPtr, evePos) <= Dist(EveSize, deqPtr, enq')
  BY <1>1, <1>3, <1>6 DEF Dist, Wrap
<1>8. Dist(EveSize, evePos, enq') = Dist(EveSize, evePos, enq) + 1
  BY <1>1, <1>3, <1>6 DEF Dist, Wrap
<1>9. EventRing'
  <2>1. \A k \in 0..(EveSize - 1) : eve'[k].cyc = IF k < enq' THEN pcs' ELSE 1 - pcs'
    BY <1>1, <1>3, <1>6 DEF Wrap
  <2>2. IF eveCyc = pcs' THEN evePos <= enq' ELSE enq' < evePos
    BY <1>1, <1>3, <1>6, <1>7 DEF Wrap, Dist
  <2> QED BY <2>1, <2>2, <1>6, <1>7 DEF EventRing
<1>10. OnRing' = OnRing \cup {i} /\ i \notin OnRing
  BY <1>1, <1>8 DEF OnRing, From, Dist
<1>11. <<1, i>> \notin Places /\ Places' = Places \cup {<<1, i>>}
  BY <1>10 DEF Places, InQue, InHand
<1>12. EveAt(<<1, i>>)' = e
  BY <1>1, <1>3 DEF EveAt
<1>13. ASSUME NEW x \in Places
       PROVE  EveAt(x)' = EveAt(x)
  <2>1. x[1] = 1 => x[2] \in 0..(EveSize - 1) /\ x[2] # i
    BY <1>10 DEF Places, OnRing, From
  <2> QED BY <2>1, <1>1, <1>3 DEF EveAt
<1> QED BY <1>4, <1>5, <1>9, <1>11, <1>12, <1>13

(* The TRB executed is its request's, whose only event is the one posted.   *)
LEMMA ExecuteStep ==
  ASSUME IInv, NEW r \in Rings, Execute(r)
  PROVE  IInv'
<1> USE DEF IInv, rings, handler, queue, evtsk, task
<1>1. PICK d, t : d = deq[r] /\ t = reqSrc[r][d]
  OBVIOUS
<1>2. /\ r \notin halted /\ deq[r] < Size[r] /\ NextTrb(r).cyc = ccs[r]
      /\ deq' = [deq EXCEPT ![r] = d + 1]
      /\ UNCHANGED <<trb, curPos, cycBit, reqSrc, ccs, rung, evePos, eveCyc, deqPtr, busy,
                     intr, hpc, ptr, que, hdr, til, len, epc, slot, req, pc, at, finished, res>>
  BY <1>1 DEF Execute, Running
<1>3. d \in Entries(r) /\ Unread(r, d)
  BY <1>1, <1>2, HandedOver
<1>4. /\ t \in Users[r] /\ t \in Tasks /\ trb[r][d].cmd = t /\ reqSrc[r][d] = t
      /\ Waiting(t) /\ at[t] = r /\ t # req
      /\ \A x \in Places : EveAt(x).cmd # t
  BY <1>1, <1>2, <1>3, HandedOverLives
<1>5. PICK ok \in BOOLEAN :
        /\ IF ok /\ ~trb[r][d].last THEN UNCHANGED <<eve, enq, pcs>>
           ELSE Post([ring |-> r, pos |-> d, cmd |-> t, ok |-> ok])
        /\ halted' = IF ok \/ r \notin Halting THEN halted ELSE halted \cup {r}
  <2>1. NextTrb(r) = trb[r][d] /\ NextTrb(r).cmd = t
    BY <1>1, <1>4 DEF NextTrb
  <2>2. PICK ok \in BOOLEAN :
          /\ IF ok /\ ~NextTrb(r).last THEN UNCHANGED <<eve, enq, pcs>>
             ELSE Post([ring |-> r, pos |-> deq[r], cmd |-> NextTrb(r).cmd, ok |-> ok])
          /\ halted' = IF ok \/ r \notin Halting THEN halted ELSE halted \cup {r}
    BY DEF Execute
  <2>3. IF ok /\ ~trb[r][d].last THEN UNCHANGED <<eve, enq, pcs>>
        ELSE Post([ring |-> r, pos |-> d, cmd |-> t, ok |-> ok])
    <3>1. CASE ok /\ ~NextTrb(r).last
      BY <2>1, <2>2, <3>1
    <3>2. CASE ~(ok /\ ~NextTrb(r).last)
      BY <2>1, <2>2, <3>2, <1>1 DEF Post
    <3> QED BY <3>1, <3>2
  <2> QED BY <2>2, <2>3
<1>6. /\ \A s \in Rings : Size[s] \in Nat \ {0}
      /\ curPos \in [Rings -> Nat] /\ \A s \in Rings : curPos[s] <= Size[s]
      /\ deq \in [Rings -> Nat] /\ \A s \in Rings : deq[s] <= Size[s]
      /\ cycBit \in [Rings -> {0, 1}] /\ ccs \in [Rings -> {0, 1}]
      /\ halted \subseteq Halting /\ Halting \subseteq Rings
  BY XHCIAssumption DEF Types, RingTypes
<1>7. \A s \in Rings : \A p \in Entries(s) :
        Unread(s, p)' <=> Unread(s, p) /\ ~(s = r /\ p = d)
  <2>1. IF ccs[r] = cycBit[r] THEN d <= curPos[r] ELSE curPos[r] <= d
    BY <1>1 DEF RingsInv, CycleBits
  <2>2. /\ d \in Nat /\ curPos[r] \in Nat /\ UNCHANGED <<ccs, cycBit, curPos>>
        /\ deq'[r] = d + 1 /\ \A s \in Rings \ {r} : deq'[s] = deq[s]
    BY <1>1, <1>2, <1>6
  <2>3. ASSUME NEW p \in Entries(r)
        PROVE  Unread(r, p)' <=> Unread(r, p) /\ p # d
    <3>1. p \in Nat /\ p < Size[r] /\ Size[r] \in Nat
      BY <1>6 DEF Entries
    <3> QED BY <2>1, <2>2, <3>1, <1>1 DEF Unread
  <2>4. \A s \in Rings \ {r} : \A p \in Entries(s) : Unread(s, p)' <=> Unread(s, p)
    BY <2>2 DEF Unread
  <2> QED BY <2>3, <2>4
<1>8. CycleBits'
  <2>1. \A s \in Rings : IF ccs[s] = cycBit[s] THEN deq'[s] <= curPos[s]
                                              ELSE curPos[s] <= deq'[s]
    BY <1>1, <1>2, <1>3, <1>6 DEF RingsInv, CycleBits, Unread
  <2> QED BY <2>1, <1>2 DEF RingsInv, CycleBits, Entries
<1>9. halted \subseteq halted' /\ halted' \subseteq halted \cup ({r} \cap Halting)
  BY <1>5
<1>10. Owned' /\ OneLast' /\ Occupied'
  <2>1. Owned'
    BY <1>2, <1>7, <1>9 DEF RingsInv, Owned, Entries
  <2>2. OneLast'
    BY <1>2, <1>6, <1>7, <1>9 DEF RingsInv, OneLast, Entries
  <2>3. Occupied'
    BY <1>2 DEF RingsInv, Occupied, Entries, Waiting, Active
  <2> QED BY <2>1, <2>2, <2>3
<1>11. \A u : /\ Waiting(u)' <=> Waiting(u)
              /\ Active(u)' <=> Active(u)
  BY <1>2 DEF Waiting, Active
<1>12. ASSUME NEW u \in Tasks, Active(u), u # t, at[u] \notin halted
       PROVE  at[u] \notin halted'
  BY <1>12, <1>4, <1>9, OneUser
<1>13. ASSUME NEW u \in Tasks, Waiting(u), u # t, LastAhead(u)
       PROVE  LastAhead(u)'
  <2>1. PICK p \in Entries(at[u]) : LastOf(u, at[u], p)
    BY <1>13 DEF LastAhead
  <2>2. at[u] \in Rings /\ at[u] \notin halted /\ at[u] \notin halted'
    BY <1>12, <1>13 DEF LastAhead, Waiting, Types, TaskTypes
  <2>3. LastOf(u, at[u], p)'
    BY <1>2, <1>4, <1>7, <1>13, <2>1, <2>2 DEF LastOf
  <2> QED BY <1>2, <2>2, <2>3 DEF LastAhead, Entries
<1>14. Released' /\ QueueShape'
  BY <1>2 DEF Released, QueueShape
<1>15. Told'
  <2> SUFFICES ASSUME NEW u \in finished
               PROVE  Active(u) /\ res[u].cmd = u /\ (at[u] \in halted' => ~res[u].ok)
    BY <1>2, <1>11 DEF Told
  <2>1. u \in Tasks /\ u # t /\ Active(u) /\ res[u].cmd = u
    BY <1>4 DEF Told, Waiting, Types, TaskTypes
  <2> QED BY <2>1, <1>12 DEF Told
<1>16. HaltedStops'
  <2> SUFFICES ASSUME NEW s \in halted', NEW u \in Users[s]
               PROVE  pc[u] = "stopped" \/ (Active(u) /\ at[u] = s)
    BY <1>2, <1>11 DEF HaltedStops
  <2>1. CASE s \in halted
    BY <2>1 DEF HaltedStops
  <2>2. CASE s = r /\ r \in Halting
    BY <2>2, <1>4, OneUser DEF Waiting
  <2> QED BY <2>1, <2>2, <1>9
<1>17. /\ enq' \in 0..(EveSize - 1) /\ pcs' \in {0, 1}
       /\ eve' \in [0..(EveSize - 1) -> [cyc : {0, 1}, ev : Eves]]
       /\ EventRing' /\ EventsInv'
  <2>1. CASE ok /\ ~trb[r][d].last
    <3>1. UNCHANGED <<eve, enq, pcs, halted>>
      BY <1>5, <2>1
    <3>2. EventRing'
      BY <1>2, <3>1 DEF EventRing
    <3>3. Places' = Places /\ \A x : EveAt(x)' = EveAt(x)
      BY <1>2, <3>1 DEF Places, OnRing, InQue, InHand, EveAt
    <3>4. \A e : EventLive(e) => EventLive(e)'
      BY <1>2, <1>7, <1>11, <3>1 DEF EventLive, Entries
    <3>5. LastAhead(t) => LastAhead(t)'
      <4> SUFFICES ASSUME r \notin halted, NEW p \in Entries(r), LastOf(t, r, p)
                   PROVE  LastAhead(t)'
        BY <1>4 DEF LastAhead
      <4>1. LastOf(t, r, p)'
        BY <1>2, <1>7, <2>1 DEF LastOf
      <4> QED BY <4>1, <1>2, <1>4, <3>1 DEF LastAhead, Entries
    <3>6. EventsInv'
      BY <3>3, <3>4, <3>5, <1>11, <1>13 DEF EventsInv, EventsLive, Apart, Answering
    <3> QED BY <3>1, <3>2, <3>6 DEF Types, EventTypes
  <2>2. CASE ~(ok /\ ~trb[r][d].last)
    <3>1. PICK e, i : e = [ring |-> r, pos |-> d, cmd |-> t, ok |-> ok] /\ i = enq
      OBVIOUS
    <3>2. e \in Eves /\ d \in Nat /\ Post(e)
      BY <1>3, <1>4, <1>5, <1>6, <2>2, <3>1 DEF Eves, Entries, Post
    <3>3. /\ enq' \in 0..(EveSize - 1) /\ pcs' \in {0, 1}
          /\ eve' \in [0..(EveSize - 1) -> [cyc : {0, 1}, ev : Eves]]
          /\ EventRing'
          /\ <<1, i>> \notin Places /\ Places' = Places \cup {<<1, i>>}
          /\ EveAt(<<1, i>>)' = e /\ \A x \in Places : EveAt(x)' = EveAt(x)
      BY <1>2, <3>1, <3>2, PostMoves
    <3>4. r \notin halted' =>
            \A p \in Entries(r) : Unread(r, p) /\ p # d => reqSrc[r][p] # t
      <4> SUFFICES ASSUME r \notin halted', NEW p \in Entries(r), Unread(r, p), p # d
                   PROVE  reqSrc[r][p] # t
        OBVIOUS
      <4>1. CASE r \in Halting
        <5>1. trb[r][d].last
          BY <4>1, <1>5, <2>2
        <5>2. d + 1 = curPos[r]
          BY <4>1, <5>1, <1>2, <1>3 DEF RingsInv, OneLast
        <5>3. ccs[r] = cycBit[r]
          BY <5>2, <1>1, <1>6 DEF RingsInv, CycleBits
        <5>4. p \in Nat /\ d \in Nat
          BY <1>1, <1>6 DEF Entries
        <5>5. ~Unread(r, p)
          BY <5>2, <5>3, <5>4, <1>1, <1>6 DEF Unread
        <5> QED BY <5>5
      <4>2. CASE r \notin Halting
        BY <4>2, <1>3, <1>4, XHCIAssumption DEF RingsInv, OneLast
      <4> QED BY <4>1, <4>2
    <3>5. EventLive(e)'
      BY <1>2, <1>3, <1>4, <1>5, <1>7, <1>11, <3>1, <3>2, <3>4 DEF EventLive, Entries
    <3>6. ASSUME NEW x \in Places
          PROVE  EventLive(EveAt(x))'
      <4>0. PICK f : f = EveAt(x)
        OBVIOUS
      <4>1. EventLive(f) /\ f.cmd # t
        BY <4>0, <1>4 DEF EventsInv, EventsLive
      <4>2. f.ring \in Rings /\ (f.ring \notin halted => f.ring \notin halted')
        BY <4>1, <1>12 DEF EventLive, Waiting
      <4>3. EventLive(f)'
        BY <4>1, <4>2, <1>2, <1>7, <1>9, <1>11 DEF EventLive, Entries
      <4> QED BY <4>0, <4>3, <3>3
    <3>7. EventsLive'
      BY <3>3, <3>5, <3>6 DEF EventsLive
    <3>8. Apart'
      BY <3>1, <3>3, <1>4 DEF EventsInv, Apart
    <3>9. Answering'
      BY <3>1, <3>3, <1>11, <1>13 DEF EventsInv, Answering
    <3> QED BY <3>3, <3>7, <3>8, <3>9 DEF EventsInv
  <2> QED BY <2>1, <2>2
<1>18. Types'
  <2>1. deq' \in [Rings -> Nat] /\ \A s \in Rings : deq'[s] <= Size[s]
    BY <1>1, <1>2, <1>6
  <2>2. halted' \subseteq Halting
    BY <1>6, <1>9
  <2>3. RingTypes'
    BY <2>1, <2>2, <1>2 DEF Types, RingTypes, Entries
  <2>4. EventTypes'
    BY <1>2, <1>17 DEF Types, EventTypes
  <2>5. TaskTypes'
    BY <1>2 DEF Types, TaskTypes, Active
  <2> QED BY <2>3, <2>4, <2>5 DEF Types
<1> QED BY <1>8, <1>10, <1>14, <1>15, <1>16, <1>17, <1>18 DEF RingsInv

-----------------------------------------------------------------------------
(* The handler moves events into the queue                                  *)

(* It stops where the controller goes on: the cycle bits say so.            *)
LEMMA AvailableIs ==
  ASSUME IInv
  PROVE  Available = Dist(EveSize, evePos, enq)
<1> DEFINE n == Dist(EveSize, evePos, enq)
<1>1. /\ EveSize \in Nat \ {0, 1} /\ enq \in 0..(EveSize - 1) /\ evePos \in 0..(EveSize - 1)
      /\ pcs \in {0, 1} /\ eveCyc \in {0, 1}
  BY XHCIAssumption DEF IInv, Types, EventTypes
<1>2. n \in 0..(EveSize - 1)
  BY <1>1, DistIs
<1>3. /\ \A k \in 0..(EveSize - 1) : eve[k].cyc = IF k < enq THEN pcs ELSE 1 - pcs
      /\ IF eveCyc = pcs THEN evePos <= enq ELSE enq < evePos
  BY DEF IInv, EventRing
<1>4. ASSUME NEW i \in 0..n
      PROVE  Ahead(i) = Wrap(EveSize, evePos, i) /\ Ahead(i) \in 0..(EveSize - 1)
  <2> HIDE DEF n
  <2>1. i \in 0..EveSize
    BY <1>1, <1>2
  <2> QED BY <1>1, <2>1, WrapIs DEF Ahead
<1>5. ASSUME NEW i \in 0..n
      PROVE  Posted(i) <=> i < n
  <2>1. eve[Wrap(EveSize, evePos, i)].cyc =
          IF Wrap(EveSize, evePos, i) < enq THEN pcs ELSE 1 - pcs
    BY <1>3, <1>4
  <2> QED BY <2>1, <1>1, <1>2, <1>3, <1>4 DEF Posted, CycAt, Wrap, Dist
<1> HIDE DEF n
<1>6. n \in 0..EveSize /\ (\A i \in 0..(n - 1) : Posted(i)) /\ ~Posted(n)
  BY <1>1, <1>2, <1>5
<1>7. ASSUME NEW m \in 0..EveSize, \A i \in 0..(m - 1) : Posted(i),
             m = EveSize \/ ~Posted(m)
      PROVE  m = n
  BY <1>1, <1>2, <1>5, <1>7
<1>8. Available = n
  BY <1>6, <1>7 DEF Available
<1> QED BY <1>8 DEF n

(* What it takes fits into the queue, and leaves the entry in hand alone:   *)
(* the events on their way are those of different tasks.                    *)
LEMMA TakenFits ==
  ASSUME IInv, QueueHolds
  PROVE  /\ Taken \in 0..Dist(EveSize, evePos, enq)
         /\ Taken = IF Available < Room THEN Available ELSE Room
         /\ Room = QueSize - len /\ len + Taken <= QueSize
         /\ epc # "get" => len + Taken < QueSize
<1>1. /\ EveSize \in Nat \ {0, 1} /\ enq \in 0..(EveSize - 1) /\ evePos \in 0..(EveSize - 1)
      /\ QueSize \in Nat \ {0} /\ hdr \in 0..(QueSize - 1) /\ len \in 0..QueSize
  BY XHCIAssumption DEF IInv, Types, EventTypes
<1>2. Available = Dist(EveSize, evePos, enq) /\ Available \in 0..(EveSize - 1)
  BY <1>1, AvailableIs, DistIs
<1>3. /\ Taken \in 0..Available /\ Room = QueSize - len /\ len + Taken <= QueSize
      /\ Taken \in Nat /\ Taken < EveSize
  BY <1>1, <1>2 DEF Taken, Room
<1>4. ASSUME epc # "get"
      PROVE  len + Taken < QueSize
  <2> DEFINE S == 0..(len + Taken)
             place(j) == IF j < len THEN <<2, Wrap(QueSize, hdr, j)>>
                         ELSE IF j < len + Taken THEN <<1, Wrap(EveSize, evePos, j - len)>>
                         ELSE <<3, slot>>
             f == [j \in S |-> EveAt(place(j)).cmd]
  <2>1. epc \in {"release", "finish"}
    BY <1>4 DEF IInv, Types, EventTypes
  <2>2. ASSUME NEW j \in S, j < len
        PROVE  /\ place(j) = <<2, Wrap(QueSize, hdr, j)>>
               /\ Wrap(QueSize, hdr, j) \in InQue /\ Dist(QueSize, hdr, Wrap(QueSize, hdr, j)) = j
    <3>1. j \in 0..QueSize /\ j < QueSize
      BY <1>1, <2>2
    <3>2. /\ Wrap(QueSize, hdr, j) \in 0..(QueSize - 1)
          /\ Dist(QueSize, hdr, Wrap(QueSize, hdr, j)) = j
      BY <1>1, <3>1, WrapIs
    <3> QED BY <2>2, <3>2 DEF InQue, From
  <2>3. ASSUME NEW j \in S, j >= len, j < len + Taken
        PROVE  /\ place(j) = <<1, Wrap(EveSize, evePos, j - len)>>
               /\ Wrap(EveSize, evePos, j - len) \in OnRing
               /\ Dist(EveSize, evePos, Wrap(EveSize, evePos, j - len)) = j - len
    <3>1. j - len \in 0..EveSize /\ j - len < EveSize /\ j - len < Available
      BY <1>1, <1>2, <1>3, <2>3
    <3>2. /\ Wrap(EveSize, evePos, j - len) \in 0..(EveSize - 1)
          /\ Dist(EveSize, evePos, Wrap(EveSize, evePos, j - len)) = j - len
      BY <1>1, <3>1, WrapIs
    <3>3. ~(j < len)
      BY <1>1, <2>3
    <3> QED BY <2>3, <3>1, <3>2, <3>3, <1>2 DEF OnRing, From
  <2>4. ASSUME NEW j \in S, j >= len + Taken
        PROVE  place(j) = <<3, slot>> /\ j = len + Taken
    BY <1>1, <1>3, <2>4
  <2> HIDE DEF place
  <2>5. \A j \in S : place(j) \in Places
    <3> SUFFICES ASSUME NEW j \in S PROVE place(j) \in Places
      OBVIOUS
    <3>1. CASE j < len
      BY <3>1, <2>2 DEF Places
    <3>2. CASE j >= len /\ j < len + Taken
      BY <3>2, <2>3 DEF Places
    <3>3. CASE j >= len + Taken
      BY <3>3, <2>1, <2>4 DEF Places, InHand
    <3> QED BY <1>1, <1>3, <3>1, <3>2, <3>3
  <2>6. \A j, k \in S : place(j) = place(k) => j = k
    <3> SUFFICES ASSUME NEW j \in S, NEW k \in S, place(j) = place(k) PROVE j = k
      OBVIOUS
    <3>1. CASE j < len
      BY <3>1, <2>2, <2>3, <2>4, <1>1, <1>3
    <3>2. CASE j >= len /\ j < len + Taken
      BY <3>2, <2>2, <2>3, <2>4, <1>1, <1>3
    <3>3. CASE j >= len + Taken
      BY <3>3, <2>2, <2>3, <2>4, <1>1, <1>3
    <3> QED BY <1>1, <1>3, <3>1, <3>2, <3>3
  <2>7. \A x \in Places : EveAt(x).cmd \in Tasks
    BY DEF IInv, EventsInv, EventsLive, EventLive
  <2>8. f \in [S -> Tasks]
    BY <2>5, <2>7
  <2>9. \A j, k \in S : f[j] = f[k] => j = k
    BY <2>5, <2>6 DEF IInv, EventsInv, Apart
  <2> HIDE DEF f
  <2>10. f \in Injection(S, Tasks)
    BY <2>8, <2>9 DEF Injection, IsInjective
  <2>11. Cardinality(S) <= Cardinality(Tasks)
    BY <2>10, FS_Injection DEF QueueHolds
  <2>12. Cardinality(S) = len + Taken + 1
    BY <1>1, <1>3, FS_Interval
  <2>13. Cardinality(Tasks) \in Nat
    BY FS_CardinalityType DEF QueueHolds
  <2> QED BY <1>1, <1>3, <2>11, <2>12, <2>13 DEF QueueHolds
<1> QED BY <1>2, <1>3, <1>4 DEF Taken

(* The events the handler takes keep their order and find room.             *)
LEMMA DrainStep ==
  ASSUME IInv, QueueHolds, Drain
  PROVE  IInv'
<1> USE DEF IInv, rings, ctrl, handler, evtsk, task
<1>1. PICK k, d, r : /\ k = Taken /\ d = Dist(EveSize, evePos, enq) /\ r = QueSize - len
  OBVIOUS
<1>2. /\ EveSize \in Nat \ {0, 1} /\ enq \in 0..(EveSize - 1) /\ evePos \in 0..(EveSize - 1)
      /\ deqPtr \in 0..(EveSize - 1) /\ pcs \in {0, 1} /\ eveCyc \in {0, 1}
      /\ eve \in [0..(EveSize - 1) -> [cyc : {0, 1}, ev : Eves]]
      /\ QueSize \in Nat \ {0} /\ hdr \in 0..(QueSize - 1) /\ len \in 0..QueSize
      /\ til \in 0..(QueSize - 1) /\ slot \in 0..(QueSize - 1)
      /\ que \in [0..(QueSize - 1) -> Eves] /\ epc \in {"get", "release", "finish"}
  BY XHCIAssumption DEF Types, EventTypes
<1>3. /\ d \in 0..(EveSize - 1) /\ Available = d /\ k \in 0..d
      /\ Room = r /\ k = IF d < r THEN d ELSE r
      /\ r \in Nat /\ len + k <= QueSize /\ k \in 0..QueSize
      /\ epc # "get" => len + k < QueSize
  <2>1. d \in 0..(EveSize - 1) /\ Available = d
    BY <1>1, <1>2, DistIs, AvailableIs
  <2> QED BY <1>1, <1>2, <2>1, TakenFits
<1>4. ASSUME NEW i \in 0..(EveSize - 1)
      PROVE  Ahead(i) = Wrap(EveSize, evePos, i) /\ Ahead(i) \in 0..(EveSize - 1)
  <2>1. i \in 0..EveSize /\ EveSize \in Nat \ {0} /\ evePos \in 0..(EveSize - 1)
    BY <1>2
  <2> QED BY <2>1, WrapIs DEF Ahead
<1>5. \A i \in 0..(QueSize - 1) : (i + QueSize - til) % QueSize = Dist(QueSize, til, i)
                                  /\ Dist(QueSize, til, i) \in 0..(QueSize - 1)
  BY <1>2, DistIs
<1>6. \A i \in 0..(EveSize - 1) : (i + EveSize - evePos) % EveSize = Dist(EveSize, evePos, i)
  BY <1>2, DistIs
<1>7. /\ hpc = "off" /\ hpc' = "write" /\ ptr' = TrbAfter
      /\ que' = [i \in 0..(QueSize - 1) |->
            IF Dist(QueSize, til, i) < k THEN eve[Ahead(Dist(QueSize, til, i))].ev ELSE que[i]]
      /\ eve' = [i \in 0..(EveSize - 1) |->
            IF Dist(EveSize, evePos, i) < k THEN [eve[i] EXCEPT !.ev = NoEve] ELSE eve[i]]
      /\ til' = Wrap(QueSize, til, k) /\ len' = len + k
      /\ evePos' = Wrap(EveSize, evePos, k) /\ eveCyc' = CycAt(k)
      /\ UNCHANGED <<trb, curPos, cycBit, reqSrc, deq, ccs, halted, enq, pcs, rung, deqPtr,
                     busy, hdr, epc, slot, req, pc, at, finished, res>>
  <2>1. (til + Taken) % QueSize = Wrap(QueSize, til, k)
    BY <1>1, <1>2, <1>3, WrapIs
  <2>2. Ahead(Taken) = Wrap(EveSize, evePos, k)
    BY <1>1, <1>2, <1>3, <1>4
  <2> QED BY <2>1, <2>2, <1>1, <1>5, <1>6 DEF Drain
<1>8. NoEve \in Eves
  BY DEF NoEve, Eves
<1>9. /\ que' \in [0..(QueSize - 1) -> Eves]
      /\ eve' \in [0..(EveSize - 1) -> [cyc : {0, 1}, ev : Eves]]
      /\ \A i \in 0..(EveSize - 1) : eve'[i].cyc = eve[i].cyc
  <2>1. ASSUME NEW i \in 0..(QueSize - 1), Dist(QueSize, til, i) < k
        PROVE  Ahead(Dist(QueSize, til, i)) \in 0..(EveSize - 1)
    <3>1. Dist(QueSize, til, i) \in 0..(EveSize - 1)
      <4>1. Dist(QueSize, til, i) \in 0..(QueSize - 1)
        BY <1>5
      <4>2. k \in Nat /\ k < EveSize
        BY <1>2, <1>3
      <4> QED BY <4>1, <4>2, <2>1, <1>2
    <3> QED BY <3>1, <1>4
  <2>2. que' \in [0..(QueSize - 1) -> Eves]
    BY <2>1, <1>2, <1>7
  <2>3. \A i \in 0..(EveSize - 1) :
          /\ [eve[i] EXCEPT !.ev = NoEve] \in [cyc : {0, 1}, ev : Eves]
          /\ [eve[i] EXCEPT !.ev = NoEve].cyc = eve[i].cyc
    BY <1>2, <1>8
  <2> QED BY <2>2, <2>3, <1>2, <1>7
<1>10. /\ evePos' \in 0..(EveSize - 1) /\ til' \in 0..(QueSize - 1) /\ eveCyc' \in {0, 1}
       /\ len' \in 0..QueSize /\ Dist(EveSize, evePos', enq) = d - k
  <2>1. evePos' \in 0..(EveSize - 1) /\ Dist(EveSize, evePos', enq) = d - k
    BY <1>1, <1>2, <1>3, <1>7, WrapShortens
  <2>2. til' \in 0..(QueSize - 1)
    BY <1>2, <1>3, <1>7, WrapIs
  <2>3. eveCyc' \in {0, 1}
    BY <1>2, <1>7 DEF CycAt
  <2>4. len' \in 0..QueSize
    <3>1. len' = len + k /\ k \in Nat /\ len + k <= QueSize
      BY <1>3, <1>7
    <3> QED BY <3>1, <1>2
  <2> QED BY <2>1, <2>2, <2>3, <2>4
<1>11. EventRing' /\ ptr' \in 0..(EveSize - 1) \cup {None}
  <2> DEFINE D == Dist(EveSize, deqPtr, evePos)
  <2>1. /\ IF eveCyc = pcs THEN evePos <= enq ELSE enq < evePos
        /\ D <= Dist(EveSize, deqPtr, enq) /\ D \in Nat
    BY <1>2, DistIs DEF EventRing
  <2>2. IF eveCyc' = pcs THEN evePos' <= enq ELSE enq < evePos'
    <3>1. /\ evePos' = IF evePos + k < EveSize THEN evePos + k ELSE evePos + k - EveSize
          /\ eveCyc' = IF evePos + k < EveSize THEN eveCyc ELSE 1 - eveCyc
      BY <1>7 DEF Wrap, CycAt
    <3>2. IF evePos <= enq THEN evePos + k <= enq ELSE evePos + k <= enq + EveSize
      BY <1>1, <1>2, <1>3 DEF Dist
    <3>3. k \in Nat /\ k < EveSize
      BY <1>2, <1>3
    <3> QED BY <3>1, <3>2, <3>3, <2>1, <1>2
  <2>3. \A i \in 0..k : Dist(EveSize, deqPtr, Wrap(EveSize, evePos, i)) = D + i
    <3> SUFFICES ASSUME NEW i \in 0..k
                 PROVE  Dist(EveSize, deqPtr, Wrap(EveSize, evePos, i)) = D + i
      OBVIOUS
    <3>1. i \in 0..Dist(EveSize, evePos, enq)
      BY <1>1, <1>3
    <3> QED BY <3>1, <2>1, <1>2, WrapLengthens
  <2>4. Dist(EveSize, deqPtr, enq) = D + d
    <3>1. 0 \in 0..Dist(EveSize, evePos, enq)
      BY <1>1, <1>3
    <3> QED BY <3>1, <2>1, <1>1, <1>2, WrapLengthens
  <2>5. Dist(EveSize, deqPtr, evePos') = D + k
    BY <2>3, <1>3, <1>7
  <2>6. /\ ptr' \in 0..(EveSize - 1) \cup {None}
        /\ ptr' # None => Dist(EveSize, deqPtr, ptr') <= Dist(EveSize, deqPtr, evePos')
    <3> HIDE DEF D
    <3>1. CASE r = 0
      BY <3>1, <1>3, <1>7 DEF TrbAfter
    <3>2. CASE r # 0 /\ d < r
      <4>1. ptr' = evePos' /\ k = d
        BY <3>2, <1>1, <1>3, <1>4, <1>7 DEF TrbAfter
      <4> QED BY <4>1, <2>1, <2>5, <1>3, <1>10
    <3>3. CASE r # 0 /\ ~(d < r)
      <4>1. k = r /\ k - 1 \in 0..(EveSize - 1) /\ k - 1 \in 0..k
        BY <3>3, <1>2, <1>3
      <4>2. ptr' = Ahead(k - 1)
        BY <3>3, <1>1, <1>3, <1>7 DEF TrbAfter
      <4>3. ptr' = Wrap(EveSize, evePos, k - 1) /\ ptr' \in 0..(EveSize - 1)
        BY <4>1, <4>2, <1>4
      <4>4. Dist(EveSize, deqPtr, ptr') = D + (k - 1)
        BY <4>1, <4>3, <2>3
      <4> QED BY <4>3, <4>4, <2>1, <2>5, <1>3
    <3> QED BY <3>1, <3>2, <3>3
  <2>7. Dist(EveSize, deqPtr, evePos') <= Dist(EveSize, deqPtr, enq)
    BY <2>1, <2>4, <2>5, <1>3
  <2>8. \A i \in 0..(EveSize - 1) : eve'[i].cyc = IF i < enq THEN pcs ELSE 1 - pcs
    BY <1>9 DEF EventRing
  <2> QED BY <2>2, <2>6, <2>7, <2>8, <1>7 DEF EventRing
<1>12. QueueShape'
  <2>1. til = Wrap(QueSize, hdr, len)
    BY DEF QueueShape
  <2>2. til' = Wrap(QueSize, hdr, len + k)
    <3>1. til' = IF til + k < QueSize THEN til + k ELSE til + k - QueSize
      BY <1>7 DEF Wrap
    <3>2. k \in Nat /\ len + k <= QueSize
      BY <1>3
    <3> QED BY <2>1, <3>1, <3>2, <1>2 DEF Wrap
  <2> QED BY <2>2, <1>3, <1>7 DEF QueueShape
<1>13. Types'
  BY <1>7, <1>9, <1>10, <1>11 DEF Types, RingTypes, EventTypes, TaskTypes, Active, Entries
<1>14. RingsInv'
  BY <1>7, RingsKept
<1>15. epc # "get" => Dist(QueSize, til, slot) >= k
  <2>1. til = Wrap(QueSize, hdr, len) /\ (epc # "get" => hdr = Wrap(QueSize, slot, 1))
    BY DEF QueueShape
  <2>2. k \in Nat /\ (epc # "get" => len + k < QueSize)
    BY <1>3
  <2> QED BY <2>1, <2>2, <1>2 DEF Wrap, Dist
<1>16. Released' /\ Told' /\ HaltedStops'
  <2>1. epc = "finish" => que'[slot] = que[slot]
    <3>1. slot \in 0..(QueSize - 1) /\ Dist(QueSize, til, slot) \in Int /\ k \in Int
      BY <1>2, <1>3, <1>5
    <3>2. epc = "finish" => ~(Dist(QueSize, til, slot) < k)
      BY <3>1, <1>15
    <3> QED BY <3>1, <3>2, <1>7
  <2>2. Released'
    BY <2>1, <1>7 DEF Released
  <2>3. Told' /\ HaltedStops'
    BY <1>7 DEF Told, HaltedStops, Active
  <2> QED BY <2>2, <2>3
<1>17. \A i \in OnRing' : i \in OnRing /\ ~(Dist(EveSize, evePos, i) < k)
  <2> SUFFICES ASSUME NEW i \in OnRing'
               PROVE  i \in OnRing /\ ~(Dist(EveSize, evePos, i) < k)
    OBVIOUS
  <2>1. i \in 0..(EveSize - 1) /\ Dist(EveSize, evePos', i) < d - k
    BY <1>7, <1>10 DEF OnRing, From
  <2>2. evePos' = IF evePos + k < EveSize THEN evePos + k ELSE evePos + k - EveSize
    BY <1>7 DEF Wrap
  <2>3. k \in Nat /\ d \in Nat /\ k <= d /\ d < EveSize
    BY <1>2, <1>3
  <2>4. Dist(EveSize, evePos, i) = Dist(EveSize, evePos', i) + k
    BY <2>1, <2>2, <2>3, <1>2 DEF Dist
  <2>5. Dist(EveSize, evePos', i) \in Nat
    BY <2>1, <1>2, <1>10, DistIs
  <2> QED BY <2>1, <2>3, <2>4, <2>5, <1>1 DEF OnRing, From
<1>18. \A i \in OnRing : Dist(EveSize, evePos, i) < k \/ i \in OnRing'
  <2> SUFFICES ASSUME NEW i \in OnRing, ~(Dist(EveSize, evePos, i) < k)
               PROVE  i \in OnRing'
    OBVIOUS
  <2>1. i \in 0..(EveSize - 1) /\ Dist(EveSize, evePos, i) < d
    BY <1>1 DEF OnRing, From
  <2>2. evePos' = IF evePos + k < EveSize THEN evePos + k ELSE evePos + k - EveSize
    BY <1>7 DEF Wrap
  <2>3. k \in Nat /\ d \in Nat /\ k <= d /\ d < EveSize
    BY <1>2, <1>3
  <2>4. Dist(EveSize, evePos', i) = Dist(EveSize, evePos, i) - k
    BY <2>1, <2>2, <2>3, <1>2 DEF Dist
  <2>5. Dist(EveSize, evePos, i) \in Nat
    BY <2>1, <1>2, DistIs
  <2>6. Dist(EveSize, evePos', i) < d - k
    BY <2>1, <2>3, <2>4, <2>5
  <2> QED BY <2>1, <2>6, <1>7, <1>10 DEF OnRing, From
<1>19. ASSUME NEW i \in 0..(QueSize - 1)
       PROVE  /\ i \in InQue' <=> i \in InQue \/ Dist(QueSize, til, i) < k
              /\ i \in InQue => ~(Dist(QueSize, til, i) < k)
  <2>1. til = IF hdr + len < QueSize THEN hdr + len ELSE hdr + len - QueSize
    BY DEF QueueShape, Wrap
  <2>2. k \in Nat /\ len + k <= QueSize /\ len' = len + k /\ hdr' = hdr
    BY <1>3, <1>7
  <2>3. /\ Dist(QueSize, hdr, i) < len => ~(Dist(QueSize, til, i) < k)
        /\ Dist(QueSize, hdr, i) < len + k <=>
             Dist(QueSize, hdr, i) < len \/ Dist(QueSize, til, i) < k
    BY <2>1, <2>2, <1>2 DEF Dist
  <2> QED BY <2>2, <2>3 DEF InQue, From
<1>20. ASSUME NEW j \in 0..(k - 1)
       PROVE  /\ Wrap(EveSize, evePos, j) \in OnRing
              /\ Dist(EveSize, evePos, Wrap(EveSize, evePos, j)) = j
              /\ Wrap(QueSize, til, j) \in InQue'
              /\ Dist(QueSize, til, Wrap(QueSize, til, j)) = j
  <2>1. j \in 0..EveSize /\ j < EveSize /\ j \in 0..QueSize /\ j < QueSize /\ j < d /\ j < k
    <3>1. k \in Nat /\ k <= d /\ d < EveSize /\ d \in Nat /\ k <= QueSize
      BY <1>2, <1>3
    <3> QED BY <3>1, <1>2
  <2>2. EveSize \in Nat \ {0} /\ evePos \in 0..(EveSize - 1)
    BY <1>2
  <2>3. /\ Wrap(EveSize, evePos, j) \in 0..(EveSize - 1)
        /\ Dist(EveSize, evePos, Wrap(EveSize, evePos, j)) = j
    BY <2>1, <2>2, WrapIs
  <2>4. QueSize \in Nat \ {0} /\ til \in 0..(QueSize - 1)
    BY <1>2
  <2>5. /\ Wrap(QueSize, til, j) \in 0..(QueSize - 1)
        /\ Dist(QueSize, til, Wrap(QueSize, til, j)) = j
    BY <2>1, <2>4, WrapIs
  <2>6. Wrap(EveSize, evePos, j) \in OnRing
    BY <2>1, <2>3, <1>1 DEF OnRing, From
  <2>7. Wrap(QueSize, til, j) \in InQue'
    BY <2>1, <2>5, <1>19
  <2> QED BY <2>3, <2>5, <2>6, <2>7
<1>21. EventsInv'
  <2> DEFINE moved(x) == x[1] = 2 /\ Dist(QueSize, til, x[2]) < k
             was(x) == IF moved(x) THEN <<1, Wrap(EveSize, evePos, Dist(QueSize, til, x[2]))>>
                       ELSE x
  <2>0. /\ \A i \in OnRing \cup OnRing' : i \in 0..(EveSize - 1)
        /\ \A i \in InQue \cup InQue' : i \in 0..(QueSize - 1)
        /\ InHand' = InHand /\ InHand \subseteq {slot}
        /\ \A i \in InHand : ~(Dist(QueSize, til, i) < k)
    <3>1. InHand' = InHand /\ InHand \subseteq {slot} /\ (epc = "get" => InHand = {})
      BY <1>7 DEF InHand
    <3>2. k \in Int
      BY <1>3
    <3>3. Dist(QueSize, til, slot) \in Int
      BY <1>2 DEF Dist
    <3> QED BY <3>1, <3>2, <3>3, <1>2, <1>15 DEF OnRing, InQue, From
  <2>1. ASSUME NEW x \in Places'
        PROVE  was(x) \in Places /\ EveAt(x)' = EveAt(was(x))
    <3>1. CASE moved(x)
      <4>1. PICK i, j : i = x[2] /\ j = Dist(QueSize, til, i)
        OBVIOUS
      <4>2. x[1] = 2 /\ i \in 0..(QueSize - 1) /\ j \in 0..(k - 1)
        BY <3>1, <4>1, <2>0, <1>3, <1>5 DEF Places
      <4>3. was(x) = <<1, Wrap(EveSize, evePos, j)>>
        BY <3>1, <4>1
      <4>4. was(x) \in Places
        BY <4>2, <4>3, <1>20 DEF Places
      <4>5. j \in 0..(EveSize - 1)
        BY <4>2, <1>2, <1>3
      <4>6. que'[i] = eve[Wrap(EveSize, evePos, j)].ev
        <5>1. Ahead(j) = Wrap(EveSize, evePos, j)
          BY <4>5, <1>4
        <5>2. que'[i] = eve[Ahead(j)].ev
          BY <3>1, <4>1, <4>2, <1>7
        <5> QED BY <5>1, <5>2
      <4>7. EveAt(x)' = que'[i] /\ EveAt(was(x)) = eve[Wrap(EveSize, evePos, j)].ev
        BY <4>1, <4>2, <4>3 DEF EveAt
      <4> QED BY <4>4, <4>6, <4>7
    <3>2. CASE ~moved(x)
      <4>1. PICK c, i : x = <<c, i>> /\ c \in {1, 2, 3}
        BY DEF Places
      <4>2. CASE c = 1
        <5>1. i \in OnRing /\ ~(Dist(EveSize, evePos, i) < k) /\ i \in 0..(EveSize - 1)
          BY <4>1, <4>2, <1>17, <2>0 DEF Places
        <5>2. eve'[i] = eve[i]
          BY <5>1, <1>7
        <5> QED BY <3>2, <4>1, <4>2, <5>1, <5>2 DEF Places, EveAt
      <4>3. CASE c = 2
        <5>1. i \in InQue /\ ~(Dist(QueSize, til, i) < k) /\ i \in 0..(QueSize - 1)
          BY <3>2, <4>1, <4>3, <1>19, <2>0 DEF Places
        <5>2. que'[i] = que[i]
          BY <5>1, <1>7
        <5> QED BY <3>2, <4>1, <4>3, <5>1, <5>2 DEF Places, EveAt
      <4>4. CASE c = 3
        <5>1. i \in InHand /\ ~(Dist(QueSize, til, i) < k) /\ i \in 0..(QueSize - 1)
          <6>1. i \in InHand'
            BY <4>1, <4>4 DEF Places
          <6> QED BY <6>1, <2>0, <1>2
        <5>2. que'[i] = que[i]
          BY <5>1, <1>7
        <5> QED BY <3>2, <4>1, <4>4, <5>1, <5>2 DEF Places, EveAt
      <4> QED BY <4>1, <4>2, <4>3, <4>4
    <3> QED BY <3>1, <3>2
  <2>2. ASSUME NEW y \in Places
        PROVE  \E x \in Places' : was(x) = y
    <3>1. PICK c, i : y = <<c, i>> /\ c \in {1, 2, 3}
      BY DEF Places
    <3>2. CASE c = 1 /\ Dist(EveSize, evePos, i) < k
      <4>1. PICK j, n : j = Dist(EveSize, evePos, i) /\ n = Wrap(QueSize, til, j)
        OBVIOUS
      <4>2. i \in 0..(EveSize - 1)
        BY <3>1, <3>2, <2>0 DEF Places
      <4>3. j \in 0..(EveSize - 1) /\ Wrap(EveSize, evePos, j) = i
        <5>1. EveSize \in Nat \ {0} /\ evePos \in 0..(EveSize - 1)
          BY <1>2
        <5> QED BY <5>1, <4>1, <4>2, DistIs
      <4>4. j \in 0..(k - 1)
        <5>1. k \in Int /\ j < k
          BY <3>2, <4>1, <1>3
        <5> QED BY <5>1, <4>3, <1>2
      <4>5. n \in InQue' /\ Dist(QueSize, til, n) = j
        BY <4>1, <4>4, <1>20
      <4>6. <<2, n>> \in Places'
        BY <4>5 DEF Places
      <4>7. was(<<2, n>>) = y
        BY <3>1, <3>2, <4>1, <4>3, <4>5
      <4> QED BY <4>6, <4>7
    <3>3. CASE c = 1 /\ ~(Dist(EveSize, evePos, i) < k)
      <4>1. i \in OnRing'
        BY <3>1, <3>3, <1>18 DEF Places
      <4>2. y \in Places' /\ was(y) = y
        BY <3>1, <3>3, <4>1 DEF Places
      <4> QED BY <4>2
    <3>4. CASE c = 2
      <4>1. i \in InQue /\ i \in 0..(QueSize - 1)
        BY <3>1, <3>4, <2>0 DEF Places
      <4>2. i \in InQue' /\ ~(Dist(QueSize, til, i) < k)
        BY <4>1, <1>19
      <4>3. y \in Places' /\ was(y) = y
        BY <3>1, <3>4, <4>2 DEF Places
      <4> QED BY <4>3
    <3>5. CASE c = 3
      <4>1. i \in InHand'
        BY <3>1, <3>5, <2>0 DEF Places
      <4>2. y \in Places' /\ was(y) = y
        BY <3>1, <3>5, <4>1 DEF Places
      <4> QED BY <4>2
    <3> QED BY <3>1, <3>2, <3>3, <3>4, <3>5
  <2>3. ASSUME NEW x \in Places', NEW y \in Places', was(x) = was(y)
        PROVE  x = y
    <3>1. ASSUME NEW z \in Places', moved(z)
          PROVE  \E j \in 0..(k - 1) : /\ j = Dist(QueSize, til, z[2])
                                       /\ was(z) = <<1, Wrap(EveSize, evePos, j)>>
                                       /\ z = <<2, Wrap(QueSize, til, j)>>
      <4>1. PICK c, i : z = <<c, i>>
        BY DEF Places
      <4>2. c = 2 /\ i \in 0..(QueSize - 1) /\ Dist(QueSize, til, i) < k
        BY <3>1, <4>1, <2>0 DEF Places
      <4>3. QueSize \in Nat \ {0} /\ til \in 0..(QueSize - 1) /\ k \in Int
        BY <1>2, <1>3
      <4>4. Dist(QueSize, til, i) \in 0..(k - 1)
        BY <4>2, <4>3, DistIs
      <4>5. Wrap(QueSize, til, Dist(QueSize, til, i)) = i
        BY <4>2, <4>3, DistIs
      <4> QED BY <3>1, <4>1, <4>2, <4>4, <4>5
    <3>2. ASSUME NEW z \in Places', ~moved(z), NEW w \in Places', moved(w)
          PROVE  was(z) # was(w)
      <4>1. PICK j \in 0..(k - 1) : was(w) = <<1, Wrap(EveSize, evePos, j)>>
        BY <3>1, <3>2
      <4>2. j < k /\ Dist(EveSize, evePos, Wrap(EveSize, evePos, j)) = j
        BY <1>3, <1>20
      <4>3. Wrap(EveSize, evePos, j) \notin OnRing'
        BY <4>2, <1>17
      <4> QED BY <3>2, <4>1, <4>3 DEF Places
    <3>3. CASE moved(x) /\ moved(y)
      <4>1. PICK i \in 0..(k - 1) : /\ was(x) = <<1, Wrap(EveSize, evePos, i)>>
                                   /\ x = <<2, Wrap(QueSize, til, i)>>
        BY <3>1, <3>3
      <4>2. PICK j \in 0..(k - 1) : /\ was(y) = <<1, Wrap(EveSize, evePos, j)>>
                                   /\ y = <<2, Wrap(QueSize, til, j)>>
        BY <3>1, <3>3
      <4>3. Wrap(EveSize, evePos, i) = Wrap(EveSize, evePos, j)
        BY <4>1, <4>2, <2>3
      <4>4. i = j
        BY <4>3, <1>20
      <4> QED BY <4>1, <4>2, <4>4
    <3>4. CASE ~moved(x) /\ ~moved(y)
      BY <3>4, <2>3
    <3> QED BY <3>2, <3>3, <3>4, <2>3
  <2> HIDE DEF was
  <2>4. Apart'
    BY <2>1, <2>3 DEF EventsInv, Apart
  <2>5. \A x \in Places' : \E y \in Places : EveAt(x)' = EveAt(y)
    BY <2>1
  <2>6. \A y \in Places : \E x \in Places' : EveAt(x)' = EveAt(y)
    BY <2>1, <2>2
  <2> QED BY <2>4, <2>5, <2>6, <1>7, EventsMoved
<1> QED BY <1>11, <1>12, <1>13, <1>14, <1>16, <1>21

-----------------------------------------------------------------------------
(* A task puts a request on a ring                                          *)

(* The entries of a request go round the ring at most once; its cycle bit   *)
(* changes where it does.                                                   *)
LEMMA PlaceIs ==
  ASSUME IInv, NEW r \in Rings, NEW i \in Entries(r)
  PROVE  /\ Place(r, i) = IF curPos[r] + i < Size[r] THEN curPos[r] + i
                          ELSE curPos[r] + i - Size[r]
         /\ Place(r, i) \in Entries(r)
         /\ CycOf(r, i) = IF curPos[r] + i < Size[r] THEN cycBit[r] ELSE 1 - cycBit[r]
         /\ Cross(r, i) = IF curPos[r] + i < Size[r] THEN 0 ELSE 1
<1> DEFINE a == curPos[r] + i
<1>1. /\ Size[r] \in Nat \ {0} /\ curPos[r] \in Nat /\ curPos[r] <= Size[r]
      /\ cycBit[r] \in {0, 1} /\ i \in Nat /\ i < Size[r]
  BY XHCIAssumption DEF IInv, Types, RingTypes, Entries
<1>2. a \in 0..(2 * Size[r] - 1)
  BY <1>1
<1>3. Place(r, i) = a % Size[r] /\ Cross(r, i) = a \div Size[r]
  BY DEF Place, Cross
<1> HIDE DEF a
<1>4. /\ a % Size[r] = IF a < Size[r] THEN a ELSE a - Size[r]
      /\ a \div Size[r] = IF a < Size[r] THEN 0 ELSE 1
  BY <1>1, <1>2, RingWrap
<1>5. Cross(r, i) = IF a < Size[r] THEN 0 ELSE 1
  BY <1>3, <1>4
<1>6. CycOf(r, i) = IF a < Size[r] THEN cycBit[r] ELSE 1 - cycBit[r]
  BY <1>1, <1>5 DEF CycOf
<1> QED BY <1>1, <1>3, <1>4, <1>5, <1>6 DEF a, Entries

(* A request occupies as many entries as it has TRBs, from curPos on.       *)
LEMMA MarkedIs ==
  ASSUME IInv, NEW r \in Rings, NEW n \in 1..Size[r]
  PROVE  /\ Marked(r, n) \subseteq Entries(r)
         /\ \A i, j \in 0..(n - 1) : Place(r, i) = Place(r, j) => i = j
         /\ \A p \in Entries(r) :
              p \in Marked(r, n) <=> (\/ curPos[r] <= p /\ p < curPos[r] + n
                                      \/ p < curPos[r] + n - Size[r])
<1>1. /\ Size[r] \in Nat \ {0} /\ curPos[r] \in Nat /\ curPos[r] <= Size[r]
      /\ n \in Nat /\ n >= 1 /\ n <= Size[r]
  BY XHCIAssumption DEF IInv, Types, RingTypes
<1>2. ASSUME NEW i \in 0..(n - 1)
      PROVE  /\ Place(r, i) = IF curPos[r] + i < Size[r] THEN curPos[r] + i
                              ELSE curPos[r] + i - Size[r]
             /\ Place(r, i) \in Entries(r)
  <2>1. i \in Entries(r)
    BY <1>1 DEF Entries
  <2> QED BY <2>1, PlaceIs
<1>3. Marked(r, n) \subseteq Entries(r)
  BY <1>2 DEF Marked
<1>4. \A i, j \in 0..(n - 1) : Place(r, i) = Place(r, j) => i = j
  BY <1>1, <1>2
<1>5. ASSUME NEW p \in Entries(r)
      PROVE  p \in Marked(r, n) <=> (\/ curPos[r] <= p /\ p < curPos[r] + n
                                     \/ p < curPos[r] + n - Size[r])
  <2>1. p \in Nat /\ p < Size[r]
    BY <1>1 DEF Entries
  <2>2. ASSUME p \in Marked(r, n)
        PROVE  (curPos[r] <= p /\ p < curPos[r] + n) \/ p < curPos[r] + n - Size[r]
    <3>1. PICK i \in 0..(n - 1) : p = Place(r, i)
      BY <2>2 DEF Marked
    <3> QED BY <3>1, <1>1, <1>2, <2>1
  <2>3. ASSUME curPos[r] <= p, p < curPos[r] + n
        PROVE  p \in Marked(r, n)
    <3>1. p - curPos[r] \in 0..(n - 1) /\ Place(r, p - curPos[r]) = p
      BY <2>1, <2>3, <1>1, <1>2
    <3> QED BY <3>1 DEF Marked
  <2>4. ASSUME p < curPos[r] + n - Size[r]
        PROVE  p \in Marked(r, n)
    <3>1. /\ p + Size[r] - curPos[r] \in 0..(n - 1)
          /\ Place(r, p + Size[r] - curPos[r]) = p
      BY <2>1, <2>4, <1>1, <1>2
    <3> QED BY <3>1 DEF Marked
  <2> QED BY <2>2, <2>3, <2>4
<1> QED BY <1>3, <1>4, <1>5

(* What the insertion of a request leaves on its ring.                      *)
LEMMA InsertIs ==
  ASSUME IInv, NEW t \in Tasks, NEW r \in Rings, NEW n \in Lens[r], t \in Users[r],
         ~Full(r, n), Insert(t, r, n)
  PROVE  /\ \A s \in Rings \ {r} : /\ trb'[s] = trb[s] /\ reqSrc'[s] = reqSrc[s]
                                   /\ curPos'[s] = curPos[s] /\ cycBit'[s] = cycBit[s]
         /\ DOMAIN trb' = Rings /\ DOMAIN reqSrc' = Rings
         /\ trb'[r] \in [0..Size[r] -> TRBs]
         /\ reqSrc'[r] \in [Entries(r) -> Users[r] \cup {None}]
         /\ curPos' \in [Rings -> Nat] /\ cycBit' \in [Rings -> {0, 1}]
         /\ curPos'[r] = IF curPos[r] + n <= Size[r] THEN curPos[r] + n
                         ELSE curPos[r] + n - Size[r]
         /\ cycBit'[r] = IF curPos[r] + n <= Size[r] THEN cycBit[r] ELSE 1 - cycBit[r]
         /\ trb'[r][Size[r]].cyc = 1 - cycBit'[r]
         /\ \A p \in Entries(r) :
              /\ trb'[r][p].cyc = IF p < curPos'[r] THEN cycBit'[r] ELSE 1 - cycBit'[r]
              /\ p \in Marked(r, n) =>
                   /\ reqSrc[r][p] = None /\ reqSrc'[r][p] = t /\ trb'[r][p].cmd = t
                   /\ trb'[r][p].last <=> p + 1 = curPos'[r]
              /\ p \notin Marked(r, n) =>
                   reqSrc'[r][p] = reqSrc[r][p] /\ trb'[r][p] = trb[r][p]
<1> DEFINE mine == {Place(r, i) : i \in 0..(n - 1)}
           ith(p) == CHOOSE i \in 0..(n - 1) : Place(r, i) = p
<1>1. /\ Size[r] \in Nat \ {0} /\ curPos[r] \in Nat /\ curPos[r] <= Size[r]
      /\ cycBit[r] \in {0, 1} /\ n \in Nat /\ n >= 1 /\ n <= Size[r] /\ n \in 1..Size[r]
      /\ DOMAIN trb = Rings /\ DOMAIN reqSrc = Rings
      /\ trb[r] \in [0..Size[r] -> TRBs] /\ reqSrc[r] \in [Entries(r) -> Users[r] \cup {None}]
      /\ curPos \in [Rings -> Nat] /\ cycBit \in [Rings -> {0, 1}]
  BY XHCIAssumption DEF IInv, Types, RingTypes
<1>2. ASSUME NEW i \in 0..(n - 1)
      PROVE  /\ Place(r, i) = IF curPos[r] + i < Size[r] THEN curPos[r] + i
                              ELSE curPos[r] + i - Size[r]
             /\ Place(r, i) \in Entries(r)
             /\ CycOf(r, i) = IF curPos[r] + i < Size[r] THEN cycBit[r] ELSE 1 - cycBit[r]
             /\ Cross(r, i) = IF curPos[r] + i < Size[r] THEN 0 ELSE 1
             /\ CycOf(r, i) \in {0, 1}
  <2>1. i \in Entries(r)
    BY <1>1 DEF Entries
  <2> QED BY <2>1, <1>1, PlaceIs
<1>3. mine = Marked(r, n) /\ mine \subseteq Entries(r)
  BY <1>1, MarkedIs DEF Marked
<1>4. ASSUME NEW i \in 0..(n - 1)
      PROVE  ith(Place(r, i)) = i
  <2>1. \A j \in 0..(n - 1) : Place(r, j) = Place(r, i) => j = i
    BY <1>1, MarkedIs
  <2> QED BY <2>1
<1>5. ASSUME NEW p \in mine
      PROVE  ith(p) \in 0..(n - 1) /\ Place(r, ith(p)) = p
  BY <1>4
<1>6. /\ trb' = [trb EXCEPT ![r] =
            [p \in 0..Size[r] |->
               IF p = Size[r] THEN [@[p] EXCEPT !.cyc = LinkCyc(r, n)]
               ELSE IF p \in mine
                    THEN [cyc |-> CycOf(r, ith(p)), cmd |-> t, last |-> ith(p) = n - 1]
                    ELSE @[p]]]
      /\ reqSrc' = [reqSrc EXCEPT ![r] =
            [p \in 0..(Size[r] - 1) |-> IF p \in Marked(r, n) THEN t ELSE @[p]]]
      /\ curPos' = [curPos EXCEPT ![r] = Place(r, n - 1) + 1]
      /\ cycBit' = [cycBit EXCEPT ![r] = CycOf(r, n - 1)]
  BY DEF Insert
<1> HIDE DEF mine, ith
<1>7. n - 1 \in 0..(n - 1)
  BY <1>1
<1>8. /\ curPos'[r] = IF curPos[r] + n <= Size[r] THEN curPos[r] + n
                      ELSE curPos[r] + n - Size[r]
      /\ curPos' \in [Rings -> Nat]
  <2>1. Place(r, n - 1) + 1 = IF curPos[r] + n <= Size[r] THEN curPos[r] + n
                              ELSE curPos[r] + n - Size[r]
    BY <1>1, <1>2, <1>7
  <2> QED BY <2>1, <1>1, <1>6
<1>9. /\ cycBit'[r] = IF curPos[r] + n <= Size[r] THEN cycBit[r] ELSE 1 - cycBit[r]
      /\ cycBit' \in [Rings -> {0, 1}]
  <2>1. CycOf(r, n - 1) = IF curPos[r] + n <= Size[r] THEN cycBit[r] ELSE 1 - cycBit[r]
    BY <1>1, <1>2, <1>7
  <2> QED BY <2>1, <1>1, <1>6
<1>10. LinkCyc(r, n) = 1 - cycBit'[r] /\ LinkCyc(r, n) \in {0, 1}
  <2>1. trb[r][Size[r]].cyc = 1 - cycBit[r]
    BY DEF IInv, RingsInv, CycleBits
  <2>2. Cross(r, n - 1) = IF curPos[r] + n <= Size[r] THEN 0 ELSE 1
    BY <1>1, <1>2, <1>7
  <2> QED BY <2>1, <2>2, <1>1, <1>9 DEF LinkCyc
<1>11. /\ DOMAIN trb' = Rings /\ \A s \in Rings \ {r} : trb'[s] = trb[s]
       /\ trb'[r] = [p \in 0..Size[r] |->
               IF p = Size[r] THEN [trb[r][p] EXCEPT !.cyc = LinkCyc(r, n)]
               ELSE IF p \in mine
                    THEN [cyc |-> CycOf(r, ith(p)), cmd |-> t, last |-> ith(p) = n - 1]
                    ELSE trb[r][p]]
  BY <1>1, <1>6
<1>12. /\ DOMAIN reqSrc' = Rings /\ \A s \in Rings \ {r} : reqSrc'[s] = reqSrc[s]
       /\ reqSrc'[r] = [p \in Entries(r) |-> IF p \in Marked(r, n) THEN t ELSE reqSrc[r][p]]
  BY <1>1, <1>6 DEF Entries
<1>13. reqSrc'[r] \in [Entries(r) -> Users[r] \cup {None}]
  BY <1>1, <1>12
<1>14. [trb[r][Size[r]] EXCEPT !.cyc = LinkCyc(r, n)] \in TRBs
       /\ [trb[r][Size[r]] EXCEPT !.cyc = LinkCyc(r, n)].cyc = LinkCyc(r, n)
  <2>1. trb[r][Size[r]] \in TRBs
    BY <1>1
  <2> QED BY <2>1, <1>10 DEF TRBs
<1>15. Size[r] \in 0..Size[r] /\ Size[r] \notin Entries(r) /\ Entries(r) \subseteq 0..Size[r]
       /\ \A p \in 0..Size[r] : p # Size[r] => p \in Entries(r)
  BY <1>1 DEF Entries
<1>16. trb'[r] \in [0..Size[r] -> TRBs]
  <2>1. ASSUME NEW p \in mine
        PROVE  [cyc |-> CycOf(r, ith(p)), cmd |-> t, last |-> ith(p) = n - 1] \in TRBs
    BY <1>2, <1>5 DEF TRBs
  <2>2. ASSUME NEW p \in 0..Size[r]
        PROVE  trb'[r][p] \in TRBs
    <3>1. CASE p = Size[r]
      BY <3>1, <1>11, <1>14
    <3>2. CASE p # Size[r] /\ p \in mine
      BY <3>2, <2>1, <1>11
    <3>3. CASE p # Size[r] /\ p \notin mine
      BY <3>3, <1>1, <1>11
    <3> QED BY <3>1, <3>2, <3>3
  <2> QED BY <2>2, <1>11
<1>17. trb'[r][Size[r]].cyc = 1 - cycBit'[r]
  BY <1>10, <1>11, <1>14, <1>15
<1>18. ASSUME NEW p \in Entries(r), p \in Marked(r, n)
       PROVE  /\ reqSrc[r][p] = None /\ reqSrc'[r][p] = t /\ trb'[r][p].cmd = t
              /\ trb'[r][p].last <=> p + 1 = curPos'[r]
              /\ trb'[r][p].cyc = IF p < curPos'[r] THEN cycBit'[r] ELSE 1 - cycBit'[r]
  <2>1. PICK i : i = ith(p)
    OBVIOUS
  <2>2. i \in 0..(n - 1) /\ Place(r, i) = p
    BY <2>1, <1>3, <1>5, <1>18
  <2>3. trb'[r][p] = [cyc |-> CycOf(r, i), cmd |-> t, last |-> i = n - 1]
    BY <2>1, <1>3, <1>11, <1>15, <1>18
  <2>4. reqSrc'[r][p] = t
    BY <1>12, <1>18
  <2>5. reqSrc[r][p] = None
    BY <2>2 DEF Full
  <2>6. i = n - 1 <=> p + 1 = curPos'[r]
    <3>1. /\ i \in Nat /\ i < n
          /\ p = IF curPos[r] + i < Size[r] THEN curPos[r] + i ELSE curPos[r] + i - Size[r]
      <4>1. i \in Nat /\ i < n
        BY <2>2, <1>1
      <4>2. Place(r, i) = IF curPos[r] + i < Size[r] THEN curPos[r] + i
                          ELSE curPos[r] + i - Size[r]
        BY <2>2, <1>2
      <4> QED BY <4>1, <4>2, <2>2
    <3>2. CASE curPos[r] + n <= Size[r]
      BY <3>1, <3>2, <1>1, <1>8
    <3>3. CASE ~(curPos[r] + n <= Size[r])
      <4>1. /\ curPos'[r] = curPos[r] + n - Size[r]
            /\ n \in Nat /\ n <= Size[r] /\ Size[r] \in Nat /\ curPos[r] \in Nat
        BY <3>3, <1>1, <1>8
      <4>2. CASE curPos[r] + i < Size[r]
        <5>1. p = curPos[r] + i
          BY <4>2, <3>1
        <5> QED BY <5>1, <4>1, <4>2, <3>1, <3>3
      <4>3. CASE ~(curPos[r] + i < Size[r])
        <5>1. p = curPos[r] + i - Size[r]
          BY <4>3, <3>1
        <5> QED BY <5>1, <4>1, <3>1
      <4> QED BY <4>2, <4>3
    <3> QED BY <3>2, <3>3
  <2>7. CycOf(r, i) = IF p < curPos'[r] THEN cycBit'[r] ELSE 1 - cycBit'[r]
    BY <2>2, <1>1, <1>2, <1>8, <1>9
  <2>8. trb'[r][p].cmd = t /\ trb'[r][p].cyc = CycOf(r, i)
    BY <2>3
  <2>9. trb'[r][p].last = (i = n - 1)
    BY <2>3
  <2>10. trb'[r][p].last <=> p + 1 = curPos'[r]
    BY <2>6, <2>9, Zenon
  <2>11. trb'[r][p].cyc = IF p < curPos'[r] THEN cycBit'[r] ELSE 1 - cycBit'[r]
    BY <2>7, <2>8
  <2> QED BY <2>4, <2>5, <2>8, <2>10, <2>11
<1>19. ASSUME NEW p \in Entries(r), p \notin Marked(r, n)
       PROVE  /\ reqSrc'[r][p] = reqSrc[r][p] /\ trb'[r][p] = trb[r][p]
              /\ trb'[r][p].cyc = IF p < curPos'[r] THEN cycBit'[r] ELSE 1 - cycBit'[r]
  <2>1. reqSrc'[r][p] = reqSrc[r][p] /\ trb'[r][p] = trb[r][p]
    BY <1>3, <1>11, <1>12, <1>15, <1>19
  <2>2. ~(curPos[r] <= p /\ p < curPos[r] + n) /\ ~(p < curPos[r] + n - Size[r])
    BY <1>1, <1>19, MarkedIs
  <2>3. trb[r][p].cyc = IF p < curPos[r] THEN cycBit[r] ELSE 1 - cycBit[r]
    BY DEF IInv, RingsInv, CycleBits
  <2>4. p \in Nat /\ p < Size[r]
    BY <1>1 DEF Entries
  <2> QED BY <2>1, <2>2, <2>3, <2>4, <1>1, <1>8, <1>9
<1>20. \A s \in Rings \ {r} : curPos'[s] = curPos[s] /\ cycBit'[s] = cycBit[s]
  BY <1>1, <1>6
<1> QED BY <1>8, <1>9, <1>11, <1>12, <1>13, <1>16, <1>17, <1>18, <1>19, <1>20


(* A request that does not fit leaves the ring as it was.                   *)
LEMMA FullStep ==
  ASSUME IInv, NEW t \in Tasks, NEW r \in Rings, NEW n \in Lens[r], TryInsReq(t, r, n),
         Full(r, n)
  PROVE  IInv'
<1>1. t \notin finished
  BY DEF IInv, TryInsReq, Told, Active
<1>2. curPos' = curPos /\ cycBit' = cycBit /\ UNCHANGED <<trb, reqSrc, pc, at>>
  BY DEF TryInsReq, Restore, IInv, Types, RingTypes
<1>3. /\ finished' = finished
      /\ UNCHANGED <<ctrl, rung, eve, evePos, eveCyc, deqPtr, busy, intr, handler, queue,
                     evtsk, res>>
  BY <1>1 DEF TryInsReq
<1> USE <1>2, <1>3 DEF IInv, ctrl, handler, queue, evtsk
<1>4. Types'
  BY DEF Types, RingTypes, EventTypes, TaskTypes, Active, Entries
<1>5. RingsInv' /\ EventsInv'
  BY RingsKept, EventsKept
<1>6. Released' /\ Told' /\ HaltedStops'
  BY DEF Released, Told, HaltedStops, Active
<1>7. EventRing' /\ QueueShape'
  BY DEF EventRing, QueueShape
<1> QED BY <1>4, <1>5, <1>6, <1>7

(* The request is added to what the controller has yet to execute, none of  *)
(* which it overwrites.                                                     *)
LEMMA UnreadGrows ==
  ASSUME IInv, NEW t \in Tasks, NEW r \in Rings \ halted, NEW n \in Lens[r], t \in Users[r],
         ~Full(r, n), Insert(t, r, n), ccs' = ccs, deq' = deq
  PROVE  /\ IF ccs[r] = cycBit'[r] THEN deq[r] <= curPos'[r] ELSE curPos'[r] <= deq[r]
         /\ \A p \in Entries(r) : /\ p \in Marked(r, n) => ~Unread(r, p)
                                  /\ Unread(r, p)' <=> (Unread(r, p) \/ p \in Marked(r, n))
<1>1. /\ Size[r] \in Nat \ {0} /\ curPos[r] \in Nat /\ curPos[r] <= Size[r]
      /\ cycBit[r] \in {0, 1} /\ n \in Nat /\ n >= 1 /\ n <= Size[r] /\ n \in 1..Size[r]
      /\ deq[r] \in Nat /\ deq[r] <= Size[r] /\ ccs[r] \in {0, 1}
      /\ IF ccs[r] = cycBit[r] THEN deq[r] <= curPos[r] ELSE curPos[r] <= deq[r]
  BY XHCIAssumption DEF IInv, Types, RingTypes, RingsInv, CycleBits
<1>2. /\ curPos'[r] = IF curPos[r] + n <= Size[r] THEN curPos[r] + n
                      ELSE curPos[r] + n - Size[r]
      /\ cycBit'[r] = IF curPos[r] + n <= Size[r] THEN cycBit[r] ELSE 1 - cycBit[r]
      /\ \A p \in Entries(r) : p \in Marked(r, n) => reqSrc[r][p] = None
  BY InsertIs
<1>3. \A p \in Entries(r) : p \in Marked(r, n) <=>
         (curPos[r] <= p /\ p < curPos[r] + n) \/ p < curPos[r] + n - Size[r]
  BY <1>1, MarkedIs
<1>4. \A p \in Entries(r) : p \in Marked(r, n) => ~Unread(r, p)
  BY <1>2 DEF IInv, RingsInv, Owned
<1>5. \A p \in Entries(r) : p \in Nat /\ p < Size[r]
  BY <1>1 DEF Entries
<1>6. deq[r] < Size[r] => deq[r] \in Entries(r)
  BY <1>1 DEF Entries
<1>7. 0 \in Entries(r)
  BY <1>1 DEF Entries
<1>8. \A p \in Entries(r) : Unread(r, p) <=> IF ccs[r] = cycBit[r] THEN deq[r] <= p /\ p < curPos[r]
                                             ELSE deq[r] <= p \/ p < curPos[r]
  BY DEF Unread
<1>9. IF ccs[r] = cycBit'[r] THEN deq[r] <= curPos'[r] ELSE curPos'[r] <= deq[r]
  BY <1>1, <1>2, <1>3, <1>4, <1>6, <1>7, <1>8
<1>10. ASSUME NEW p \in Entries(r)
       PROVE  Unread(r, p)' <=> (Unread(r, p) \/ p \in Marked(r, n))
  <2>1. Unread(r, p)' <=> IF ccs[r] = cycBit'[r] THEN deq[r] <= p /\ p < curPos'[r]
                          ELSE deq[r] <= p \/ p < curPos'[r]
    BY DEF Unread
  <2> QED BY <2>1, <1>1, <1>2, <1>3, <1>4, <1>5, <1>7, <1>8, <1>9
<1> QED BY <1>4, <1>9, <1>10

(* A task that is idle has a new request, and no event or entry of an old   *)
(* one.                                                                     *)
LEMMA IdleIs ==
  ASSUME IInv, NEW t \in Tasks, pc[t] = "idle"
  PROVE  /\ t \notin finished /\ ~Waiting(t) /\ t # req
         /\ \A x \in Places : EveAt(x).cmd # t
         /\ \A r \in Rings : \A p \in Entries(r) : reqSrc[r][p] # t
         /\ \A r \in Rings : t \in Users[r] => r \notin halted
<1>1. t \notin finished /\ ~Waiting(t)
  BY DEF IInv, Told, Active, Waiting
<1>2. \A x \in Places : EveAt(x).cmd # t
  BY <1>1 DEF IInv, EventsInv, EventsLive, EventLive
<1>3. t # req
  <2>1. CASE epc = "finish"
    <3>1. <<3, slot>> \in Places /\ EveAt(<<3, slot>>) = que[slot]
      BY <2>1 DEF Places, InHand, EveAt
    <3> QED BY <3>1, <2>1, <1>2 DEF IInv, Released
  <2>2. CASE epc # "finish"
    BY <2>2, XHCIAssumption DEF IInv, Released
  <2> QED BY <2>1, <2>2
<1>4. \A r \in Rings : \A p \in Entries(r) : reqSrc[r][p] # t
  BY <1>1, XHCIAssumption DEF IInv, RingsInv, Occupied
<1>5. \A r \in Rings : t \in Users[r] => r \notin halted
  BY DEF IInv, HaltedStops, Active
<1> QED BY <1>1, <1>2, <1>3, <1>4, <1>5

(* It goes to entries that no other request occupies, and its last TRB is   *)
(* ahead of the controller.                                                 *)
LEMMA InsertStep ==
  ASSUME IInv, NEW t \in Tasks, NEW r \in Rings, NEW n \in Lens[r], TryInsReq(t, r, n),
         ~Full(r, n)
  PROVE  IInv'
<1>1. /\ pc[t] = "idle" /\ t \in Users[r] /\ Insert(t, r, n)
      /\ pc' = [pc EXCEPT ![t] = "ring"] /\ at' = [at EXCEPT ![t] = r]
      /\ finished' = finished \ {t}
      /\ UNCHANGED <<ctrl, rung, eve, evePos, eveCyc, deqPtr, busy, intr, handler, queue,
                     evtsk, res>>
  BY DEF TryInsReq
<1>2. /\ t \notin finished /\ ~Waiting(t) /\ t # req
      /\ \A x \in Places : EveAt(x).cmd # t
      /\ \A s \in Rings : \A p \in Entries(s) : reqSrc[s][p] # t
      /\ r \notin halted
  BY <1>1, IdleIs
<1>3. finished' = finished
  BY <1>1, <1>2
<1>4. /\ UNCHANGED <<deq, ccs, halted, enq, pcs, rung, eve, evePos, eveCyc, deqPtr, busy>>
      /\ UNCHANGED <<intr, hpc, ptr, que, hdr, til, len, epc, slot, req, res>>
  BY <1>1 DEF ctrl, handler, queue, evtsk
<1>5. /\ \A s \in Rings \ {r} : /\ trb'[s] = trb[s] /\ reqSrc'[s] = reqSrc[s]
                                /\ curPos'[s] = curPos[s] /\ cycBit'[s] = cycBit[s]
      /\ DOMAIN trb' = Rings /\ DOMAIN reqSrc' = Rings
      /\ trb'[r] \in [0..Size[r] -> TRBs]
      /\ reqSrc'[r] \in [Entries(r) -> Users[r] \cup {None}]
      /\ curPos' \in [Rings -> Nat] /\ cycBit' \in [Rings -> {0, 1}]
      /\ curPos'[r] = IF curPos[r] + n <= Size[r] THEN curPos[r] + n
                      ELSE curPos[r] + n - Size[r]
      /\ trb'[r][Size[r]].cyc = 1 - cycBit'[r]
      /\ \A p \in Entries(r) :
           trb'[r][p].cyc = IF p < curPos'[r] THEN cycBit'[r] ELSE 1 - cycBit'[r]
  BY <1>1, InsertIs
<1>6. ASSUME NEW p \in Entries(r), p \in Marked(r, n)
      PROVE  /\ reqSrc[r][p] = None /\ reqSrc'[r][p] = t /\ trb'[r][p].cmd = t
             /\ trb'[r][p].last <=> p + 1 = curPos'[r]
  BY <1>1, <1>6, InsertIs
<1>7. ASSUME NEW p \in Entries(r), p \notin Marked(r, n)
      PROVE  reqSrc'[r][p] = reqSrc[r][p] /\ trb'[r][p] = trb[r][p]
  BY <1>1, <1>7, InsertIs
<1>8. /\ IF ccs[r] = cycBit'[r] THEN deq[r] <= curPos'[r] ELSE curPos'[r] <= deq[r]
      /\ \A p \in Entries(r) : /\ p \in Marked(r, n) => ~Unread(r, p)
                               /\ Unread(r, p)' <=> (Unread(r, p) \/ p \in Marked(r, n))
  BY <1>1, <1>2, <1>4, UnreadGrows
<1>9. \A s \in Rings \ {r} : \A p : Unread(s, p)' <=> Unread(s, p)
  BY <1>4, <1>5 DEF Unread
<1>10. /\ Size[r] \in Nat \ {0} /\ curPos[r] \in Nat /\ curPos[r] <= Size[r]
       /\ n \in Nat /\ n >= 1 /\ n <= Size[r] /\ n \in 1..Size[r]
       /\ r \notin Halting => n = 1
  BY XHCIAssumption DEF IInv, Types, RingTypes
<1>11. \A p \in Entries(r) : /\ p \in Nat /\ p < Size[r]
                             /\ p \in Marked(r, n) <=>
                                  (\/ curPos[r] <= p /\ p < curPos[r] + n
                                   \/ p < curPos[r] + n - Size[r])
  BY <1>10, MarkedIs DEF Entries
<1>12. /\ pc' \in [Tasks -> {"idle", "ring", "wait", "stopped"}]
       /\ at' \in [Tasks -> Rings \cup {None}]
       /\ pc'[t] = "ring" /\ at'[t] = r /\ Waiting(t)' /\ Active(t)'
       /\ \A u \in Tasks \ {t} : /\ pc'[u] = pc[u] /\ at'[u] = at[u]
                                 /\ Active(u)' <=> Active(u)
                                 /\ Waiting(u)' <=> Waiting(u)
  BY <1>1, <1>2, <1>3 DEF IInv, Types, TaskTypes, Active, Waiting
<1>13. Types'
  <2>1. RingTypes'
    <3>1. \A s \in Rings : trb'[s] \in [0..Size[s] -> TRBs]
      BY <1>5 DEF IInv, Types, RingTypes
    <3>2. \A s \in Rings : reqSrc'[s] \in [Entries(s) -> Users[s] \cup {None}]
      BY <1>5 DEF IInv, Types, RingTypes
    <3>3. \A s \in Rings : curPos'[s] <= Size[s]
      <4>1. curPos'[r] <= Size[r]
        BY <1>5, <1>10
      <4> QED BY <4>1, <1>5 DEF IInv, Types, RingTypes
    <3> QED BY <3>1, <3>2, <3>3, <1>4, <1>5 DEF IInv, Types, RingTypes, Entries
  <2>2. EventTypes'
    BY <1>4 DEF IInv, Types, EventTypes
  <2>3. TaskTypes'
    <3>1. \A u \in Tasks : Active(u)' => at'[u] \in Rings /\ u \in Users[at'[u]]
      BY <1>1, <1>12 DEF IInv, Types, TaskTypes
    <3> QED BY <3>1, <1>3, <1>4, <1>12 DEF IInv, Types, TaskTypes
  <2> QED BY <2>1, <2>2, <2>3 DEF Types
<1>14. CycleBits'
  <2> SUFFICES ASSUME NEW s \in Rings
               PROVE  /\ trb'[s][Size[s]].cyc = 1 - cycBit'[s]
                      /\ \A p \in Entries(s) : trb'[s][p].cyc =
                           IF p < curPos'[s] THEN cycBit'[s] ELSE 1 - cycBit'[s]
                      /\ IF ccs[s] = cycBit'[s] THEN deq[s] <= curPos'[s]
                         ELSE curPos'[s] <= deq[s]
    BY <1>4 DEF CycleBits, Entries
  <2>1. CASE s = r
    BY <2>1, <1>5, <1>8
  <2>2. CASE s # r
    BY <2>2, <1>5 DEF IInv, RingsInv, CycleBits
  <2> QED BY <2>1, <2>2
<1>15. Occupied'
  <2> SUFFICES ASSUME NEW s \in Rings, NEW p \in Entries(s), reqSrc'[s][p] # None
               PROVE  /\ Waiting(reqSrc[s][p])' /\ at'[reqSrc'[s][p]] = s
                      /\ reqSrc'[s][p] # req
    BY <1>4 DEF Occupied, Entries
  <2>1. CASE s = r /\ p \in Marked(r, n)
    <3>1. reqSrc'[s][p] = t
      BY <2>1, <1>6
    <3>2. Waiting(reqSrc[s][p])' <=> Waiting(t)'
      BY <3>1 DEF Waiting, Active
    <3>3. Waiting(t)' /\ at'[t] = r /\ t # req
      BY <1>2, <1>12
    <3> QED BY <2>1, <3>1, <3>2, <3>3
  <2>2. CASE ~(s = r /\ p \in Marked(r, n))
    <3>1. PICK u : u = reqSrc[s][p]
      OBVIOUS
    <3>2. reqSrc'[s][p] = u /\ u # None
      BY <2>2, <3>1, <1>5, <1>7
    <3>3. Waiting(u) /\ at[u] = s /\ u # req /\ u # t
      BY <3>1, <3>2, <1>2 DEF IInv, RingsInv, Occupied
    <3>4. u \in Tasks
      BY <3>1, <3>2, XHCIAssumption DEF IInv, Types, RingTypes
    <3>5. Waiting(reqSrc[s][p])' <=> Waiting(u)'
      BY <3>2 DEF Waiting, Active
    <3> QED BY <3>2, <3>3, <3>4, <3>5, <1>12
  <2> QED BY <2>1, <2>2
<1>16. Owned'
  <2> SUFFICES ASSUME NEW s \in Rings \ halted, NEW p \in Entries(s), Unread(s, p)'
               PROVE  reqSrc'[s][p] # None /\ trb'[s][p].cmd = reqSrc'[s][p]
    BY <1>4 DEF Owned, Entries
  <2>1. CASE s = r /\ p \in Marked(r, n)
    BY <2>1, <1>6, XHCIAssumption
  <2>2. CASE ~(s = r /\ p \in Marked(r, n))
    <3>1. Unread(s, p)
      BY <2>2, <1>8, <1>9
    <3>2. reqSrc'[s][p] = reqSrc[s][p] /\ trb'[s][p] = trb[s][p]
      BY <2>2, <1>5, <1>7
    <3> QED BY <3>1, <3>2 DEF IInv, RingsInv, Owned
  <2> QED BY <2>1, <2>2
<1>17. ASSUME r \in Halting, NEW p \in Entries(r)
       PROVE  ~Unread(r, p)
  <2> SUFFICES ASSUME Unread(r, p)
               PROVE  FALSE
    OBVIOUS
  <2>1. PICK u : u = reqSrc[r][p]
    OBVIOUS
  <2>2. u \in Tasks /\ Waiting(u) /\ at[u] = r
    BY <2>1, <1>2, HandedOverLives
  <2>3. u = t
    BY <2>2, <1>1, <1>17, OneUser DEF Waiting
  <2> QED BY <2>2, <2>3, <1>2
<1>18. OneLast'
  <2>1. ASSUME NEW s \in Halting \ halted, NEW p \in Entries(s), Unread(s, p)'
        PROVE  trb'[s][p].last <=> p + 1 = curPos'[s]
    <3>0. s \in Rings
      BY XHCIAssumption
    <3>1. CASE s = r
      <4>1. p \in Marked(r, n)
        BY <2>1, <3>1, <1>8, <1>17
      <4> QED BY <3>1, <4>1, <1>6
    <3>2. CASE s # r
      <4>1. Unread(s, p)
        BY <2>1, <3>0, <3>2, <1>9
      <4>2. trb[s][p].last <=> p + 1 = curPos[s]
        BY <4>1 DEF IInv, RingsInv, OneLast
      <4> QED BY <4>2, <3>0, <3>2, <1>5
    <3> QED BY <3>1, <3>2
  <2>2. ASSUME NEW s \in Rings \ Halting, NEW p \in Entries(s), Unread(s, p)'
        PROVE  trb'[s][p].last
    <3>1. CASE s = r /\ p \in Marked(r, n)
      <4>1. p + 1 = curPos'[r]
        BY <3>1, <1>5, <1>10, <1>11
      <4>2. trb'[r][p].last <=> p + 1 = curPos'[r]
        BY <3>1, <1>6
      <4> QED BY <3>1, <4>1, <4>2
    <3>2. CASE ~(s = r /\ p \in Marked(r, n))
      <4>1. Unread(s, p) /\ trb'[s][p] = trb[s][p]
        BY <2>2, <3>2, <1>5, <1>7, <1>8, <1>9
      <4> QED BY <4>1 DEF IInv, RingsInv, OneLast
    <3> QED BY <3>1, <3>2
  <2>3. ASSUME NEW s \in Rings \ Halting, NEW p \in Entries(s), NEW q \in Entries(s),
               reqSrc'[s][p] # None, reqSrc'[s][p] = reqSrc'[s][q]
        PROVE  p = q
    <3>1. CASE s = r /\ (p \in Marked(r, n) \/ q \in Marked(r, n))
      <4>1. p \in Marked(r, n) /\ q \in Marked(r, n)
        BY <2>3, <3>1, <1>2, <1>6, <1>7
      <4> QED BY <3>1, <4>1, <1>10, <1>11
    <3>2. CASE ~(s = r /\ (p \in Marked(r, n) \/ q \in Marked(r, n)))
      <4>1. reqSrc'[s][p] = reqSrc[s][p] /\ reqSrc'[s][q] = reqSrc[s][q]
        BY <3>2, <1>5, <1>7
      <4>2. \A a, b \in Entries(s) :
              reqSrc[s][a] # None /\ reqSrc[s][a] = reqSrc[s][b] => a = b
        BY DEF IInv, RingsInv, OneLast
      <4> QED BY <2>3, <4>1, <4>2
    <3> QED BY <3>1, <3>2
  <2> QED BY <2>1, <2>2, <2>3, <1>4 DEF OneLast, Entries
<1>19. Places' = Places /\ \A x : EveAt(x)' = EveAt(x)
  BY <1>4 DEF Places, OnRing, InQue, InHand, EveAt
<1>20. ASSUME NEW e, EventLive(e)
       PROVE  EventLive(e)'
  <2>1. /\ e \in [ring : Rings, pos : Nat, cmd : Tasks, ok : BOOLEAN]
        /\ e.ring \in Rings /\ e.cmd \in Tasks /\ e.pos \in Entries(e.ring)
        /\ Waiting(e.cmd) /\ at[e.cmd] = e.ring
        /\ e.cmd # t
    BY <1>2, <1>20 DEF EventLive
  <2>2. Waiting(e.cmd)' /\ at'[e.cmd] = e.ring
    BY <2>1, <1>12
  <2>3. ASSUME e.cmd # req
        PROVE  reqSrc'[e.ring][e.pos] = e.cmd
    <3>1. reqSrc[e.ring][e.pos] = e.cmd /\ e.cmd # None
      BY <2>1, <2>3, <1>20, XHCIAssumption DEF EventLive
    <3>2. ~(e.ring = r /\ e.pos \in Marked(r, n))
      BY <2>1, <3>1, <1>6
    <3> QED BY <2>1, <3>1, <3>2, <1>5, <1>7
  <2>4. ASSUME e.ring \notin halted, NEW p \in Entries(e.ring), Unread(e.ring, p)'
        PROVE  reqSrc'[e.ring][p] # e.cmd
    <3>1. CASE e.ring = r /\ p \in Marked(r, n)
      BY <3>1, <2>1, <1>6
    <3>2. CASE ~(e.ring = r /\ p \in Marked(r, n))
      <4>1. Unread(e.ring, p) /\ reqSrc'[e.ring][p] = reqSrc[e.ring][p]
        BY <2>1, <2>4, <3>2, <1>5, <1>7, <1>8, <1>9
      <4> QED BY <4>1, <2>4, <1>20 DEF EventLive
    <3> QED BY <3>1, <3>2
  <2>5. e.ring \in halted => ~e.ok
    BY <1>20 DEF EventLive
  <2> QED BY <2>1, <2>2, <2>3, <2>4, <2>5, <1>4 DEF EventLive, Entries
<1>21. LastAhead(t)'
  <2>1. PICK p : p = curPos'[r] - 1
    OBVIOUS
  <2>2. p \in Entries(r) /\ p + 1 = curPos'[r]
    <3>1. curPos'[r] \in Nat /\ curPos'[r] >= 1 /\ curPos'[r] <= Size[r]
      BY <1>5, <1>10
    <3> QED BY <2>1, <3>1, <1>10 DEF Entries
  <2>3. p \in Marked(r, n)
    BY <2>2, <1>5, <1>10, <1>11
  <2>4. trb'[r][p].cmd = t /\ trb'[r][p].last /\ reqSrc'[r][p] = t /\ Unread(r, p)'
    BY <2>2, <2>3, <1>6, <1>8
  <2>5. LastOf(t, r, p)'
    BY <2>4 DEF LastOf
  <2>6. (\E q \in Entries(at[t]) : LastOf(t, at[t], q))'
    BY <2>2, <2>5, <1>12 DEF LastOf, Unread, Entries
  <2> QED BY <2>6, <1>2, <1>4, <1>12 DEF LastAhead
<1>22. ASSUME NEW u \in Tasks \ {t}, Waiting(u), LastAhead(u)
       PROVE  LastAhead(u)'
  <2>1. PICK s : s = at[u]
    OBVIOUS
  <2>2. PICK p \in Entries(s) : LastOf(u, s, p)
    BY <2>1, <1>22 DEF LastAhead
  <2>3. at'[u] = s /\ s \notin halted /\ s \in Rings
    BY <2>1, <1>12, <1>22 DEF LastAhead, IInv, Types, TaskTypes, Waiting
  <2>4. LastOf(u, s, p)'
    <3>1. CASE s = r
      <4>1. p \notin Marked(r, n) /\ Unread(r, p)'
        BY <2>2, <3>1, <1>8 DEF LastOf
      <4>2. reqSrc'[s][p] = reqSrc[s][p] /\ trb'[s][p] = trb[s][p]
        BY <3>1, <4>1, <1>7
      <4>3. Unread(s, p)'
        BY <3>1, <4>1 DEF Unread
      <4> QED BY <2>2, <4>2, <4>3 DEF LastOf
    <3>2. CASE s # r
      <4>1. reqSrc'[s] = reqSrc[s] /\ trb'[s] = trb[s] /\ Unread(s, p)'
        BY <2>2, <2>3, <3>2, <1>5, <1>9 DEF LastOf
      <4> QED BY <2>2, <4>1 DEF LastOf
    <3> QED BY <3>1, <3>2
  <2>5. (\E q \in Entries(at[u]) : LastOf(u, at[u], q))'
    BY <2>2, <2>3, <2>4 DEF LastOf, Unread, Entries
  <2> QED BY <2>3, <2>5, <1>4 DEF LastAhead
<1>23. EventsInv'
  <2>1. EventsLive' /\ Apart'
    BY <1>19, <1>20 DEF IInv, EventsInv, EventsLive, Apart
  <2>2. ASSUME NEW u \in Tasks, Waiting(u)'
        PROVE  (\E x \in Places' : EveAt(x)'.cmd = u) \/ LastAhead(u)'
    <3>1. CASE u = t
      BY <3>1, <1>21
    <3>2. CASE u # t
      <4>1. (\E x \in Places : EveAt(x).cmd = u) \/ LastAhead(u)
        BY <2>2, <3>2, <1>12 DEF IInv, EventsInv, Answering
      <4> QED BY <2>2, <3>2, <4>1, <1>12, <1>19, <1>22
    <3> QED BY <3>1, <3>2
  <2> QED BY <2>1, <2>2 DEF EventsInv, Answering
<1>24. Released' /\ EventRing' /\ QueueShape'
  BY <1>4 DEF IInv, Released, EventRing, QueueShape
<1>25. Told'
  BY <1>2, <1>3, <1>4, <1>12 DEF IInv, Told, Types, TaskTypes
<1>26. HaltedStops'
  <2> SUFFICES ASSUME NEW s \in halted, NEW u \in Users[s]
               PROVE  pc'[u] = "stopped" \/ (Active(u)' /\ at'[u] = s)
    BY <1>4 DEF HaltedStops
  <2>1. s \in Rings /\ u \in Tasks
    BY XHCIAssumption DEF IInv, Types, RingTypes
  <2>2. u # t
    BY <2>1, <1>1 DEF IInv, HaltedStops, Active
  <2> QED BY <2>1, <2>2, <1>12 DEF IInv, HaltedStops
<1> QED BY <1>13, <1>14, <1>15, <1>16, <1>18, <1>23, <1>24, <1>25, <1>26 DEF IInv, RingsInv

(* Whether or not it fits.                                                  *)
LEMMA TryInsReqStep ==
  ASSUME IInv, NEW t \in Tasks, NEW r \in Rings, NEW n \in Lens[r], TryInsReq(t, r, n)
  PROVE  IInv'
BY FullStep, InsertStep

-----------------------------------------------------------------------------
(* The invariant                                                            *)

(* At first the rings are empty and every task is idle.                     *)
LEMMA InitInv == Init => IInv
<1> SUFFICES ASSUME Init
             PROVE  IInv
  OBVIOUS
<1> USE DEF Init
<1>1. /\ QueSize \in Nat \ {0} /\ EveSize \in Nat \ {0, 1} /\ None \notin Tasks \cup Rings
      /\ \A r \in Rings : Size[r] \in Nat \ {0}
  BY XHCIAssumption
<1>2. NoEve \in Eves
  BY DEF NoEve, Eves
<1>3. [cyc |-> 0, cmd |-> None, last |-> TRUE] \in TRBs
  BY DEF TRBs
<1>4. RingTypes
  BY <1>1, <1>3 DEF RingTypes, Entries
<1>5. EventTypes
  <2>1. [cyc |-> 0, ev |-> NoEve] \in [cyc : {0, 1}, ev : Eves]
    BY <1>2
  <2> QED BY <2>1, <1>1, <1>2 DEF EventTypes
<1>6. TaskTypes
  BY <1>2 DEF TaskTypes, Active
<1>7. \A r \in Rings : \A p \in Entries(r) : ~Unread(r, p) /\ reqSrc[r][p] = None
  BY <1>1 DEF Unread, Entries
<1>8. CycleBits
  BY <1>1 DEF CycleBits, Entries
<1>9. Occupied /\ Owned /\ OneLast
  BY <1>7, XHCIAssumption DEF Occupied, Owned, OneLast
<1>10. OnRing = {} /\ InQue = {} /\ InHand = {}
  BY <1>1 DEF OnRing, InQue, InHand, From, Dist
<1>11. EventsLive /\ Apart
  BY <1>10 DEF EventsLive, Apart, Places
<1>12. \A t \in Tasks : ~Active(t)
  BY DEF Active
<1>13. Answering
  BY <1>12 DEF Answering, Waiting
<1>14. Released /\ Told /\ HaltedStops
  BY DEF Released, Told, HaltedStops
<1>15. EventRing /\ QueueShape
  BY <1>1 DEF EventRing, QueueShape, Dist, Wrap
<1> QED BY <1>4, <1>5, <1>6, <1>8, <1>9, <1>11, <1>13, <1>14, <1>15
     DEF IInv, Types, RingsInv, EventsInv

(* A step that changes nothing keeps the invariant.                         *)
LEMMA StutterStep ==
  ASSUME IInv, UNCHANGED vars
  PROVE  IInv'
<1>1. UNCHANGED <<trb, curPos, cycBit, reqSrc, deq, ccs, halted, pc, at, finished, req,
                  eve, enq, evePos, que, hdr, len, epc, slot>>
  BY DEF vars, rings, ctrl, queue, evtsk, task
<1>2. UNCHANGED <<pcs, rung, eveCyc, deqPtr, busy, intr, hpc, ptr, til, res>>
  BY DEF vars, ctrl, handler, queue
<1>3. RingsInv' /\ EventsInv'
  BY <1>1, RingsKept, EventsKept DEF IInv
<1>4. Types'
  BY <1>1, <1>2 DEF IInv, Types, RingTypes, EventTypes, TaskTypes, Active, Entries
<1>5. Released' /\ Told' /\ HaltedStops'
  BY <1>1, <1>2 DEF IInv, Released, Told, HaltedStops, Active
<1>6. EventRing' /\ QueueShape'
  BY <1>1, <1>2 DEF IInv, EventRing, QueueShape
<1> QED BY <1>3, <1>4, <1>5, <1>6 DEF IInv

(* Every action keeps the invariant.                                        *)
LEMMA NextInv == QueueHolds /\ IInv /\ [Next]_vars => IInv'
<1> SUFFICES ASSUME QueueHolds, IInv, [Next]_vars
             PROVE  IInv'
  OBVIOUS
<1>1. CASE \E t \in Tasks : RingDb(t)
  BY <1>1, RingDbStep
<1>2. CASE \E t \in Tasks : Return(t)
  BY <1>2, ReturnStep
<1>3. CASE \E t \in Tasks, r \in Rings : \E n \in Lens[r] : TryInsReq(t, r, n)
  BY <1>3, TryInsReqStep
<1>4. CASE Drain
  BY <1>4, DrainStep
<1>5. CASE WriteDeqPtr
  BY <1>5, WriteDeqPtrStep
<1>6. CASE GetEve
  BY <1>6, GetEveStep
<1>7. CASE Release
  BY <1>7, ReleaseStep
<1>8. CASE Finish
  BY <1>8, FinishStep
<1>9. CASE Interrupt
  BY <1>9, InterruptStep
<1>10. CASE \E r \in Rings : Follow(r)
  BY <1>10, FollowStep
<1>11. CASE \E r \in Rings : Execute(r)
  BY <1>11, ExecuteStep
<1>12. CASE UNCHANGED vars
  BY <1>12, StutterStep
<1> QED BY <1>1, <1>2, <1>3, <1>4, <1>5, <1>6, <1>7, <1>8, <1>9, <1>10, <1>11, <1>12
     DEF Next, Host, Controller

(* The invariant holds, if the queue of events has room for one of every    *)
(* task.                                                                    *)
THEOREM Inductive ==
  ASSUME QueueHolds
  PROVE  Spec => []IInv
<1>1. Init => IInv
  BY InitInv
<1>2. IInv /\ [Next]_vars => IInv'
  BY NextInv
<1> QED BY <1>1, <1>2, PTL DEF Spec

(* OnlyLiveTRBs of HW_USB_XHCI_Ring_tryInsReq: the controller finds TRBs of *)
(* requests that are waited for, never one of an earlier round.             *)
THEOREM LiveTRBs ==
  ASSUME QueueHolds
  PROVE  Spec => []OnlyLiveTRBs
<1>1. IInv => OnlyLiveTRBs
  <2> SUFFICES ASSUME IInv, NEW r \in Rings \ halted, deq[r] < Size[r], NextTrb(r).cyc = ccs[r]
               PROVE  \E t \in Tasks : reqSrc[r][deq[r]] = t /\ NextTrb(r).cmd = t
                                       /\ t \notin finished
    BY DEF OnlyLiveTRBs
  <2>1. deq[r] \in Entries(r) /\ Unread(r, deq[r])
    BY HandedOver
  <2> QED BY <2>1, HandedOverLives DEF NextTrb, Waiting
<1> QED BY <1>1, Inductive, PTL

(* RequestAlive of HW_USB_XHCI_eveHandleTask: it finds the request of every *)
(* event, and works on requests that are waited for.                        *)
THEOREM AliveRequests ==
  ASSUME QueueHolds
  PROVE  Spec => []RequestAlive
<1>1. IInv => RequestAlive
  <2> SUFFICES ASSUME IInv
               PROVE  RequestAlive
    OBVIOUS
  <2>1. epc # "fault"
    BY DEF IInv, Types, EventTypes
  <2>2. ASSUME req # None
        PROVE  Waiting(req)
    <3>1. epc = "finish" /\ req = que[slot].cmd
      BY <2>2 DEF IInv, Released
    <3>2. <<3, slot>> \in Places /\ EveAt(<<3, slot>>) = que[slot]
      BY <3>1 DEF Places, InHand, EveAt
    <3>3. EventLive(que[slot])
      BY <3>2 DEF IInv, EventsInv, EventsLive
    <3> QED BY <3>1, <3>3 DEF EventLive
  <2> QED BY <2>1, <2>2 DEF RequestAlive, Waiting, Active
<1> QED BY <1>1, Inductive, PTL

-----------------------------------------------------------------------------
(* One completion                                                           *)

(* A set without two elements has one, or none.                             *)
LEMMA AtMostOne ==
  ASSUME NEW S, \A x, y \in S : x = y
  PROVE  Cardinality(S) = IF S = {} THEN 0 ELSE 1
<1>1. CASE S = {}
  BY <1>1, FS_EmptySet
<1>2. CASE S # {}
  <2>1. PICK x : x \in S
    BY <1>2
  <2>2. S = {x}
    BY <2>1
  <2> QED BY <2>2, FS_Singleton
<1> QED BY <1>1, <1>2

(* The events and TRBs that OneCompletion counts for a task.                *)
Ringing(t) == {i \in InRing : eve[i].ev.cmd = t}
Queued(t)  == {i \in InQueue : que[i].cmd = t}
Handed(t)  == IF epc \in {"release", "finish"} /\ que[slot].cmd = t THEN 1 ELSE 0
Lasts(t)   == {s \in (Rings \ halted) \X UNION {0..Size[r] : r \in Rings} :
                 s[2] < Size[s[1]] /\ LastOf(t, s[1], s[2])}

(* What is counted, in terms of the places of events.                       *)
LEMMA CountedIs ==
  ASSUME IInv, NEW t \in Tasks
  PROVE  /\ \A i : i \in Ringing(t) <=> <<1, i>> \in Places /\ EveAt(<<1, i>>).cmd = t
         /\ \A i : i \in Queued(t) <=> <<2, i>> \in Places /\ EveAt(<<2, i>>).cmd = t
         /\ Handed(t) = IF <<3, slot>> \in Places /\ EveAt(<<3, slot>>).cmd = t THEN 1 ELSE 0
         /\ \A s \in Lasts(t) : /\ s = <<s[1], s[2]>> /\ s[1] \in Rings \ halted
                                /\ s[2] \in Entries(s[1]) /\ LastOf(t, s[1], s[2])
         /\ \A r \in Rings \ halted : \A p \in Entries(r) :
              LastOf(t, r, p) => <<r, p>> \in Lasts(t)
<1>1. /\ EveSize \in Nat \ {0} /\ QueSize \in Nat \ {0}
      /\ evePos \in 0..(EveSize - 1) /\ hdr \in 0..(QueSize - 1)
      /\ \A r \in Rings : Size[r] \in Nat \ {0}
  BY XHCIAssumption DEF IInv, Types, EventTypes
<1>2. InRing = OnRing
  <2>1. \A i \in 0..(EveSize - 1) : (i + EveSize - evePos) % EveSize = Dist(EveSize, evePos, i)
    BY <1>1, DistIs
  <2>2. Available = Dist(EveSize, evePos, enq)
    BY AvailableIs
  <2> QED BY <2>1, <2>2 DEF InRing, OnRing, From
<1>3. InQueue = InQue
  <2>1. \A i \in 0..(QueSize - 1) : (i + QueSize - hdr) % QueSize = Dist(QueSize, hdr, i)
    BY <1>1, DistIs
  <2> QED BY <2>1 DEF InQueue, InQue, From
<1>4. \A i : /\ <<1, i>> \in Places <=> i \in OnRing
             /\ <<2, i>> \in Places <=> i \in InQue
             /\ <<3, i>> \in Places <=> i \in InHand
             /\ EveAt(<<1, i>>) = eve[i].ev
             /\ EveAt(<<2, i>>) = que[i] /\ EveAt(<<3, i>>) = que[i]
  BY DEF Places, EveAt
<1>5. \A i : i \in Ringing(t) <=> <<1, i>> \in Places /\ EveAt(<<1, i>>).cmd = t
  BY <1>2, <1>4 DEF Ringing
<1>6. \A i : i \in Queued(t) <=> <<2, i>> \in Places /\ EveAt(<<2, i>>).cmd = t
  BY <1>3, <1>4 DEF Queued
<1>7. Handed(t) = IF <<3, slot>> \in Places /\ EveAt(<<3, slot>>).cmd = t THEN 1 ELSE 0
  <2>1. slot \in InHand <=> epc \in {"release", "finish"}
    BY DEF InHand
  <2> QED BY <2>1, <1>4 DEF Handed
<1>8. ASSUME NEW s \in Lasts(t)
      PROVE  /\ s = <<s[1], s[2]>> /\ s[1] \in Rings \ halted
             /\ s[2] \in Entries(s[1]) /\ LastOf(t, s[1], s[2])
  <2>1. /\ s = <<s[1], s[2]>> /\ s[1] \in Rings \ halted
        /\ s[2] \in UNION {0..Size[r] : r \in Rings}
        /\ s[2] < Size[s[1]] /\ LastOf(t, s[1], s[2])
    BY DEF Lasts
  <2>2. s[2] \in Nat
    BY <2>1, <1>1
  <2> QED BY <2>1, <2>2, <1>1 DEF Entries
<1>9. ASSUME NEW r \in Rings \ halted, NEW p \in Entries(r), LastOf(t, r, p)
      PROVE  <<r, p>> \in Lasts(t)
  <2>1. p \in 0..Size[r] /\ p < Size[r]
    BY <1>1 DEF Entries
  <2>2. p \in UNION {0..Size[q] : q \in Rings}
    BY <2>1
  <2> QED BY <2>1, <2>2, <1>9 DEF Lasts
<1> QED BY <1>5, <1>6, <1>7, <1>8, <1>9

(* A request that is waited for is counted once, others are not.            *)
LEMMA TokensAre ==
  ASSUME IInv, NEW t \in Tasks
  PROVE  Tokens(t) = IF Waiting(t) THEN 1 ELSE 0
<1>1. /\ \A i : i \in Ringing(t) <=> <<1, i>> \in Places /\ EveAt(<<1, i>>).cmd = t
      /\ \A i : i \in Queued(t) <=> <<2, i>> \in Places /\ EveAt(<<2, i>>).cmd = t
      /\ Handed(t) = IF <<3, slot>> \in Places /\ EveAt(<<3, slot>>).cmd = t THEN 1 ELSE 0
  BY CountedIs
<1>2. \A x, y \in Places : EveAt(x).cmd = t /\ EveAt(y).cmd = t => x = y
  BY DEF IInv, EventsInv, Apart
<1>3. ASSUME NEW s \in Lasts(t)
      PROVE  /\ s[1] \in Rings \ halted /\ s[2] \in Entries(s[1])
             /\ s = <<s[1], s[2]>>
             /\ trb[s[1]][s[2]].last /\ reqSrc[s[1]][s[2]] = t /\ Unread(s[1], s[2])
             /\ Waiting(t) /\ at[t] = s[1] /\ \A x \in Places : EveAt(x).cmd # t
  <2>1. PICK r, p : r = s[1] /\ p = s[2]
    OBVIOUS
  <2>2. /\ r \in Rings \ halted /\ p \in Entries(r) /\ LastOf(t, r, p) /\ s = <<r, p>>
    BY <2>1, CountedIs
  <2>3. trb[r][p].last /\ reqSrc[r][p] = t /\ Unread(r, p)
    BY <2>2 DEF LastOf
  <2>4. Waiting(t) /\ at[t] = r /\ \A x \in Places : EveAt(x).cmd # t
    BY <2>2, <2>3, HandedOverLives
  <2> QED BY <2>1, <2>2, <2>3, <2>4
<1>4. \A s, u \in Lasts(t) : s = u
  <2> SUFFICES ASSUME NEW s \in Lasts(t), NEW u \in Lasts(t)
               PROVE  s = u
    OBVIOUS
  <2>1. PICK r, p, q : r = s[1] /\ p = s[2] /\ q = u[2]
    OBVIOUS
  <2>2. /\ r \in Rings \ halted /\ p \in Entries(r) /\ q \in Entries(r)
        /\ s = <<r, p>> /\ u = <<r, q>>
        /\ trb[r][p].last /\ reqSrc[r][p] = t /\ Unread(r, p)
        /\ trb[r][q].last /\ reqSrc[r][q] = t /\ Unread(r, q)
    <3>1. /\ r \in Rings \ halted /\ p \in Entries(r) /\ s = <<r, p>> /\ at[t] = r
          /\ trb[r][p].last /\ reqSrc[r][p] = t /\ Unread(r, p)
      BY <2>1, <1>3
    <3>2. u[1] = r
      BY <3>1, <1>3
    <3>3. q \in Entries(r) /\ u = <<r, q>> /\ trb[r][q].last /\ reqSrc[r][q] = t /\ Unread(r, q)
      BY <2>1, <3>2, <1>3
    <3> QED BY <3>1, <3>3
  <2>3. CASE r \in Halting
    <3>1. p + 1 = curPos[r] /\ q + 1 = curPos[r]
      BY <2>2, <2>3 DEF IInv, RingsInv, OneLast
    <3>2. p \in Int /\ q \in Int
      BY <2>2 DEF Entries
    <3> QED BY <2>2, <3>1, <3>2
  <2>4. CASE r \notin Halting
    <3>1. p = q
      BY <2>2, <2>4, XHCIAssumption DEF IInv, RingsInv, OneLast
    <3> QED BY <2>2, <3>1
  <2> QED BY <2>3, <2>4
<1>5. \A i, j \in Ringing(t) : i = j
  <2>1. \A i, j : <<1, i>> = <<1, j>> => i = j
    OBVIOUS
  <2> QED BY <2>1, <1>1, <1>2
<1>6. \A i, j \in Queued(t) : i = j
  <2>1. \A i, j : <<2, i>> = <<2, j>> => i = j
    OBVIOUS
  <2> QED BY <2>1, <1>1, <1>2
<1>7. Tokens(t) = (IF Ringing(t) = {} THEN 0 ELSE 1) + (IF Queued(t) = {} THEN 0 ELSE 1)
                  + Handed(t) + (IF Lasts(t) = {} THEN 0 ELSE 1)
  <2>1. Tokens(t) = Cardinality(Ringing(t)) + Cardinality(Queued(t)) + Handed(t)
                    + Cardinality(Lasts(t))
    BY DEF Tokens, Ringing, Queued, Handed, Lasts
  <2>2. /\ Cardinality(Ringing(t)) = IF Ringing(t) = {} THEN 0 ELSE 1
        /\ Cardinality(Queued(t)) = IF Queued(t) = {} THEN 0 ELSE 1
        /\ Cardinality(Lasts(t)) = IF Lasts(t) = {} THEN 0 ELSE 1
    BY <1>4, <1>5, <1>6, AtMostOne
  <2> QED BY <2>1, <2>2
<1>8. \A x \in Places : EveAt(x).cmd = t => Waiting(t)
  BY DEF IInv, EventsInv, EventsLive, EventLive
<1>9. \A x \in Places : \/ \E i : x = <<1, i>>
                        \/ \E i : x = <<2, i>>
                        \/ x = <<3, slot>>
  BY DEF Places, InHand
<1>13. \A i, j : /\ <<1, i>> # <<2, j>> /\ <<1, i>> # <<3, j>> /\ <<2, i>> # <<3, j>>
  OBVIOUS
<1>10. CASE ~Waiting(t)
  <2>1. Ringing(t) = {} /\ Queued(t) = {} /\ Handed(t) = 0 /\ Lasts(t) = {}
    BY <1>1, <1>3, <1>8, <1>10
  <2> QED BY <2>1, <1>7, <1>10
<1>11. CASE \E x \in Places : EveAt(x).cmd = t
  <2>1. PICK x \in Places : EveAt(x).cmd = t
    BY <1>11
  <2>2. Lasts(t) = {}
    BY <2>1, <1>3
  <2>3. \A y \in Places : EveAt(y).cmd = t => y = x
    BY <2>1, <1>2
  <2>4. CASE \E i : x = <<1, i>>
    <3>1. PICK i : x = <<1, i>>
      BY <2>4
    <3>2. i \in Ringing(t)
      BY <2>1, <3>1, <1>1
    <3>3. \A j : j \notin Queued(t)
      BY <2>3, <3>1, <1>1, <1>13
    <3>4. Handed(t) = 0
      BY <2>3, <3>1, <1>1, <1>13
    <3>5. Ringing(t) # {} /\ Queued(t) = {}
      BY <3>2, <3>3
    <3> QED BY <3>4, <3>5, <2>1, <2>2, <1>7, <1>8
  <2>5. CASE \E i : x = <<2, i>>
    <3>1. PICK i : x = <<2, i>>
      BY <2>5
    <3>2. i \in Queued(t)
      BY <2>1, <3>1, <1>1
    <3>3. \A j : j \notin Ringing(t)
      BY <2>3, <3>1, <1>1, <1>13
    <3>4. Handed(t) = 0
      BY <2>3, <3>1, <1>1, <1>13
    <3>5. Ringing(t) = {} /\ Queued(t) # {}
      BY <3>2, <3>3
    <3> QED BY <3>4, <3>5, <2>1, <2>2, <1>7, <1>8
  <2>6. CASE x = <<3, slot>>
    <3>1. Ringing(t) = {}
      BY <2>1, <2>3, <2>6, <1>1, <1>13
    <3>2. Queued(t) = {}
      BY <2>1, <2>3, <2>6, <1>1, <1>13
    <3>3. Handed(t) = 1
      BY <2>1, <2>3, <2>6, <1>1, <1>13
    <3> QED BY <3>1, <3>2, <3>3, <2>1, <2>2, <1>7, <1>8
  <2> QED BY <2>4, <2>5, <2>6, <1>9
<1>12. CASE Waiting(t) /\ ~\E x \in Places : EveAt(x).cmd = t
  <2>1. Ringing(t) = {} /\ Queued(t) = {} /\ Handed(t) = 0
    BY <1>1, <1>12
  <2>2. LastAhead(t)
    BY <1>12 DEF IInv, EventsInv, Answering
  <2>3. at[t] \in Rings \ halted
    BY <2>2, <1>12 DEF LastAhead, IInv, Types, TaskTypes, Waiting
  <2>4. Lasts(t) # {}
    BY <2>2, <2>3, CountedIs DEF LastAhead
  <2> QED BY <2>1, <2>4, <1>7, <1>12
<1> QED BY <1>10, <1>11, <1>12

(* OneCompletion: every request that is waited for has one event on its way *)
(* or one last TRB ahead of the controller, and the answer that arrives is  *)
(* its own.  The variables keep their types.                                *)
THEOREM CompletionIsOne ==
  ASSUME QueueHolds
  PROVE  Spec => []OneCompletion
<1>1. IInv => OneCompletion
  <2> SUFFICES ASSUME IInv
               PROVE  OneCompletion
    OBVIOUS
  <2>1. TypeOK
    <3>1. RingTypes /\ EventTypes /\ TaskTypes /\ \A r \in Rings : Size[r] \in Nat
      BY XHCIAssumption DEF IInv, Types
    <3>2. \A r \in Rings : /\ curPos[r] \in 0..Size[r] /\ deq[r] \in 0..Size[r]
                           /\ cycBit[r] \in {0, 1} /\ ccs[r] \in {0, 1}
      BY <3>1 DEF RingTypes
    <3>3. \A r \in Rings : \A p \in 0..(Size[r] - 1) : reqSrc[r][p] \in Users[r] \cup {None}
      BY <3>1 DEF RingTypes, Entries
    <3> QED BY <3>1, <3>2, <3>3 DEF TypeOK, RingTypes, EventTypes, TaskTypes
  <2>2. \A t \in Tasks :
          Tokens(t) = IF pc[t] \in {"ring", "wait"} /\ t \notin finished THEN 1 ELSE 0
    BY TokensAre DEF Waiting, Active
  <2>3. \A t \in finished : pc[t] \in {"ring", "wait"} => res[t].cmd = t
    BY DEF IInv, Told
  <2> QED BY <2>1, <2>2, <2>3 DEF OneCompletion
<1> QED BY <1>1, Inductive, PTL
=============================================================================
