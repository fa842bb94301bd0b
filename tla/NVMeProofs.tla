----------------------------- MODULE NVMeProofs -----------------------------
(***************************************************************************)
(* Proofs about NVMe, for any tasks and queues, and rings of any size: a   *)
(* command's slot, identifier and phase lead its completion to the request *)
(* it was made for, and to no other.                                       *)
(***************************************************************************)
EXTENDS NVMe, TLAPS, FiniteSetTheorems

Ring == 0..(CmplSize - 1)

(* The entries of a ring of n from f on, up to but not including t.         *)
Span(n, f, t) ==
  {i \in 0..(n - 1) : IF f <= t THEN f <= i /\ i < t ELSE i >= f \/ i < t}

(* The completions whose request the handler has not taken.                 *)
Unread == Fresh \ (IF hpc = "finish" THEN {hdr} ELSE {})

Types ==
  /\ TypeOK
  /\ flight \subseteq [que : Ques, id : Slots, cmd : Cmds]
  /\ cmpl \in [Ring -> [phase : {0, 1}, que : Ques \cup {None}, id : Slots,
                        cmd : Cmds \cup {NoCmd}]]
  /\ post \in Ring /\ postPhase \in {0, 1}
  /\ gen \in [Tasks -> {0, 1}] /\ res \in [Tasks -> Cmds \cup {NoCmd}]

(* A command lies in its slot from the doorbell to the fetch; a queue that  *)
(* looks empty to the controller is empty, or was filled whole.             *)
SubmissionRing ==
  \A q \in Ques :
    IF fetched[q] = til[q]
    THEN \/ \A i \in Slots : entry[q][i] = NoCmd
         \/ \A i \in Slots : entry[q][i] # NoCmd
    ELSE \A i \in Slots : entry[q][i] # NoCmd <=> i \in Span(Size, fetched[q], til[q])

(* The rung head, the head and the tail of the completion queue follow each *)
(* other round the ring, and the tail never catches up with the rung head.  *)
CompletionRing ==
  \/ cmplDb <= hdr /\ hdr <= post
  \/ hdr <= post /\ post < cmplDb
  \/ post < cmplDb /\ cmplDb <= hdr

(* The phase tells the entries of this round from those of the last.        *)
Phases ==
  /\ \A k \in Ring : cmpl[k].phase = IF k < post THEN postPhase ELSE 1 - postPhase
  /\ phaseBit = IF hdr <= post THEN postPhase ELSE 1 - postPhase

(* A command waits in its slot, is worked at or is completed, and its slot  *)
(* holds the request it belongs to, whose latest command it is.             *)
Belongs(q, i, cmd) == reqSrc[q][i] \in Tasks /\ cmd = Cmd(reqSrc[q][i])

EntriesBelong ==
  \A q \in Ques, i \in Slots : entry[q][i] # NoCmd => Belongs(q, i, entry[q][i])
FlightBelongs ==
  \A c \in flight : Belongs(c.que, c.id, c.cmd) /\ entry[c.que][c.id] = NoCmd
CompletionsBelong ==
  \A k \in Unread :
    /\ cmpl[k].que \in Ques /\ Belongs(cmpl[k].que, cmpl[k].id, cmpl[k].cmd)
    /\ entry[cmpl[k].que][cmpl[k].id] = NoCmd
    /\ \A c \in flight : ~(c.que = cmpl[k].que /\ c.id = cmpl[k].id)
CompletedOnce ==
  \A k, l \in Unread : cmpl[k].que = cmpl[l].que /\ cmpl[k].id = cmpl[l].id => k = l

(* A request is in one slot or in the handler's hands until it is finished. *)
SlotsHold ==
  /\ \A q \in Ques, i \in Slots :
       reqSrc[q][i] # None => reqSrc[q][i] \in waiting \ finished /\ reqSrc[q][i] # req
  /\ \A q, r \in Ques, i, j \in Slots :
       reqSrc[q][i] # None /\ reqSrc[q][i] = reqSrc[r][j] => q = r /\ i = j
  /\ \A t \in waiting \ finished : req = t \/ \E q \in Ques, i \in Slots : reqSrc[q][i] = t
HandHolds ==
  /\ hpc # "finish" => req = None
  /\ hpc = "finish" => req \in waiting \ finished /\ res[req] = Cmd(req) /\ hdr # post
FinishedRight ==
  finished \subseteq waiting /\ \A t \in finished : res[t] = Cmd(t)

IInv ==
  /\ Types /\ SubmissionRing /\ CompletionRing /\ Phases
  /\ EntriesBelong /\ FlightBelongs /\ CompletionsBelong /\ CompletedOnce
  /\ SlotsHold /\ HandHolds /\ FinishedRight

-----------------------------------------------------------------------------
(* Rings                                                                    *)

(* The next index of a ring of n, for the tails and heads of both queues.   *)
LEMMA RingNext ==
  ASSUME NEW n \in Nat \ {0}, NEW i \in 0..(n - 1)
  PROVE  (i + 1) % n = IF i = n - 1 THEN 0 ELSE i + 1
<1>1. CASE i = n - 1
  BY <1>1
<1>2. CASE i # n - 1
  BY <1>2
<1> QED BY <1>1, <1>2

(* The tail that does not catch up with the head adds one entry (insReq,    *)
(* the controller's post).                                                  *)
LEMMA SpanGrows ==
  ASSUME NEW n \in Nat \ {0}, NEW f \in 0..(n - 1), NEW t \in 0..(n - 1),
         NEW u, u = IF t = n - 1 THEN 0 ELSE t + 1, u # f, NEW i \in 0..(n - 1)
  PROVE  i \in Span(n, f, u) <=> i \in Span(n, f, t) \/ i = t
  BY DEF Span

(* The head that has not reached the tail gives up one entry (the fetch,    *)
(* the handler's head).                                                     *)
LEMMA SpanShrinks ==
  ASSUME NEW n \in Nat \ {0}, NEW f \in 0..(n - 1), NEW t \in 0..(n - 1), f # t,
         NEW g, g = IF f = n - 1 THEN 0 ELSE f + 1, NEW i \in 0..(n - 1)
  PROVE  i \in Span(n, g, t) <=> i \in Span(n, f, t) /\ i # f
  BY DEF Span

(* The entries that the handler has not read are a span of its ring.        *)
LEMMA FreshSpan == Fresh = Span(CmplSize, hdr, post)
  BY DEF Fresh, Span

-----------------------------------------------------------------------------
(* The invariant holds at first                                             *)

(* No request has been made, and the rings are empty.                       *)
LEMMA InitIInv == Init => IInv
<1> SUFFICES ASSUME Init PROVE IInv
  OBVIOUS
<1> USE NVMeAssumption DEF Init
<1>1. 0 \in Slots /\ 0 \in Ring /\ Fresh = {}
  BY DEF Slots, Ring, Fresh
<1>2. Types
  BY <1>1 DEF Types, TypeOK, Ring, Dead, NoCmd, Cmds
<1>3. SubmissionRing /\ CompletionRing /\ Phases
  BY <1>1 DEF SubmissionRing, CompletionRing, Phases, Ring, Dead
<1>4. EntriesBelong /\ FlightBelongs /\ CompletionsBelong /\ CompletedOnce
  BY <1>1 DEF EntriesBelong, FlightBelongs, CompletionsBelong, CompletedOnce, Unread
<1>5. SlotsHold /\ HandHolds /\ FinishedRight
  BY DEF SlotsHold, HandHolds, FinishedRight
<1> QED BY <1>2, <1>3, <1>4, <1>5 DEF IInv

-----------------------------------------------------------------------------
(* The tasks                                                                *)

(* HW_NVMe_insReq: the slot at the tail is free, so no command lies in it,  *)
(* and the task's last request is known nowhere.                            *)
LEMMA InsReqStep == ASSUME IInv, NEW t \in Tasks, NEW q \in Ques, InsReq(t, q) PROVE IInv'
<1> DEFINE at == til[q]
<1> USE NVMeAssumption
<1>1. /\ at \in Slots /\ reqSrc[q][at] = None /\ t \notin waiting
      /\ reqSrc' = [reqSrc EXCEPT ![q][at] = t]
      /\ entry' = [entry EXCEPT ![q][at] = <<t, 1 - gen[t]>>]
      /\ til' = [til EXCEPT ![q] = NextSlot(at)]
      /\ gen' = [gen EXCEPT ![t] = 1 - gen[t]]
      /\ waiting' = waiting \cup {t}
      /\ UNCHANGED <<cmpl, intr, finished, res, ctrl, hand>>
  BY DEF InsReq, SlotFree, IInv, Types, TypeOK
<1>2. /\ UNCHANGED <<cmpl, finished, res, fetched, flight, post, postPhase>>
      /\ UNCHANGED <<hdr, phaseBit, cmplDb, hpc, req>>
  BY <1>1 DEF ctrl, hand
<1>3. /\ til \in [Ques -> Slots] /\ reqSrc \in [Ques -> [Slots -> Tasks \cup {None}]]
      /\ entry \in [Ques -> [Slots -> Cmds \cup {NoCmd}]] /\ gen \in [Tasks -> {0, 1}]
      /\ waiting \subseteq Tasks /\ fetched \in [Ques -> Slots]
  BY DEF IInv, Types, TypeOK
<1>4. entry[q][at] = NoCmd
  BY <1>1, <1>3 DEF IInv, EntriesBelong, Belongs
<1>5. NextSlot(at) = (IF at = Size - 1 THEN 0 ELSE at + 1) /\ NextSlot(at) \in Slots
  <2>1. NextSlot(at) = IF at = Size - 1 THEN 0 ELSE at + 1
    BY <1>1, RingNext DEF NextSlot, Slots
  <2> QED BY <2>1, <1>1 DEF Slots
<1>6. gen' \in [Tasks -> {0, 1}] /\ <<t, 1 - gen[t]>> \in Cmds /\ <<t, 1 - gen[t]>> # NoCmd
      /\ Cmd(t)' = <<t, 1 - gen[t]>> /\ \A u \in Tasks \ {t} : Cmd(u)' = Cmd(u)
  <2>1. 1 - gen[t] \in {0, 1} /\ 1 - gen[t] = gen'[t] /\ \A u \in Tasks \ {t} : gen'[u] = gen[u]
    BY <1>1, <1>3
  <2>2. gen' \in [Tasks -> {0, 1}]
    BY <1>1, <1>3, <2>1
  <2> QED BY <2>1, <2>2 DEF Cmds, NoCmd, Cmd
<1>7. t # req /\ \A r \in Ques, i \in Slots : reqSrc[r][i] # t
  BY <1>1, <1>3 DEF IInv, SlotsHold, HandHolds
<1>8. \A r \in Ques, i \in Slots :
        /\ reqSrc'[r][i] = IF r = q /\ i = at THEN t ELSE reqSrc[r][i]
        /\ entry'[r][i] = IF r = q /\ i = at THEN <<t, 1 - gen[t]>> ELSE entry[r][i]
  BY <1>1, <1>3
<1>9. ASSUME NEW r \in Ques, NEW i \in Slots, NEW c, Belongs(r, i, c)
      PROVE  Belongs(r, i, c)' /\ ~(r = q /\ i = at)
  BY <1>9, <1>1, <1>6, <1>7, <1>8 DEF Belongs
<1>10. Types'
  <2>1. /\ til' \in [Ques -> Slots] /\ reqSrc' \in [Ques -> [Slots -> Tasks \cup {None}]]
        /\ waiting' \subseteq Tasks
    BY <1>1, <1>3, <1>5
  <2>2. entry' \in [Ques -> [Slots -> Cmds \cup {NoCmd}]]
    BY <1>1, <1>3, <1>6
  <2> QED BY <2>1, <2>2, <1>2, <1>6 DEF IInv, Types, TypeOK
<1>11. SubmissionRing'
  <2> SUFFICES ASSUME NEW r \in Ques
               PROVE  IF fetched'[r] = til'[r]
                      THEN \/ \A i \in Slots : entry'[r][i] = NoCmd
                           \/ \A i \in Slots : entry'[r][i] # NoCmd
                      ELSE \A i \in Slots :
                             entry'[r][i] # NoCmd <=> i \in Span(Size, fetched'[r], til'[r])
    BY DEF SubmissionRing
  <2> USE <1>2
  <2>1. CASE r # q
    <3>1. til'[r] = til[r] /\ fetched'[r] = fetched[r] /\ entry'[r] = entry[r]
      BY <2>1, <1>1, <1>3
    <3> QED BY <3>1 DEF IInv, SubmissionRing
  <2>2. CASE r = q
    <3>1. til'[q] = NextSlot(at) /\ fetched[q] \in 0..(Size - 1) /\ at \in 0..(Size - 1)
      BY <1>1, <1>3 DEF Slots
    <3>2. \A i \in Slots : entry'[q][i] # NoCmd <=> i = at \/ entry[q][i] # NoCmd
      BY <1>6, <1>8
    <3>3. \A i \in Slots : entry[q][i] # NoCmd <=> i \in Span(Size, fetched[q], at)
      <4>1. CASE fetched[q] # at
        BY <4>1 DEF IInv, SubmissionRing
      <4>2. CASE fetched[q] = at
        BY <4>2, <1>1, <1>4 DEF IInv, SubmissionRing, Span, Slots
      <4> QED BY <4>1, <4>2
    <3>4. CASE fetched[q] # NextSlot(at)
      <4>1. \A i \in Slots :
              i \in Span(Size, fetched[q], NextSlot(at)) <=> i \in Span(Size, fetched[q], at) \/ i = at
        BY <3>1, <3>4, <1>5, SpanGrows DEF Slots
      <4> QED BY <2>2, <3>1, <3>2, <3>3, <3>4, <4>1
    <3>5. CASE fetched[q] = NextSlot(at)
      <4>1. \A i \in Slots : i = at \/ i \in Span(Size, fetched[q], at)
        BY <3>1, <3>5, <1>5 DEF Span, Slots
      <4> QED BY <2>2, <3>1, <3>2, <3>3, <3>5, <4>1
    <3> QED BY <3>4, <3>5
  <2> QED BY <2>1, <2>2
<1>12. CompletionRing' /\ Phases'
  BY <1>2 DEF IInv, CompletionRing, Phases
<1>13. EntriesBelong'
  BY <1>1, <1>6, <1>8, <1>9 DEF IInv, EntriesBelong, Belongs
<1>14. FlightBelongs'
  BY <1>2, <1>8, <1>9 DEF IInv, Types, FlightBelongs
<1>15. CompletionsBelong' /\ CompletedOnce'
  <2>1. Unread' = Unread /\ \A k \in Unread : cmpl[k].id \in Slots
    BY <1>2 DEF Unread, Fresh, IInv, Types, Ring
  <2>2. ASSUME NEW k \in Unread
        PROVE  /\ cmpl[k].que \in Ques /\ Belongs(cmpl[k].que, cmpl[k].id, cmpl[k].cmd)'
               /\ entry'[cmpl[k].que][cmpl[k].id] = NoCmd
    BY <2>1, <1>2, <1>8, <1>9 DEF IInv, CompletionsBelong, Belongs
  <2> QED BY <1>2, <2>1, <2>2 DEF IInv, CompletionsBelong, CompletedOnce, Belongs
<1>16. SlotsHold'
  <2>1. \A r \in Ques, i \in Slots : reqSrc'[r][i] # None =>
          reqSrc'[r][i] \in waiting' \ finished' /\ reqSrc'[r][i] # req'
    BY <1>1, <1>2, <1>3, <1>7, <1>8 DEF IInv, SlotsHold, FinishedRight
  <2>2. \A r, s \in Ques, i, j \in Slots :
          reqSrc'[r][i] # None /\ reqSrc'[r][i] = reqSrc'[s][j] => r = s /\ i = j
    BY <1>7, <1>8 DEF IInv, SlotsHold
  <2>3. ASSUME NEW u \in waiting' \ finished'
        PROVE  req' = u \/ \E r \in Ques, i \in Slots : reqSrc'[r][i] = u
    <3>1. CASE u = t
      BY <3>1, <1>1, <1>8
    <3>2. CASE u # t /\ req # u
      <4>1. PICK r \in Ques, i \in Slots : reqSrc[r][i] = u
        BY <3>2, <1>1, <1>2 DEF IInv, SlotsHold
      <4>2. reqSrc'[r][i] = u
        BY <4>1, <1>1, <1>3, <1>8
      <4> QED BY <4>2
    <3> QED BY <3>1, <3>2, <1>2
  <2> QED BY <2>1, <2>2, <2>3 DEF SlotsHold
<1>17. HandHolds' /\ FinishedRight'
  BY <1>1, <1>2, <1>6, <1>7 DEF IInv, HandHolds, FinishedRight, TypeOK, Types
<1> QED BY <1>10, <1>11, <1>12, <1>13, <1>14, <1>15, <1>16, <1>17 DEF IInv

(* HW_NVMe_insReqWait returns: no slot holds the request of a task that has *)
(* been answered.                                                           *)
LEMMA ReturnStep == ASSUME IInv, NEW t \in Tasks, Return(t) PROVE IInv'
<1> USE NVMeAssumption
<1>1. /\ t \in waiting \cap finished
      /\ waiting' = waiting \ {t} /\ finished' = finished \ {t}
      /\ res' = [res EXCEPT ![t] = NoCmd]
      /\ UNCHANGED <<til, reqSrc, entry, cmpl, gen, fetched, flight, post, postPhase>>
      /\ UNCHANGED <<hdr, phaseBit, cmplDb, hpc, req>>
  BY DEF Return, ctrl, hand
<1>2. waiting' \ finished' = waiting \ finished /\ \A u \in Tasks : Cmd(u)' = Cmd(u)
  BY <1>1 DEF Cmd
<1>3. /\ \A u \in Tasks \ {t} : res'[u] = res[u]
      /\ res' \in [Tasks -> Cmds \cup {NoCmd}]
  BY <1>1 DEF IInv, Types
<1>4. Types'
  BY <1>1, <1>3 DEF IInv, Types, TypeOK
<1>5. SubmissionRing' /\ CompletionRing' /\ Phases'
  BY <1>1 DEF IInv, SubmissionRing, CompletionRing, Phases
<1>6. EntriesBelong' /\ FlightBelongs' /\ CompletionsBelong' /\ CompletedOnce'
  BY <1>1 DEF IInv, EntriesBelong, FlightBelongs, CompletionsBelong, CompletedOnce, Belongs, Cmd,
       Unread, Fresh
<1>7. SlotsHold'
  BY <1>1, <1>2 DEF IInv, SlotsHold
<1>8. HandHolds'
  BY <1>1, <1>2, <1>3 DEF IInv, HandHolds, Types, TypeOK
<1>9. FinishedRight'
  BY <1>1, <1>2, <1>3 DEF IInv, FinishedRight, Types, TypeOK
<1> QED BY <1>4, <1>5, <1>6, <1>7, <1>8, <1>9 DEF IInv

-----------------------------------------------------------------------------
(* The controller                                                           *)

(* A queue that does not look empty has a command at its head.              *)
LEMMA FetchStep == ASSUME IInv, NEW q \in Ques, Fetch(q) PROVE IInv'
<1> DEFINE at == fetched[q]
           new == [que |-> q, id |-> at, cmd |-> entry[q][at]]
<1> USE NVMeAssumption
<1>1. /\ at \in Slots /\ at # til[q]
      /\ flight' = flight \cup {new}
      /\ entry' = [entry EXCEPT ![q][at] = NoCmd]
      /\ fetched' = [fetched EXCEPT ![q] = (at + 1) % Size]
      /\ UNCHANGED <<til, reqSrc, cmpl, post, postPhase, finished, res, waiting, gen>>
      /\ UNCHANGED <<hdr, phaseBit, cmplDb, hpc, req>>
  BY DEF Fetch, host, hand, IInv, Types, TypeOK
<1>2. /\ til \in [Ques -> Slots] /\ fetched \in [Ques -> Slots]
      /\ entry \in [Ques -> [Slots -> Cmds \cup {NoCmd}]]
  BY DEF IInv, Types, TypeOK
<1>3. (at + 1) % Size = (IF at = Size - 1 THEN 0 ELSE at + 1) /\ (at + 1) % Size \in Slots
  <2>1. (at + 1) % Size = IF at = Size - 1 THEN 0 ELSE at + 1
    BY <1>1, RingNext DEF Slots
  <2> QED BY <2>1, <1>1 DEF Slots
<1>4. entry[q][at] # NoCmd
  <2>1. at \in Span(Size, at, til[q])
    BY <1>1, <1>2 DEF Span, Slots
  <2> QED BY <1>1, <2>1 DEF IInv, SubmissionRing
<1>5. Belongs(q, at, entry[q][at])
  BY <1>1, <1>4 DEF IInv, EntriesBelong
<1>6. \A r \in Ques, i \in Slots :
        entry'[r][i] = IF r = q /\ i = at THEN NoCmd ELSE entry[r][i]
  BY <1>1, <1>2
<1>7. \A r \in Ques, i \in Slots : \A c : Belongs(r, i, c)' <=> Belongs(r, i, c)
  BY <1>1 DEF Belongs, Cmd
<1>8. Types'
  <2>1. entry' \in [Ques -> [Slots -> Cmds \cup {NoCmd}]]
    BY <1>1, <1>2
  <2>2. fetched' \in [Ques -> Slots]
    BY <1>1, <1>2, <1>3
  <2>3. new \in [que : Ques, id : Slots, cmd : Cmds]
    BY <1>1, <1>2, <1>4
  <2> QED BY <1>1, <2>1, <2>2, <2>3 DEF IInv, Types, TypeOK
<1>9. SubmissionRing'
  <2> SUFFICES ASSUME NEW r \in Ques
               PROVE  IF fetched'[r] = til'[r]
                      THEN \/ \A i \in Slots : entry'[r][i] = NoCmd
                           \/ \A i \in Slots : entry'[r][i] # NoCmd
                      ELSE \A i \in Slots :
                             entry'[r][i] # NoCmd <=> i \in Span(Size, fetched'[r], til'[r])
    BY DEF SubmissionRing
  <2>1. CASE r # q
    <3>1. til'[r] = til[r] /\ fetched'[r] = fetched[r] /\ entry'[r] = entry[r]
      BY <2>1, <1>1, <1>2
    <3> QED BY <3>1 DEF IInv, SubmissionRing
  <2>2. CASE r = q
    <3>1. til'[q] = til[q] /\ til[q] \in 0..(Size - 1) /\ fetched'[q] = (at + 1) % Size
      BY <1>1, <1>2 DEF Slots
    <3>2. \A i \in Slots : entry'[q][i] # NoCmd <=> i \in Span(Size, at, til[q]) /\ i # at
      BY <1>1, <1>6 DEF IInv, SubmissionRing
    <3>3. \A i \in Slots :
            i \in Span(Size, (at + 1) % Size, til[q]) <=> i \in Span(Size, at, til[q]) /\ i # at
      BY <1>1, <1>3, <3>1, SpanShrinks DEF Slots
    <3>4. (at + 1) % Size = til[q] => \A i \in Slots : i \notin Span(Size, (at + 1) % Size, til[q])
      BY <3>1 DEF Span, Slots
    <3> QED BY <2>2, <3>1, <3>2, <3>3, <3>4
  <2> QED BY <2>1, <2>2
<1>10. CompletionRing' /\ Phases'
  BY <1>1 DEF IInv, CompletionRing, Phases
<1>11. EntriesBelong'
  BY <1>1, <1>6, <1>7 DEF IInv, EntriesBelong
<1>12. FlightBelongs'
  <2>1. new.que = q /\ new.id = at /\ new.cmd = entry[q][at]
    OBVIOUS
  <2>2. \A c \in flight : c.que \in Ques /\ c.id \in Slots
    BY DEF IInv, Types
  <2>3. ASSUME NEW c \in flight' PROVE Belongs(c.que, c.id, c.cmd) /\ entry'[c.que][c.id] = NoCmd
    BY <1>1, <1>5, <1>6, <2>1, <2>2, <2>3 DEF IInv, FlightBelongs
  <2> QED BY <1>1, <2>3 DEF FlightBelongs, Belongs, Cmd
<1>13. CompletionsBelong' /\ CompletedOnce'
  <2>1. Unread' = Unread /\ \A k \in Unread : cmpl[k].id \in Slots
    BY <1>1 DEF Unread, Fresh, IInv, Types, Ring
  <2>2. ASSUME NEW k \in Unread
        PROVE  /\ cmpl[k].que \in Ques /\ Belongs(cmpl[k].que, cmpl[k].id, cmpl[k].cmd)'
               /\ entry'[cmpl[k].que][cmpl[k].id] = NoCmd
               /\ ~(new.que = cmpl[k].que /\ new.id = cmpl[k].id)
    BY <2>1, <1>1, <1>4, <1>6, <1>7 DEF IInv, CompletionsBelong
  <2> QED BY <1>1, <2>1, <2>2 DEF IInv, CompletionsBelong, CompletedOnce, Belongs
<1>14. SlotsHold' /\ HandHolds' /\ FinishedRight'
  BY <1>1 DEF IInv, SlotsHold, HandHolds, FinishedRight, Cmd
<1> QED BY <1>8, <1>9, <1>10, <1>11, <1>12, <1>13, <1>14 DEF IInv

(* The controller posts only while its tail does not catch up with the rung *)
(* head, so that it never overwrites what the handler has still to read.    *)
LEMMA CompleteStep ==
  ASSUME IInv, NEW q \in Ques, NEW i \in Slots, Complete(q, i) PROVE IInv'
<1> USE NVMeAssumption
<1> DEFINE done(c) == [phase |-> postPhase, que |-> q, id |-> i, cmd |-> c.cmd]
<1>1. PICK c \in flight :
        /\ c.que = q /\ c.id = i
        /\ (post + 1) % CmplSize # cmplDb
        /\ flight' = flight \ {c}
        /\ cmpl' = [cmpl EXCEPT ![post] = done(c)]
        /\ post' = (post + 1) % CmplSize
        /\ postPhase' = IF post' = 0 THEN 1 - postPhase ELSE postPhase
        /\ UNCHANGED <<til, reqSrc, entry, fetched, finished, res, waiting, gen>>
        /\ UNCHANGED <<hdr, phaseBit, cmplDb, hpc, req>>
  BY DEF Complete, host, hand
<1>2. /\ post \in Ring /\ hdr \in Ring /\ cmplDb \in Ring
      /\ postPhase \in {0, 1} /\ phaseBit \in {0, 1}
      /\ flight \subseteq [que : Ques, id : Slots, cmd : Cmds]
  BY DEF IInv, Types, TypeOK, Ring
<1>3. post' = (IF post = CmplSize - 1 THEN 0 ELSE post + 1) /\ post' \in Ring
  <2>1. (post + 1) % CmplSize = IF post = CmplSize - 1 THEN 0 ELSE post + 1
    BY <1>2, RingNext DEF Ring
  <2> QED BY <2>1, <1>1, <1>2 DEF Ring
<1>4. \A k \in Ring : cmpl'[k] = IF k = post THEN done(c) ELSE cmpl[k]
  BY <1>1, <1>2 DEF IInv, Types
<1>5. Belongs(q, i, c.cmd) /\ entry[q][i] = NoCmd
  BY <1>1 DEF IInv, FlightBelongs
<1>6. \A r \in Ques, j \in Slots : \A x : Belongs(r, j, x)' <=> Belongs(r, j, x)
  BY <1>1 DEF Belongs, Cmd
<1>7. post' # hdr
  BY <1>1, <1>2, <1>3 DEF IInv, CompletionRing, Ring
<1>8. \A k \in Ring : k \in Unread' <=> k \in Unread \/ k = post
  <2>1. \A k \in Ring : k \in Fresh' <=> k \in Fresh \/ k = post
    <3>1. Fresh' = Span(CmplSize, hdr, post')
      BY <1>1 DEF Fresh, Span
    <3> QED BY <1>2, <1>3, <1>7, <3>1, FreshSpan, SpanGrows DEF Ring
  <2>2. hpc = "finish" => hdr # post
    BY DEF IInv, HandHolds
  <2> QED BY <2>1, <2>2, <1>1 DEF Unread
<1>9. post \notin Unread /\ Unread \subseteq Ring /\ Unread' \subseteq Ring
  BY <1>1, <1>2 DEF Unread, Fresh, Ring
<1>10. Types'
  <2>1. done(c) \in [phase : {0, 1}, que : Ques \cup {None}, id : Slots, cmd : Cmds \cup {NoCmd}]
    BY <1>2
  <2>2. cmpl' \in [Ring -> [phase : {0, 1}, que : Ques \cup {None}, id : Slots,
                            cmd : Cmds \cup {NoCmd}]]
    BY <2>1, <1>1, <1>2 DEF IInv, Types
  <2>3. postPhase' \in {0, 1} /\ flight' \subseteq flight
    BY <1>1, <1>2
  <2> QED BY <1>1, <1>3, <2>2, <2>3 DEF IInv, Types, TypeOK
<1>11. SubmissionRing' /\ EntriesBelong'
  BY <1>1, <1>6 DEF IInv, SubmissionRing, EntriesBelong
<1>12. CompletionRing'
  BY <1>1, <1>2, <1>3 DEF IInv, CompletionRing, Ring
<1>13. Phases'
  <2>1. ASSUME NEW k \in Ring
        PROVE  cmpl'[k].phase = IF k < post' THEN postPhase' ELSE 1 - postPhase'
    <3>1. cmpl[k].phase = IF k < post THEN postPhase ELSE 1 - postPhase
      BY DEF IInv, Phases
    <3>2. cmpl'[k].phase = IF k = post THEN postPhase ELSE cmpl[k].phase
      BY <1>4
    <3> QED BY <3>1, <3>2, <1>1, <1>2, <1>3 DEF Ring
  <2>2. phaseBit' = IF hdr' <= post' THEN postPhase' ELSE 1 - postPhase'
    <3>1. phaseBit = IF hdr <= post THEN postPhase ELSE 1 - postPhase
      BY DEF IInv, Phases
    <3> QED BY <3>1, <1>1, <1>2, <1>3, <1>7 DEF Ring
  <2> QED BY <2>1, <2>2 DEF Phases
<1>14. FlightBelongs'
  BY <1>1, <1>2, <1>6 DEF IInv, FlightBelongs
<1>15. \A d \in flight' : ~(d.que = q /\ d.id = i)
  <2> SUFFICES ASSUME NEW d \in flight, d.que = q, d.id = i PROVE d = c
    BY <1>1
  <2>1. d.cmd = c.cmd
    BY <1>1, <1>5 DEF IInv, FlightBelongs, Belongs
  <2>2. c \in [que : Ques, id : Slots, cmd : Cmds] /\ d \in [que : Ques, id : Slots, cmd : Cmds]
    BY <1>2
  <2> QED BY <1>1, <2>1, <2>2
<1>16. \A k \in Unread : ~(cmpl[k].que = q /\ cmpl[k].id = i)
  BY <1>1 DEF IInv, CompletionsBelong
<1>17. CompletionsBelong'
  <2>1. ASSUME NEW k \in Unread', k # post
        PROVE  /\ cmpl'[k] = cmpl[k] /\ cmpl[k].que \in Ques /\ cmpl[k].id \in Slots
               /\ Belongs(cmpl[k].que, cmpl[k].id, cmpl[k].cmd)
               /\ entry[cmpl[k].que][cmpl[k].id] = NoCmd
               /\ \A d \in flight : ~(d.que = cmpl[k].que /\ d.id = cmpl[k].id)
    BY <2>1, <1>4, <1>8, <1>9 DEF IInv, CompletionsBelong, Types
  <2>2. post \in Unread' => cmpl'[post] = done(c)
    BY <1>2, <1>4
  <2> SUFFICES ASSUME NEW k \in Unread'
               PROVE  /\ cmpl'[k].que \in Ques
                      /\ Belongs(cmpl'[k].que, cmpl'[k].id, cmpl'[k].cmd)
                      /\ entry[cmpl'[k].que][cmpl'[k].id] = NoCmd
                      /\ \A d \in flight' : ~(d.que = cmpl'[k].que /\ d.id = cmpl'[k].id)
    BY <1>1 DEF CompletionsBelong, Belongs, Cmd
  <2>3. CASE k = post
    BY <2>2, <2>3, <1>1, <1>5, <1>15
  <2>4. CASE k # post
    BY <2>1, <2>4, <1>1
  <2> QED BY <2>3, <2>4
<1>18. CompletedOnce'
  BY <1>4, <1>8, <1>9, <1>16 DEF IInv, CompletedOnce
<1>19. SlotsHold' /\ HandHolds' /\ FinishedRight'
  BY <1>1, <1>7 DEF IInv, SlotsHold, HandHolds, FinishedRight, Cmd
<1> QED BY <1>10, <1>11, <1>12, <1>13, <1>14, <1>17, <1>18, <1>19 DEF IInv

-----------------------------------------------------------------------------
(* The interrupt handler                                                    *)

(* The handler begins.                                                      *)
LEMMA InterruptStep == ASSUME IInv, Interrupt PROVE IInv'
<1>1. /\ UNCHANGED <<til, reqSrc, entry, cmpl, finished, res, hdr, phaseBit, cmplDb, req>>
      /\ UNCHANGED <<fetched, flight, post, postPhase, waiting, gen>>
      /\ hpc = "off" /\ hpc' = "scan"
  BY DEF Interrupt, host, ctrl
<1>2. Types' /\ SubmissionRing' /\ CompletionRing' /\ Phases'
  BY <1>1 DEF IInv, Types, TypeOK, SubmissionRing, CompletionRing, Phases
<1>3. EntriesBelong' /\ FlightBelongs' /\ CompletionsBelong' /\ CompletedOnce'
  BY <1>1 DEF IInv, EntriesBelong, FlightBelongs, CompletionsBelong, CompletedOnce, Belongs, Cmd,
       Unread, Fresh
<1>4. SlotsHold' /\ HandHolds' /\ FinishedRight'
  BY <1>1 DEF IInv, SlotsHold, HandHolds, FinishedRight, Cmd
<1> QED BY <1>2, <1>3, <1>4 DEF IInv

(* The phase of an entry says whether the controller has posted it: the     *)
(* handler reads no entry of the round before.                              *)
LEMMA PhaseTells ==
  ASSUME IInv PROVE cmpl[hdr].phase = phaseBit <=> hdr # post
<1>1. hdr \in Ring /\ post \in Ring /\ postPhase \in {0, 1}
  BY DEF IInv, Types, TypeOK, Ring
<1>2. /\ cmpl[hdr].phase = IF hdr < post THEN postPhase ELSE 1 - postPhase
      /\ phaseBit = IF hdr <= post THEN postPhase ELSE 1 - postPhase
  BY <1>1 DEF IInv, Phases
<1> QED BY <1>1, <1>2, NVMeAssumption DEF Ring

(* The slot named by a completion holds the request it is for; no command   *)
(* and no other completion names that slot.                                 *)
LEMMA TakeReqStep == ASSUME IInv, TakeReq PROVE IInv'
<1> USE NVMeAssumption
<1> DEFINE e == cmpl[hdr]
           t == reqSrc[e.que][e.id]
<1>1. /\ hpc = "scan" /\ e.phase = phaseBit
      /\ req' = t /\ hpc' = "finish"
      /\ reqSrc' = [reqSrc EXCEPT ![e.que][e.id] = None]
      /\ res' = [res EXCEPT ![t] = e.cmd]
      /\ UNCHANGED <<til, entry, cmpl, finished, hdr, phaseBit, cmplDb>>
      /\ UNCHANGED <<fetched, flight, post, postPhase, waiting, gen>>
  BY DEF TakeReq, host, ctrl
<1>2. /\ hdr # post /\ hdr \in Ring /\ post \in Ring
      /\ reqSrc \in [Ques -> [Slots -> Tasks \cup {None}]]
      /\ res \in [Tasks -> Cmds \cup {NoCmd}] /\ gen \in [Tasks -> {0, 1}]
      /\ flight \subseteq [que : Ques, id : Slots, cmd : Cmds]
      /\ \A k \in Ring : cmpl[k].id \in Slots
  BY <1>1, PhaseTells DEF IInv, Types, TypeOK, Ring
<1>3. hdr \in Unread
  BY <1>1, <1>2 DEF Unread, Fresh, Ring
<1>4. /\ t = reqSrc[e.que][e.id]
      /\ e.que \in Ques /\ e.id \in Slots /\ t \in Tasks /\ e.cmd = Cmd(t)
      /\ entry[e.que][e.id] = NoCmd
      /\ \A c \in flight : ~(c.que = e.que /\ c.id = e.id)
  BY <1>2, <1>3 DEF IInv, CompletionsBelong, Belongs
<1>5. \A r \in Ques, i \in Slots :
        reqSrc'[r][i] = IF r = e.que /\ i = e.id THEN None ELSE reqSrc[r][i]
  BY <1>1, <1>2, <1>4
<1> HIDE DEF t, e
<1>6. \A r \in Ques, i \in Slots : \A c :
        ~(r = e.que /\ i = e.id) /\ Belongs(r, i, c) => Belongs(r, i, c)'
  BY <1>1, <1>5 DEF Belongs, Cmd
<1>7. Unread' = Unread \ {hdr} /\ Unread \subseteq Ring
  <2>1. Fresh' = Fresh /\ Fresh \subseteq Ring
    BY <1>1 DEF Fresh, Ring
  <2>2. hdr' = hdr /\ hpc # "finish" /\ hpc' = "finish"
    BY <1>1
  <2> QED BY <2>1, <2>2 DEF Unread
<1>8. t \in waiting \ finished
  BY <1>4 DEF IInv, SlotsHold
<1>9. res' \in [Tasks -> Cmds \cup {NoCmd}] /\ res'[t] = Cmd(t)
      /\ \A u \in Tasks \ {t} : res'[u] = res[u]
  BY <1>1, <1>2, <1>4 DEF Cmd, Cmds
<1>10. Types'
  <2>1. reqSrc' \in [Ques -> [Slots -> Tasks \cup {None}]]
    BY <1>1, <1>2, <1>4
  <2> QED BY <1>1, <1>4, <1>9, <2>1 DEF IInv, Types, TypeOK
<1>11. SubmissionRing' /\ CompletionRing' /\ Phases'
  BY <1>1 DEF IInv, SubmissionRing, CompletionRing, Phases
<1>12. EntriesBelong'
  BY <1>1, <1>4, <1>6 DEF IInv, EntriesBelong
<1>13. FlightBelongs'
  <2>1. ASSUME NEW c \in flight PROVE Belongs(c.que, c.id, c.cmd)' /\ entry'[c.que][c.id] = NoCmd
    BY <1>1, <1>2, <1>4, <1>6 DEF IInv, FlightBelongs
  <2> QED BY <2>1, <1>1 DEF FlightBelongs, Belongs
<1>14. CompletionsBelong'
  <2>1. ASSUME NEW k \in Unread, k # hdr
        PROVE  /\ cmpl[k].que \in Ques
               /\ Belongs(cmpl[k].que, cmpl[k].id, cmpl[k].cmd)'
               /\ entry[cmpl[k].que][cmpl[k].id] = NoCmd
               /\ \A c \in flight : ~(c.que = cmpl[k].que /\ c.id = cmpl[k].id)
    <3>1. ~(cmpl[k].que = e.que /\ cmpl[k].id = e.id)
      BY <2>1, <1>3 DEF e, IInv, CompletedOnce
    <3>2. cmpl[k].id \in Slots
      BY <2>1, <1>2, <1>7
    <3> QED BY <3>1, <3>2, <1>1, <1>6 DEF IInv, CompletionsBelong
  <2> QED BY <2>1, <1>1, <1>7 DEF CompletionsBelong, Belongs
<1>15. CompletedOnce'
  BY <1>1, <1>7 DEF IInv, CompletedOnce
<1>16. SlotsHold'
  <2>1. \A r \in Ques, i \in Slots : reqSrc'[r][i] # None =>
          reqSrc'[r][i] \in waiting' \ finished' /\ reqSrc'[r][i] # req'
    BY <1>1, <1>2, <1>4, <1>5 DEF IInv, SlotsHold
  <2>2. \A r, s \in Ques, i, j \in Slots :
          reqSrc'[r][i] # None /\ reqSrc'[r][i] = reqSrc'[s][j] => r = s /\ i = j
    BY <1>5 DEF IInv, SlotsHold
  <2>3. ASSUME NEW u \in waiting' \ finished', u # t
        PROVE  \E r \in Ques, i \in Slots : reqSrc'[r][i] = u
    <3>1. u \in Tasks /\ req = None
      BY <2>3, <1>1 DEF IInv, HandHolds, Types, TypeOK
    <3>2. PICK r \in Ques, i \in Slots : reqSrc[r][i] = u
      BY <2>3, <3>1, <1>1 DEF IInv, SlotsHold
    <3>3. reqSrc'[r][i] = u
      BY <3>2, <2>3, <1>4, <1>5
    <3> QED BY <3>3
  <2> QED BY <2>1, <2>2, <2>3, <1>1 DEF SlotsHold
<1>17. HandHolds'
  BY <1>1, <1>2, <1>8, <1>9 DEF HandHolds, Cmd
<1>18. FinishedRight'
  BY <1>1, <1>8, <1>9 DEF IInv, FinishedRight, Cmd, Types, TypeOK
<1> QED BY <1>10, <1>11, <1>12, <1>13, <1>14, <1>15, <1>16, <1>17, <1>18 DEF IInv

(* The request whose completion was copied is finished; the head moves on.  *)
LEMMA FinishReqStep == ASSUME IInv, FinishReq PROVE IInv'
<1> USE NVMeAssumption
<1>1. /\ hpc = "finish" /\ hpc' = "scan" /\ req' = None
      /\ finished' = finished \cup {req}
      /\ cmpl' = [cmpl EXCEPT ![hdr] = Dead(cmpl[hdr].phase)]
      /\ hdr' = (hdr + 1) % CmplSize
      /\ phaseBit' = IF hdr' = 0 THEN 1 - phaseBit ELSE phaseBit
      /\ UNCHANGED <<til, reqSrc, entry, res, cmplDb>>
      /\ UNCHANGED <<fetched, flight, post, postPhase, waiting, gen>>
  BY DEF FinishReq, host, ctrl, IInv, Types, TypeOK, Ring
<1>2. /\ hdr \in Ring /\ post \in Ring /\ cmplDb \in Ring /\ hdr # post
      /\ postPhase \in {0, 1} /\ phaseBit \in {0, 1}
  BY <1>1 DEF IInv, Types, TypeOK, Ring, HandHolds
<1>3. hdr' = (IF hdr = CmplSize - 1 THEN 0 ELSE hdr + 1) /\ hdr' \in Ring
  <2>1. (hdr + 1) % CmplSize = IF hdr = CmplSize - 1 THEN 0 ELSE hdr + 1
    BY <1>2, RingNext DEF Ring
  <2> QED BY <2>1, <1>1, <1>2 DEF Ring
<1>4. \A k \in Ring : /\ k # hdr => cmpl'[k] = cmpl[k]
                      /\ cmpl'[k].phase = cmpl[k].phase
  BY <1>1, <1>2 DEF IInv, Types, Dead
<1>5. Unread' = Unread /\ hdr \notin Unread /\ Unread \subseteq Ring
  <2>1. \A k \in Ring : k \in Span(CmplSize, hdr', post) <=> k \in Span(CmplSize, hdr, post) /\ k # hdr
    BY <1>2, <1>3, SpanShrinks DEF Ring
  <2>2. Fresh' = Span(CmplSize, hdr', post)
    BY <1>1 DEF Fresh, Span
  <2>3. Fresh \subseteq Ring /\ Fresh' \subseteq Ring
    BY DEF Fresh, Ring
  <2> QED BY <2>1, <2>2, <2>3, <1>1, FreshSpan DEF Unread
<1>6. req \in waiting \ finished /\ res[req] = Cmd(req)
  BY <1>1 DEF IInv, HandHolds
<1>7. Types'
  <2>1. Dead(cmpl[hdr].phase) \in [phase : {0, 1}, que : Ques \cup {None}, id : Slots,
                                   cmd : Cmds \cup {NoCmd}]
    BY <1>2 DEF Dead, Slots, IInv, Types
  <2>2. cmpl' \in [Ring -> [phase : {0, 1}, que : Ques \cup {None}, id : Slots,
                            cmd : Cmds \cup {NoCmd}]]
    BY <2>1, <1>1, <1>2 DEF IInv, Types
  <2>3. phaseBit' \in {0, 1} /\ finished' \subseteq Tasks
    BY <1>1, <1>2, <1>6 DEF IInv, Types, TypeOK
  <2> QED BY <1>1, <1>3, <2>2, <2>3 DEF IInv, Types, TypeOK, Ring
<1>8. SubmissionRing' /\ EntriesBelong' /\ FlightBelongs'
  BY <1>1 DEF IInv, SubmissionRing, EntriesBelong, FlightBelongs, Belongs, Cmd
<1>9. CompletionRing'
  BY <1>1, <1>2, <1>3 DEF IInv, CompletionRing, Ring
<1>10. Phases'
  <2>1. phaseBit = IF hdr <= post THEN postPhase ELSE 1 - postPhase
    BY DEF IInv, Phases
  <2>2. phaseBit' = IF hdr' <= post THEN postPhase ELSE 1 - postPhase
    <3>1. CASE hdr = CmplSize - 1
      <4>1. hdr' = 0 /\ 0 <= post /\ ~(hdr <= post)
        BY <3>1, <1>2, <1>3 DEF Ring
      <4>2. phaseBit = 1 - postPhase /\ phaseBit' = 1 - phaseBit
        BY <4>1, <2>1, <1>1
      <4> QED BY <4>1, <4>2, <1>2
    <3>2. CASE hdr # CmplSize - 1
      <4>1. hdr' = hdr + 1 /\ hdr \in Nat /\ post \in Nat
        BY <3>2, <1>2, <1>3 DEF Ring
      <4>2. hdr' # 0 /\ (hdr' <= post <=> hdr <= post)
        BY <4>1, <1>2
      <4>3. phaseBit' = phaseBit
        BY <4>2, <1>1
      <4> QED BY <4>2, <4>3, <2>1
    <3> QED BY <3>1, <3>2
  <2>3. \A k \in Ring : cmpl[k].phase = IF k < post THEN postPhase ELSE 1 - postPhase
    BY DEF IInv, Phases
  <2>4. \A k \in Ring : cmpl'[k].phase = cmpl[k].phase
    BY <1>4
  <2> QED BY <2>2, <2>3, <2>4, <1>1 DEF Phases
<1>11. CompletionsBelong' /\ CompletedOnce'
  <2>1. \A k \in Unread : cmpl'[k] = cmpl[k]
    BY <1>4, <1>5
  <2> QED BY <2>1, <1>1, <1>5 DEF IInv, CompletionsBelong, CompletedOnce, Belongs, Cmd
<1>12. SlotsHold'
  <2>1. \A r \in Ques, i \in Slots : reqSrc'[r][i] # None =>
          reqSrc'[r][i] \in waiting' \ finished' /\ reqSrc'[r][i] # req'
    BY <1>1 DEF IInv, SlotsHold
  <2>2. \A u \in waiting' \ finished' :
          req' = u \/ \E r \in Ques, i \in Slots : reqSrc'[r][i] = u
    BY <1>1 DEF IInv, SlotsHold
  <2> QED BY <2>1, <2>2, <1>1 DEF IInv, SlotsHold
<1>13. HandHolds' /\ FinishedRight'
  BY <1>1, <1>6 DEF IInv, HandHolds, FinishedRight, Cmd
<1> QED BY <1>7, <1>8, <1>9, <1>10, <1>11, <1>12, <1>13 DEF IInv

(* The handler ends: the head is rung, and the controller may post up to it.*)
LEMMA HandlerEndStep == ASSUME IInv, HandlerEnd PROVE IInv'
<1>1. /\ UNCHANGED <<til, reqSrc, entry, cmpl, finished, res, hdr, phaseBit, req>>
      /\ UNCHANGED <<fetched, flight, post, postPhase, waiting, gen>>
      /\ hpc = "scan" /\ hpc' = "off" /\ cmplDb' \in {hdr, cmplDb}
  BY DEF HandlerEnd, Rung, host, ctrl
<1>2. hdr \in Ring /\ post \in Ring /\ cmplDb \in Ring
  BY DEF IInv, Types, TypeOK, Ring
<1>3. Types' /\ SubmissionRing' /\ Phases'
  BY <1>1 DEF IInv, Types, TypeOK, SubmissionRing, Phases
<1>4. CompletionRing'
  BY <1>1, <1>2, NVMeAssumption DEF IInv, CompletionRing, Ring
<1>5. EntriesBelong' /\ FlightBelongs' /\ CompletionsBelong' /\ CompletedOnce'
  BY <1>1 DEF IInv, EntriesBelong, FlightBelongs, CompletionsBelong, CompletedOnce, Belongs, Cmd,
       Unread, Fresh
<1>6. SlotsHold' /\ HandHolds' /\ FinishedRight'
  BY <1>1 DEF IInv, SlotsHold, HandHolds, FinishedRight, Cmd
<1> QED BY <1>3, <1>4, <1>5, <1>6 DEF IInv

-----------------------------------------------------------------------------
(* Theorems                                                                 *)

(* Queues, slots, identifiers and phases agree, whatever tasks, handler and *)
(* controller do, and in whatever order commands are completed.             *)
THEOREM Inductive == Spec => []IInv
<1>1. IInv /\ [Next]_vars => IInv'
  <2> SUFFICES ASSUME IInv, [Next]_vars PROVE IInv'
    OBVIOUS
  <2>1. CASE UNCHANGED vars
    <3> USE <2>1 DEF vars, host, ctrl, hand
    <3>1. Types' /\ SubmissionRing' /\ CompletionRing' /\ Phases'
      BY DEF IInv, Types, TypeOK, SubmissionRing, CompletionRing, Phases
    <3>2. EntriesBelong' /\ FlightBelongs' /\ CompletionsBelong' /\ CompletedOnce'
      BY DEF IInv, EntriesBelong, FlightBelongs, CompletionsBelong, CompletedOnce, Belongs, Cmd,
           Unread, Fresh
    <3>3. SlotsHold' /\ HandHolds' /\ FinishedRight'
      BY DEF IInv, SlotsHold, HandHolds, FinishedRight, Cmd
    <3> QED BY <3>1, <3>2, <3>3 DEF IInv
  <2>2. CASE \E t \in Tasks : Return(t) \/ \E q \in Ques : InsReq(t, q)
    BY <2>2, ReturnStep, InsReqStep
  <2>3. CASE \E q \in Ques : Fetch(q) \/ \E i \in Slots : Complete(q, i)
    BY <2>3, FetchStep, CompleteStep
  <2>4. CASE Handler
    BY <2>4, InterruptStep, TakeReqStep, FinishReqStep, HandlerEndStep DEF Handler
  <2> QED BY <2>1, <2>2, <2>3, <2>4 DEF Next
<1> QED BY InitIInv, <1>1, PTL DEF Spec

(* OwnResult for any number of tasks and queues and rings of any size: a    *)
(* request whose waiting ends has the completion of its own, latest         *)
(* command, and one that waits is in one slot or in the handler's hands.    *)
THEOREM RequestGetsItsOwn == Spec => []OwnResult
<1>1. IInv => OwnResult
  <2> SUFFICES ASSUME IInv PROVE OwnResult
    OBVIOUS
  <2> USE NVMeAssumption
  <2> DEFINE held(t) == {s \in Ques \X Slots : reqSrc[s[1]][s[2]] = t}
  <2>1. ASSUME NEW t \in Tasks
        PROVE  Cardinality(held(t)) + (IF req = t THEN 1 ELSE 0)
                 = IF t \in waiting \ finished THEN 1 ELSE 0
    <3>1. CASE \E q \in Ques, i \in Slots : reqSrc[q][i] = t
      <4>1. PICK q \in Ques, i \in Slots : reqSrc[q][i] = t
        BY <3>1
      <4>2. held(t) = {<<q, i>>}
        BY <4>1 DEF IInv, SlotsHold
      <4>3. Cardinality(held(t)) = 1
        BY <4>2, FS_Singleton
      <4>4. t \in waiting \ finished /\ req # t
        BY <4>1 DEF IInv, SlotsHold
      <4> QED BY <4>3, <4>4
    <3>2. CASE ~\E q \in Ques, i \in Slots : reqSrc[q][i] = t
      <4>1. held(t) = {}
        BY <3>2
      <4>2. Cardinality(held(t)) = 0
        BY <4>1, FS_EmptySet
      <4>3. req = t <=> t \in waiting \ finished
        BY <3>2 DEF IInv, SlotsHold, HandHolds
      <4> QED BY <4>2, <4>3
    <3> QED BY <3>1, <3>2
  <2>2. OneSlot
    BY <2>1 DEF OneSlot, IInv, Types
  <2> QED BY <2>2 DEF OwnResult, IInv, FinishedRight
<1> QED BY Inductive, <1>1, PTL
=============================================================================
