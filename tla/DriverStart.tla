----------------------------- MODULE DriverStart -----------------------------
(***************************************************************************)
(* HW_initAdvance: the devices HW_PCIe_init found are given to their       *)
(* drivers, which take interrupt vectors, program the devices' messages    *)
(* (MSI-X or MSI), register the handlers and set up what the interrupts    *)
(* serve: event tasks (XHCI), namespaces and their queues (NVMe).          *)
(*                                                                         *)
(* A function of the bus is a record: class, the messages it has (msix,    *)
(* msi; 0: no such capability), whether it passes the driver's checks      *)
(* (fit), intrs, the XHCI's interrupters, nsp, the NVMe's namespaces, and  *)
(* fails, the number of the first admin command it refuses (0: none).      *)
(***************************************************************************)
EXTENDS Processors

CONSTANTS XhciIntrs,  \* 4, the most interrupters enabled
          NvmeIntrs   \* 8, the most vectors of an NVMe device

Less(a, b) == IF a < b THEN a ELSE b

(* _chkDev, _chkFunc: a slot is <<multi-function?, its functions>>.         *)
FuncsOf(slot) == CASE slot.func[1].class = "absent" -> <<>>
                   [] slot.func[1].class # "absent" /\ ~slot.multi -> <<slot.func[1]>>
                   [] OTHER -> slot.func
MgrList(slots) ==
  LET listed(fn) == fn.class \notin {"absent", "bridge"}
      functions(i) == LET fs == FuncsOf(slots[i])
                      IN  [k \in DOMAIN fs |-> [id |-> <<i, k>>, fn |-> fs[k]]]
      all == FlattenSeq([i \in DOMAIN slots |-> functions(i)])
  IN  SelectSeq(all, LAMBDA d : listed(d.fn))

(* The state of the start: the processors; each one's handlers by vector;  *)
(* the messages programmed into devices; the XHCI hosts; who was refused   *)
(* for want of vectors; the NVMe queues made and the disks registered.     *)
(* broken: nothing more is known.                                          *)
NoIntr == <<>>
NoneStarted(cpus) == [cpus |-> cpus, msg |-> {}, hosts |-> {}, refused |-> {}, disks |-> {}, queues |-> {}, broken |-> FALSE,
                 intrDesc |-> [c \in DOMAIN cpus |-> [v \in Spare |-> NoIntr]]]

(* HW_PCIe_MSI(X)_setMsgAddr/Data, HW_PCIe_MSI_initDesc and setIntr         *)
SetIntrHere(s, d, i, cpu, vec) ==    \* a faulty variant: on the processor that runs the driver
  [s EXCEPT !.msg = @ \union {[id |-> d.id, intr |-> i, apic |-> s.cpus[cpu].apic, vec |-> vec]},
            !.intrDesc[1][vec] = <<d.id, i>>]
SetIntr(s, d, i, cpu, vec) ==
  [s EXCEPT !.msg = @ \union {[id |-> d.id, intr |-> i, apic |-> s.cpus[cpu].apic, vec |-> vec]},
            !.intrDesc[cpu][vec] = <<d.id, i>>]
Refuse(s, d, num) == [s EXCEPT !.refused = @ \union {[id |-> d.id, num |-> num]}]

(* MSI-X: a vector each, on the processors in turn                          *)
MSIX(s, d, num) ==
  LET take(t, i) ==
        IF t.at = 0 THEN t
        ELSE LET a == AllocIntrVec(t.s.cpus, 1, t.at)
             IN  IF a.cpu = 0 THEN [s |-> Refuse(t.s, d, 1), at |-> 0]
                 ELSE [s |-> SetIntr([t.s EXCEPT !.cpus = a.cpus], d, i, a.cpu, a.vec),
                       at |-> (a.cpu % Len(s.cpus)) + 1]
  IN  FoldLeft(take, [s |-> s, at |-> 1], [k \in 1..num |-> k - 1]).s

(* MSI: consecutive vectors on one processor                                *)
MSI(s, d, num) ==
  LET a == AllocIntrVec(s.cpus, num, 1)
  IN  IF a.cpu = 0 THEN Refuse(s, d, num)
      ELSE FoldLeft(LAMBDA t, i : SetIntr(t, d, i, a.cpu, a.vec + i),
                    [s EXCEPT !.cpus = a.cpus], [k \in 1..num |-> k - 1])

WasRefused(s, d) == \E r \in s.refused : r.id = d.id

(* HW_USB_XHCI_init                                                         *)
XhciVectors(fn) ==    \* MSI-X has one more than the interrupters
  IF fn.msix > 0 THEN Less(fn.msix, Less(XhciIntrs, fn.intrs) + 1)
  ELSE Less(Less(XhciIntrs, fn.intrs), fn.msi)
(* the interrupters of each event task, as many as there were to be          *)
EventTasks(fn, enabled) ==
  LET tasks == Less(XhciIntrs, fn.intrs)
      each == enabled \div tasks
  IN  [k \in 1..tasks |-> (each * (k - 1))..(each * k - 1)]
XhciInit(s, d) ==
  LET fn == d.fn
      enabled == IF fn.msix > 0 THEN Less(XhciIntrs, fn.intrs) ELSE XhciVectors(fn)
      t == IF fn.msix > 0 THEN MSIX(s, d, XhciVectors(fn)) ELSE MSI(s, d, XhciVectors(fn))
  IN  IF ~fn.fit \/ (fn.msix = 0 /\ fn.msi = 0) THEN s
      ELSE IF WasRefused(t, d) THEN t
      ELSE [t EXCEPT !.hosts = @ \union
              {[id |-> d.id, enabled |-> enabled, tasks |-> EventTasks(fn, enabled)]}]

(* HW_NVMe_initDevice after the vectors: the list of namespaces, then, for  *)
(* each, its description, its queues and the disk, until a command fails.   *)
(* queues are those the device has; a submission queue names the completion *)
(* queue it completes into, and that one its interrupt.                     *)
Commands(i) == <<[at |-> i],
                 [cmpl |-> i, vec |-> i],
                 [subm |-> 2 * i, to |-> i],
                 [subm |-> 2 * i + 1, to |-> i]>>
NvmeQueues(s, d) ==
  LET fails == d.fn.fails
      done(i) == fails = 0 \/ fails > 1 + 4 * i
      sent == FlattenSeq(<< <<[at |-> 0]>> >> \o [i \in 1..d.fn.nsp |-> Commands(i)])
      kept == SubSeq(sent, 1, IF fails = 0 THEN Len(sent) ELSE Less(fails - 1, Len(sent)))
  IN  [s EXCEPT !.queues = @ \union {[id |-> d.id, of |-> q] : q \in ToSet(kept)},
                !.disks = @ \union {[id |-> d.id, submQue |-> {2 * i, 2 * i + 1}] :
                                    i \in {n \in 1..d.fn.nsp : done(n)}}]
NvmeInit(s, d) ==
  LET fn == d.fn
      t == IF fn.msix > 0 THEN MSIX(s, d, Less(NvmeIntrs, fn.msix))
           ELSE MSI(s, d, Less(NvmeIntrs, fn.msi))
  IN  IF ~fn.fit \/ (fn.msix = 0 /\ fn.msi = 0) THEN s
      ELSE IF WasRefused(t, d) THEN [t EXCEPT !.broken = fn.msix = 0]  \* MSI: goes on with processor -1
      ELSE NvmeQueues(t, d)

(* HW_USB_init and HW_NVMe_init: the list's functions of their classes       *)
OfClass(list, class) == SelectSeq(list, LAMBDA d : d.fn.class = class)
UsbInit(s, list) == FoldLeft(XhciInit, s, OfClass(list, "xhci"))
NvmeInitAll(s, list) ==
  FoldLeft(LAMBDA t, d : IF t.broken THEN t ELSE NvmeInit(t, d), s, OfClass(list, "nvme"))
InitAdvance(cpus, slots) ==
  NvmeInitAll(UsbInit(NoneStarted(cpus), MgrList(slots)), MgrList(slots))

(* HW_PCIe_MSI_dispatcher on the processor a message addresses              *)
Dispatched(s, m) == {s.intrDesc[c][m.vec] : c \in {k \in DOMAIN s.cpus : s.cpus[k].apic = m.apic}}

-----------------------------------------------------------------------------
(* Every message of every device reaches its own handler, with its own      *)
(* number, on the one processor it addresses, and through a vector that     *)
(* was allocated; a device is refused only when no processor has the        *)
(* vectors; every interrupter of a started XHCI has one event task; every   *)
(* disk has its queues, and the interrupt of their completions is the one   *)
(* whose handler looks there; no fit function of the bus is passed over.    *)
(* (SMP_allocIntrVec, HW_USB_XHCI_init, HW_NVMe_initDevice.)  An XHCI with  *)
(* fewer MSI vectors than interrupters gets event tasks without events.     *)
Present(slots) ==
  {<<i, k>> \in UNION {{i} \X DOMAIN slots[i].func : i \in DOMAIN slots} :
     /\ slots[i].func[k].class # "absent" /\ slots[i].func[1].class # "absent"
     /\ slots[i].multi \/ k = 1}
FewMsi(fn) == fn.msix = 0 /\ fn.msi < Less(XhciIntrs, fn.intrs)
MessagesReach(s) ==
  /\ \A m \in s.msg : Dispatched(s, m) = {<<m.id, m.intr>>}
  /\ \A c \in DOMAIN s.cpus, v \in Spare : (v \in s.cpus[c].intrMsk) = (s.intrDesc[c][v] # NoIntr)
RefusedForWant(s) ==
  \A r \in s.refused : ~\E c \in DOMAIN s.cpus, v \in Spare :
    v..(v + r.num - 1) \subseteq Spare \ s.cpus[c].intrMsk
EventsServed(s, fnOf(_)) ==
  \A h \in s.hosts : FewMsi(fnOf(h.id)) \/
    \A i \in 0..(h.enabled - 1) : Cardinality({k \in DOMAIN h.tasks : i \in h.tasks[k]}) = 1
DisksAnswered(s) ==
  \A disk \in s.disks : \A n \in disk.submQue :
    \E q, c \in {k.of : k \in {x \in s.queues : x.id = disk.id}} :
      /\ "subm" \in DOMAIN q /\ q.subm = n /\ "cmpl" \in DOMAIN c /\ q.to = c.cmpl
      /\ c.vec = c.cmpl        \* the handler of message n looks at cmplQue[n]
DevicesReach(cpus, slots) ==
  LET s == InitAdvance(cpus, slots)
      fnOf(id) == slots[id[1]].func[id[2]]
      fitting == {id \in Present(slots) : /\ fnOf(id).class \in {"xhci", "nvme"} /\ fnOf(id).fit
                                          /\ fnOf(id).msix + fnOf(id).msi > 0}
  IN  s.broken \/ /\ MessagesReach(s) /\ RefusedForWant(s)
                  /\ EventsServed(s, fnOf) /\ DisksAnswered(s)
                  /\ {m.id : m \in s.msg} \union {r.id : r \in s.refused} = fitting
==============================================================================
