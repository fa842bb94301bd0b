----------------------------- MODULE Processors ------------------------------
(***************************************************************************)
(* The table of processors of smp/smp.c: what _parseMADT makes of the      *)
(* firmware's list, the search of SMP_getCurCPUIndex in it, and each       *)
(* processor's interrupt vectors.  All of it runs on the boot processor    *)
(* alone.                                                                  *)
(***************************************************************************)
EXTENDS Integers, Sequences, SequencesExt, FiniteSetsExt

CONSTANTS Vectors,            \* 0x100
          SpareSt, SpareNum,  \* 0x40 and 0x40: the vectors for devices
          FirstTr             \* 12, the first free entry of the GDT

Spare == SpareSt..(SpareSt + SpareNum - 1)

(* SMP_registerCPU.  The boot processor keeps the task register it has.    *)
MaskIntr(mask, st, num) == mask \union st..(st + num - 1)
FirstMask == MaskIntr(MaskIntr({}, 0, SpareSt), SpareSt + SpareNum, Vectors - SpareSt - SpareNum)
RegisterCPU(bsp, cpus, x2, apic) ==
  Append(cpus, [x2 |-> x2, apic |-> apic, intrMsk |-> FirstMask,
                tr |-> IF x2 = bsp THEN 0
                       ELSE FirstTr + 2 * Cardinality({i \in DOMAIN cpus : cpus[i].x2 # bsp})])

(* _parseMADT: the entries of type 9, then those of type 0 nobody has named *)
ParseType9(bsp, madt) ==
  LET entry(cpus, e) == IF e.type = 9 /\ e.on THEN RegisterCPU(bsp, cpus, e.id, e.apic) ELSE cpus
  IN  FoldLeft(entry, <<>>, madt)
ParseType0Again(bsp, madt, start) ==  \* a faulty variant: registers those of type 9 again
  LET entry(cpus, e) == IF e.type = 0 /\ e.on THEN RegisterCPU(bsp, cpus, e.apic, e.apic) ELSE cpus
  IN  FoldLeft(entry, start, madt)
ParseType0(bsp, madt, start) ==
  LET entry(cpus, e) == IF e.type = 0 /\ e.on /\ \A i \in DOMAIN cpus : cpus[i].apic # e.apic
                        THEN RegisterCPU(bsp, cpus, e.apic, e.apic) ELSE cpus
  IN  FoldLeft(entry, start, madt)
Sorted(cpus) ==         \* the bubble sort
  LET swap(t, j) == IF t[j].x2 > t[j + 1].x2 THEN [t EXCEPT ![j] = t[j + 1], ![j + 1] = t[j]] ELSE t
      pass(t, i) == FoldLeft(swap, t, [j \in 1..(Len(t) - i) |-> j])
  IN  FoldLeft(pass, cpus, [i \in DOMAIN cpus |-> i])
Cpus(bsp, madt) == Sorted(ParseType0(bsp, madt, ParseType9(bsp, madt)))
BspIdx(bsp, cpus) ==
  LET at == {i \in DOMAIN cpus : cpus[i].x2 = bsp}
  IN  IF at = {} THEN 1 ELSE Min(at)

(* _cvtId, by halves; the table's first index is 1 here, and 0 means none.  *)
CvtId(cpus, x2) ==
  LET search[l \in 1..(Len(cpus) + 1), r \in 0..Len(cpus)] ==
        LET mid == (l + r) \div 2
        IN  CASE l > r -> 0
              [] l <= r /\ cpus[mid].x2 = x2 -> mid
              [] l <= r /\ cpus[mid].x2 < x2 -> search[mid + 1, r]
              [] l <= r /\ cpus[mid].x2 > x2 -> search[l, mid - 1]
  IN  search[1, Len(cpus)]

(* SMP_testIntr (-1: all free) and SMP_allocIntrVec (cpu 0: refused)        *)
TestIntr(mask, st, num) ==
  IF \E i \in st..(st + num - 1) : i \in mask THEN Min(mask \intersect st..(st + num - 1)) ELSE -1
Fits(mask, num) == {st \in 0..(Vectors - num) : TestIntr(mask, st, num) = -1}
AllocIntrVec(cpus, num, cpuSt) ==
  LET order == [i \in DOMAIN cpus |-> ((cpuSt + i - 2) % Len(cpus)) + 1]
      fit == {i \in DOMAIN cpus : Fits(cpus[order[i]].intrMsk, num) # {}}
  IN  IF fit = {} THEN [cpu |-> 0, vec |-> 0, cpus |-> cpus]
      ELSE LET cpu == order[Min(fit)]
               vec == Min(Fits(cpus[cpu].intrMsk, num))
           IN  [cpu |-> cpu, vec |-> vec,
                cpus |-> [cpus EXCEPT ![cpu].intrMsk = MaskIntr(@, vec, num)]]

(* Every processor that can be enabled is in the table once, whichever list *)
(* names it and in whatever order; each finds itself and only itself there, *)
(* the boot processor too; no two share a task register; the free vectors   *)
(* are the spare ones.  (SMP_registerCPU, _parseMADT, _cvtId.)  Type 9's    *)
(* fourth field, which the code takes for the APIC number, is the number.   *)
TableSound(bsp, madt) ==
  LET cpus == Cpus(bsp, madt)
      ids == {madt[i].id : i \in {k \in DOMAIN madt : madt[k].on}}
  IN  /\ Len(cpus) = Cardinality(ids)
      /\ \A id \in ids : cpus[CvtId(cpus, id)].x2 = id
      /\ \A id \in (0..Vectors) \ ids : CvtId(cpus, id) = 0
      /\ bsp \in ids => BspIdx(bsp, cpus) = CvtId(cpus, bsp)
      /\ \A i, j \in DOMAIN cpus : i # j => cpus[i].tr # cpus[j].tr
      /\ \A i \in DOMAIN cpus : 0..(Vectors - 1) \ cpus[i].intrMsk = Spare
==============================================================================
