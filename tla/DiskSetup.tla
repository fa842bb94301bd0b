------------------------------ MODULE DiskSetup ------------------------------
(***************************************************************************)
(* What task0 does with each disk at boot: FS_GPT_scan registers the       *)
(* partitions, FS_JRFS_mkfs formats each of them, which ends in            *)
(* FS_GPT_updParInfo.  A disk is [hdr, entries, lba]: the header, the      *)
(* entries of its table and the contents of its sectors, whose numbers     *)
(* start at 0.  The contents are names for what was written last.          *)
(***************************************************************************)
EXTENDS Integers, Sequences, FiniteSets, SequencesExt

CONSTANTS
  LbaShift, EntriesPerLba, PageLbas,  \* 9, 4, 8 sectors per page
  BlkPages, DescPagesPerBlk,  \* FS_JRFS_PagePreBlk, FS_JRFS_PgDescSzPreBlk
  BmPagesPerBlk,              \* FS_JRFS_BmSzPreBlk
  MinLbas                     \* Page_1GSize / 512

LbaSize == 2^LbaShift
Sectors(d) == DOMAIN d.lba

(* HW_NVMe_read and HW_NVMe_write refuse what is not aligned or not there.  *)
Refused(d, pos, size) ==
  \/ pos % LbaSize # 0 \/ size % LbaSize # 0
  \/ pos + size > Cardinality(Sectors(d)) * LbaSize

Write(d, lba, n, what) ==
  IF Refused(d, lba * LbaSize, n * LbaSize) THEN d
  ELSE [d EXCEPT !.lba = [s \in DOMAIN @ |-> IF s \in lba..(lba + n - 1) THEN what ELSE @[s]]]
(* FS_writePage, for a set of pages of a partition                          *)
WritePages(d, part, pages, what) ==
  FoldLeft(LAMBDA e, p : Write(e, part.st + p * PageLbas, PageLbas, what), d, SetToSortSeq(pages, <))

-----------------------------------------------------------------------------
(* FS_GPT_scan: the partitions in the order in which they are registered.   *)
(* Whole sectors of entries are read; a sector that cannot be read ends the *)
(* scan with what was registered so far.                                    *)
Scan(d) ==
  LET whole == d.hdr.parNum \div EntriesPerLba
      readable == {i \in 0..whole : \A j \in 0..(i - 1) :
                     ~Refused(d, LbaSize * (j + 2), LbaSize)}
      n == CHOOSE i \in readable : \A j \in readable : j <= i
      used == SelectSeq(SubSeq(d.entries, 1, n * EntriesPerLba), LAMBDA e : e.st # 0)
  IN  IF Refused(d, LbaSize, LbaSize) \/ ~d.hdr.signed THEN <<>> ELSE used

(* FS_GPT_updParInfo.  The sector it looks at first is the first that       *)
(* partitions may use, read with a wrong scale; its first entry's GUID      *)
(* differs from the new one, which the test takes for a hit; and it is      *)
(* written with the partition's type and name.                              *)
UpdParInfoNext(d) ==            \* a faulty variant: the sector behind it
  Write(d, d.hdr.firLba + 1, 1, "entry")
UpdParInfo(d) ==
  IF d.hdr.firLba > d.hdr.lstLba THEN d ELSE Write(d, d.hdr.firLba, 1, "entry")

-----------------------------------------------------------------------------
(* FS_JRFS_mkfs                                                             *)
BlkNum(part) == (part.ed - part.st + 1) \div (BlkPages * PageLbas)
RootEntryOff == 2       \* a page and the root descriptor, in whole pages
PgDescOff == RootEntryOff + 1
PgDescSz(part) == DescPagesPerBlk * BlkNum(part)
PgBmOff(part) == PgDescOff + PgDescSz(part)
PgBmSz(part)  == BmPagesPerBlk * BlkNum(part)
FirDtBlk(part) == (PgBmOff(part) + PgBmSz(part) + BlkPages - 1) \div BlkPages
RootDesc(part) == <<BlkNum(part), PgDescOff, PgBmOff(part), FirDtBlk(part)>>

(* The pages from one number to below another                               *)
Run(from, to) == from..(to - 1)
(* A table with n pages for each block: system blocks, then data blocks     *)
WriteTable(d, part, off, n, sys, data) ==
  WritePages(WritePages(d, part, Run(off, off + FirDtBlk(part) * n), sys),
             part, Run(off + FirDtBlk(part) * n, off + BlkNum(part) * n), data)

Mkfs(d, part) ==
  IF part.ed - part.st <= MinLbas THEN d
  ELSE LET root == WritePages(d, part, {0}, RootDesc(part))
           zero == WritePages(root, part, {PgDescOff}, "zero")
           desc == WriteTable(zero, part, PgDescOff, DescPagesPerBlk, "sysDesc", "freeDesc")
           bits == WriteTable(desc, part, PgBmOff(part), BmPagesPerBlk, "ones", "zeros")
       IN  UpdParInfo(bits)

Setup(d) == FoldLeft(Mkfs, d, Scan(d))

-----------------------------------------------------------------------------
(* What a partition holds at a page, if all its sectors hold the same       *)
At(d, part, page) == {d.lba[part.st + page * PageLbas + i] : i \in 0..(PageLbas - 1)}

(* A formatted partition: the root descriptor tells where its tables are, they  *)
(* do not meet, have a page or more for every block, and say of every block     *)
(* that it is in use exactly if a table or the root lies in it.                 *)
Formatted(d, part) ==
  LET r == RootDesc(part)
      desc(b) == Run(r[2] + b * DescPagesPerBlk, r[2] + (b + 1) * DescPagesPerBlk)
      bits(b) == Run(r[3] + b * BmPagesPerBlk, r[3] + (b + 1) * BmPagesPerBlk)
      all == UNION {desc(b) \cup bits(b) : b \in 0..(r[1] - 1)}
      inUse(b) == \E p \in all \cup {0, RootEntryOff} : p \div BlkPages = b
  IN  /\ At(d, part, 0) = {r}
      /\ \A b \in 0..(r[1] - 1) :
           /\ \A p \in desc(b) : At(d, part, p) = {IF inUse(b) THEN "sysDesc" ELSE "freeDesc"}
           /\ \A p \in bits(b) : At(d, part, p) = {IF inUse(b) THEN "ones" ELSE "zeros"}

(* At the end every registered partition that is large enough and lies on the   *)
(* disk is formatted, and no sector of the disk's other partitions, of its      *)
(* table or between them has changed, except the first usable sector (firLba),  *)
(* which the update of the table hits: a partition that has it is damaged.      *)
FormattedAndElseIntact(d) ==
  LET e == Setup(d)
      mine(part) == part.st..part.ed
      parts == {Scan(d)[i] : i \in DOMAIN Scan(d)}
      large == {p \in parts : p.ed - p.st > MinLbas}
  IN  /\ \A p \in large : mine(p) \subseteq Sectors(d) /\ d.hdr.firLba \notin mine(p)
                            => Formatted(e, p)
      /\ \A s \in Sectors(d) \ (UNION {mine(p) : p \in large} \cup {d.hdr.firLba}) :
           e.lba[s] = d.lba[s]
=============================================================================
