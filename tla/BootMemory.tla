----------------------------- MODULE BootMemory ------------------------------
(***************************************************************************)
(* From the firmware's memory map to the zones of Buddy: MM_init,          *)
(* DMAS_init, _initArray and MM_Bs_alloc, which run once, in this order,   *)
(* before any other processor, task or interrupt.  Boot(map) is what they  *)
(* have done at the end, or Halted where the code stops in a loop.         *)
(* Addresses are physical; a byte here is a unit of which a page has few.  *)
(***************************************************************************)
EXTENDS Integers, Sequences, FiniteSets, FiniteSetsExt, SequencesExt

CONSTANTS
  MaxOrder,               \* Buddy_maxOrder
  PageSize, PageStruct,   \* Page_4KSize, sizeof(Page)
  Word,        \* bits per word of a bitmap, 64 (and 8 per byte is Word / 8)
  ByteBits,    \* 8
  TableEntries, GB, MinGB, \* 512, Page_1GSize, and the 16 entries of DMAS_init
  TwoMB,       \* Page_2MSize
  KernelSt, ImageEnd,     \* 0x100000, where the loaded kernel ends
  MemoryMaps   \* what the firmware may report: sequences of [addr, size, type]

(* The firmware reports its entries in ascending order.                     *)
ASSUME BootAssumption ==
  \A map \in MemoryMaps : \A i \in 2..Len(map) :
    map[i].size # 0 => map[i - 1].addr + map[i - 1].size <= map[i].addr

Orders == 0..MaxOrder
Up(a, n)   == ((a + n - 1) \div n) * n
PageUp(a)  == Up(a, PageSize)
PageDn(a)  == (a \div PageSize) * PageSize
End(e)     == e.addr + e.size
PageSt(e)  == PageUp(e.addr)
PageEd(e)  == PageDn(End(e))
Halted     == [halted |-> TRUE]

(* MM_init copies entries until the next one is bad                         *)
E820(map) ==
  LET good(e) == e.type \in 1..4 /\ e.size # 0
      bad == {i \in 2..Len(map) : ~good(map[i])}
  IN  IF bad = {} THEN map ELSE SubSeq(map, 1, Min(bad) - 1)

(* DMAS_init: gigabytes it maps, and where its tables behind the kernel end *)
DMASEntries(m) == Max({MinGB, Up(End(Last(m)), GB) \div GB})
KernelEnd(m) ==
  PageUp(ImageEnd) + PageSize * (Up(DMASEntries(m), TableEntries) \div TableEntries)

(* _initArray: the zone the kernel is in, and the one that takes the array  *)
Ram(m) == {i \in 1..Len(m) : m[i].type = 1}
Counted(m) == {i \in Ram(m) : PageSt(m[i]) < PageEd(m[i])}
KernelZones(m) ==
  {i \in Counted(m) : PageSt(m[i]) <= KernelSt /\ PageEd(m[i]) > KernelEnd(m)}
ArrayPlaces(m, kz) ==
  {i \in Ram(m) : i >= kz /\ (IF i = kz THEN PageUp(KernelEnd(m)) ELSE PageSt(m[i])) + PageSize
                              < PageEd(m[i])}

(* An entry's zone before its page array; the zone array takes one page.    *)
RawZone(m, kz, place, j) ==
  [st |-> PageSt(m[j]), ed |-> PageEd(m[j]),
   attr |-> (IF j < kz THEN PageEd(m[j]) ELSE IF j = kz THEN PageUp(KernelEnd(m))
             ELSE PageSt(m[j])) + (IF j = place THEN PageSize ELSE 0)]

(* The page array of a zone, behind what it has used.  A zone smaller than  *)
(* a page ends before it starts: its length wraps and the array never fits. *)
ArrayBytes(z) == ((z.ed - z.st) \div PageSize) * PageStruct
NoRoom(z) == z.attr # z.ed /\ (z.ed < z.st \/ z.attr + ArrayBytes(z) >= z.ed)
WithPages(z) ==
  IF z.attr = z.ed THEN z @@ [length |-> 0, freeCnt |-> 0, usingCnt |-> 0]
  ELSE LET a == PageUp(z.attr + ArrayBytes(z)) IN
       z @@ [length |-> (z.ed - z.st) \div PageSize, freeCnt |-> (z.ed - a) \div PageSize,
             usingCnt |-> (a - z.st) \div PageSize]

(* The array holds every RAM entry, of which only as many as were counted   *)
(* are looked at afterwards.                                                *)
ZoneArray(m) ==
  LET kz == Max(KernelZones(m))  place == Min(ArrayPlaces(m, kz))
      ram == SetToSortSeq(Ram(m), <)
  IN  [i \in 1..Cardinality(Counted(m)) |-> RawZone(m, kz, place, ram[i])]

(* MM_Buddy_init: the bytes of a bitmap, how many share a page, pages of a  *)
(* request and their number                                                 *)
BitmapBytes(m) == Up(PageUp(End(m[Max(Counted(m))])) \div PageSize, Word) \div ByteBits
Small(m) == PageSize > BitmapBytes(m)
PerPage(m) == IF Small(m) THEN PageSize \div BitmapBytes(m) ELSE 1
AskPages(m) == IF Small(m) THEN 1 ELSE PageUp(BitmapBytes(m)) \div PageSize
Asks(m) == Up(MaxOrder + 1, PerPage(m)) \div PerPage(m)

(* MM_Bs_alloc does not count freeCnt down: all requests get pages of the   *)
(* same zone, one after the other, past its end if it is too small.         *)
TakenNone(m, zs, b) == zs       \* a faulty variant: usingCnt is left alone
Taken(m, zs, b) == [zs EXCEPT ![b].usingCnt = @ + Asks(m) * AskPages(m)]
BitmapAt(m, z, o) ==
  z.st + (z.usingCnt + (o \div PerPage(m)) * AskPages(m)) * PageSize
       + BitmapBytes(m) * (o % PerPage(m))
(* Bitmaps smaller than a page: the last gets no place and is cleared at 0. *)
Bitmaps(m, z) ==
  [o \in Orders |-> IF Small(m) /\ o = MaxOrder THEN 0 ELSE BitmapAt(m, z, o)]

Boot(map) ==
  LET m == E820(map)  kz == Max(KernelZones(m)) IN
  IF ArrayPlaces(m, kz) = {} THEN Halted
  ELSE LET raw == ZoneArray(m) IN
  IF \E i \in DOMAIN raw : NoRoom(raw[i]) THEN Halted
  ELSE LET zs == [i \in DOMAIN raw |-> WithPages(raw[i])]
           askable == {i \in DOMAIN zs : zs[i].freeCnt >= AskPages(m)}
  IN IF askable = {} THEN Halted
  ELSE LET b == Min(askable) IN
       [halted |-> FALSE, zones |-> Taken(m, zs, b), from |-> b,
        bitmaps |-> Bitmaps(m, zs[b]), place |-> Min(ArrayPlaces(m, kz))]

(* What MM_Buddy_init makes frames of: the first zone is left out.          *)
Managed(b) ==
  LET left == {i \in 2..Len(b.zones) : b.zones[i].usingCnt < b.zones[i].length}
      s == SetToSortSeq(left, <)
  IN  [k \in 1..Len(s) |-> [first |-> b.zones[s[k]].st \div PageSize + b.zones[s[k]].usingCnt,
                            last  |-> b.zones[s[k]].ed \div PageSize - 1]]

(* MM_PageTable_init maps what is not RAM, with the largest pages that fit. *)
(* The test of line 119 multiplies where it should mask: only 0 passes.     *)
Piece(a, bound) ==
  IF a % GB = 0 /\ a + GB <= bound THEN GB
  ELSE IF a = 0 /\ TwoMB <= bound THEN TwoMB ELSE PageSize
Pieces(e) ==
  LET bound == PageUp(End(e))
      from[a \in PageDn(e.addr)..bound] ==
        IF a >= bound THEN {} ELSE {<<a, Piece(a, bound)>>} \cup from[a + Piece(a, bound)]
  IN  from[PageDn(e.addr)]

-----------------------------------------------------------------------------
(* The bytes that are in use when the allocator starts, named by their user  *)
InUse(map, b) ==
  LET m == E820(map)  raw == ZoneArray(m)
      placed == PageUp(IF b.place = Max(KernelZones(m)) THEN KernelEnd(m) ELSE m[b.place].addr)
      from(a, n) == a..(a + n - 1)
  IN  (<<"kernel", 0>> :> KernelSt..(KernelEnd(m) - 1))
      @@ (<<"zones", 0>> :> from(placed, PageSize))
      @@ [u \in {<<"pages", i>> : i \in {j \in DOMAIN raw : b.zones[j].length > 0}} |->
            from(raw[u[2]].attr, ArrayBytes(raw[u[2]]))]
      @@ [u \in {<<"bitmap", o>> : o \in Orders} |-> from(b.bitmaps[u[2]], BitmapBytes(m))]

PagesOf(r) == {a \div PageSize : a \in r}

Overrun(b) == b.zones[b.from].usingCnt > b.zones[b.from].length

TiledBy(e, pieces) ==
  /\ \A q \in pieces : q[1] >= PageDn(e.addr) /\ q[1] + q[2] <= PageUp(End(e))
  /\ \A p \in PagesOf(e.addr..(End(e) - 1)) :
       Cardinality({q \in pieces : p * PageSize \in q[1]..(q[1] + q[2] - 1)}) = 1

(* After boot the allocator has zones as Buddy assumes them, all of RAM that   *)
(* the direct map reaches and the bitmaps cover, and none of their pages is    *)
(* in use: not by the kernel, the zones, their page arrays or the bitmaps,     *)
(* none of which lies on another.  Excepted is a machine whose first zone with *)
(* room for one request has no room for all (Overrun).  What is not RAM is     *)
(* mapped page by page, each once, and nothing beside it.                      *)
SoundZones(map) ==
  LET m == E820(map)  b == Boot(map) IN
  /\ \A i \in DOMAIN m \ Ram(m) : TiledBy(m[i], Pieces(m[i]))
  /\ \/ KernelZones(m) = {} \/ b.halted \/ Overrun(b)
     \/ LET zs == Managed(b)  used == InUse(map, b)
            pages == UNION {zs[i].first..zs[i].last : i \in DOMAIN zs}
        IN  /\ \A z \in DOMAIN zs : /\ zs[z].first > 0
                                    /\ \A y \in 1..(z - 1) : zs[y].last < zs[z].first
            /\ \A p \in pages : /\ p < BitmapBytes(m) * ByteBits
                                /\ p * PageSize < DMASEntries(m) * GB
                                /\ \E i \in Ram(m) : p * PageSize \in m[i].addr..(End(m[i]) - PageSize)
            /\ \A u \in DOMAIN used : PagesOf(used[u]) \cap pages = {}
            /\ \A u, v \in DOMAIN used : u # v => used[u] \cap used[v] = {}
=============================================================================
