------------------------------- MODULE Buddy --------------------------------
(***************************************************************************)
(* The page allocator of kernel/memory/buddy.c.  Lists, bitmap and headers *)
(* change under _BuddyLock with interrupts masked, and what MM_Buddy_alloc *)
(* does after it, the charge, is to the calling task itself, so each call  *)
(* is one step.  A page frame is the number of its first page; a page's    *)
(* structure is a record, whose own is the task in whose usage list the    *)
(* frame is (KernelShare frames are in none).  A call is made by a task,   *)
(* Task_current, and nothing ties the one that frees or divides a frame to *)
(* the one in whose list it is.  The loops that split and merge are given  *)
(* by what they have done when they end, in terms of the buddyId they      *)
(* follow: the root of a frame has buddyId 1, the halves of b have 2b and  *)
(* 2b + 1.                                                                 *)
(***************************************************************************)
EXTENDS Integers, Sequences, FiniteSets, FiniteSetsExt, SequencesExt

CONSTANTS
  MaxOrder,    \* Buddy_maxOrder
  Zones,       \* the zones, a sequence of [first, last] numbers of unused pages
  Limit4G,     \* the first page above 4 GB
  Tasks,       \* the tasks that call
  UsageWidth,  \* totUsage, in pages, has this many bits: 52 in the code
  MaxForeign,  \* a bound: calls that free or divide another task's frame
  Share, Free, \* the owner of a KernelShare frame; of a frame nobody holds
  NULL         \* no frame

ASSUME BuddyAssumption ==
  /\ MaxOrder \in Nat /\ Limit4G \in Nat /\ UsageWidth \in Nat /\ MaxForeign \in Nat
  /\ \A z \in 1..Len(Zones) :
       /\ Zones[z].first \in Nat \ {0} /\ Zones[z].last \in Nat
       /\ \A y \in 1..(z - 1) : Zones[y].last < Zones[z].first
  /\ {Share, Free} \cap Tasks = {} /\ Share # Free

Orders == 0..MaxOrder
Pages  == UNION {Zones[z].first..Zones[z].last : z \in 1..Len(Zones)}
Owners == Tasks \cup {Share}

VARIABLES
  freeList, \* per order the list of free frames, from its first to its last
  bitmap,   \* the pairs <<order, page>> whose bit is set, the left buddy's page
  page,     \* per page: is it the head of a frame, its order, buddyId and owner
  totUsage, \* per task the pages it is charged with
  refused,  \* the request to which the last call returned NULL, or <<>>
  foreign   \* of the calls with another task's frame: by whom, whose, its pages

vars == <<freeList, bitmap, page, totUsage, refused, foreign>>

NotHead == [head |-> FALSE, ord |-> 0, id |-> 0, own |-> Free]
HeadOf(o, i, w) == [head |-> TRUE, ord |-> o, id |-> i, own |-> w]

(* lowbit(phyAddr), reduced until the frame fits in the zone                *)
OrderAt(p, last) == Max({o \in Orders : p % 2^o = 0 /\ p + 2^o <= last + 1})

Frames(z) ==
  LET from[p \in z.first..(z.last + 1)] ==
        IF p > z.last THEN <<>>
        ELSE LET o == OrderAt(p, z.last) IN <<<<p, o>>>> \o from[p + 2^o]
  IN from[z.first]

InitFrames == FlattenSeq([z \in 1..Len(Zones) |-> Frames(Zones[z])])

Init ==
  /\ freeList = [o \in Orders |->
       LET these == SelectSeq(InitFrames, LAMBDA f : f[2] = o)
       IN [i \in 1..Len(these) |-> these[i][1]]]
  /\ bitmap = {}
  /\ page = [p \in Pages |->
       LET f == {i \in 1..Len(InitFrames) : InitFrames[i][1] = p}
       IN IF f = {} THEN NotHead ELSE HeadOf(InitFrames[CHOOSE i \in f : TRUE][2], 1, Free)]
  /\ totUsage = [t \in Tasks |-> 0]
  /\ refused = <<>>
  /\ foreign = <<>>

-----------------------------------------------------------------------------

IsRight(id) == id % 2 = 1

(* revBit: the frame at p of this order and id; a root's bit is not kept    *)
BitOwn(o, p, id) == IF id = 1 THEN {} ELSE {<<o, p>>}  \* a faulty variant: not the pair's
Bit(o, p, id) == IF id = 1 THEN {} ELSE {<<o, IF IsRight(id) THEN p - 2^o ELSE p>>}

(* _divPageFrame leaves a right half at each order below the frame's        *)
RightHalf(p, o) == p + 2^o
RightHalfId(p, o) == page[p].id * 2^(page[p].ord - o) + 1

(* remove the free frame at p from its list, split it down to order o       *)
Take(p, o, own) ==
  LET fr == page[p].ord
      halves == o..(fr - 1)
  IN /\ page' = [q \in Pages |->
          IF q = p THEN HeadOf(o, page[p].id * 2^(fr - o), own)
          ELSE IF \E k \in halves : q = RightHalf(p, k)
            THEN LET k == CHOOSE j \in halves : q = RightHalf(p, j)
                 IN HeadOf(k, RightHalfId(p, k), Free)
            ELSE page[q]]
     /\ freeList' = [k \in Orders |->
          IF k \in halves THEN Append(freeList[k], RightHalf(p, k))
          ELSE IF k = fr THEN SelectSeq(freeList[k], LAMBDA q : q # p)
          ELSE freeList[k]]
     /\ bitmap' = SymDiff(bitmap, Bit(fr, p, page[p].id)
          \cup UNION {Bit(k, RightHalf(p, k), RightHalfId(p, k)) : k \in halves})

Charged(t, n) == [totUsage EXCEPT ![t] = (@ + n) % 2^UsageWidth]

(* a KernelShare frame is charged to nobody, any other to the calling task  *)
ChargeOne(by, own, n) ==   \* a faulty variant: one page, whatever the order
  totUsage' = IF own = Share THEN totUsage ELSE Charged(by, IF n < 0 THEN -1 ELSE 1)
Charge(by, own, n) ==
  totUsage' = IF own = Share THEN totUsage ELSE Charged(by, n)

(* ghost: by frees or divides, of n pages, a frame in the list of own       *)
Note(by, own, n) ==
  IF own \in {by, Share} THEN UNCHANGED foreign
  ELSE Len(foreign) < MaxForeign /\ foreign' = Append(foreign, <<by, own, n>>)

Refuse(o, low) == refused' = <<o, low>> /\ UNCHANGED <<freeList, bitmap, page, totUsage, foreign>>

(* a free frame that alloc may take: the first of its list, or, for alloc4G,*)
(* the first of its list below 4 GB                                         *)
Candidate(o, low) ==
  LET good == {i \in 1..Len(freeList[o]) : low => freeList[o][i] < Limit4G}
  IN IF good = {} THEN NULL ELSE freeList[o][Min(good)]

(* the orders, from the one asked for, that have one                        *)
EnoughLarger(log2Size, low) ==  \* a faulty variant: starts one order too high
  {o \in Orders : o > log2Size /\ Candidate(o, low) # NULL}
Enough(log2Size, low) == {o \in Orders : o >= log2Size /\ Candidate(o, low) # NULL}

(* MM_Buddy_alloc, and MM_Buddy_alloc4G (low), by the task own or, for a    *)
(* KernelShare frame, by any                                                *)
Alloc(log2Size, own, low) ==
  LET enough == Enough(log2Size, low) IN
  IF enough = {} THEN Refuse(log2Size, low)
  ELSE LET p == Candidate(Min(enough), low) IN
       Take(p, log2Size, own) /\ Charge(own, own, 2^log2Size) /\ refused' = <<>>
       /\ UNCHANGED foreign

(* The frame of order o that contains frame p, and its buddy.               *)
UpId(p, o)    == page[p].id \div 2^(o - page[p].ord)
UpPage(p, o)  == p - (page[p].id % 2^(o - page[p].ord)) * 2^page[p].ord
Buddy(p, o)   == IF IsRight(UpId(p, o)) THEN UpPage(p, o) - 2^o ELSE UpPage(p, o) + 2^o
(* Merging ends at a root, or where the bit, once inverted, is set.         *)
StopsAtRoot(p, o) == UpId(p, o) = 1   \* a faulty variant: the bit is not looked at
Stops(p, o) == UpId(p, o) = 1 \/ Bit(o, UpPage(p, o), UpId(p, o)) \cap bitmap = {}

(* MM_Buddy_free, by any task: it is that task's charge that falls, and the *)
(* frame leaves the list it is in                                           *)
FreeFrame(p, by) ==
  LET ord == page[p].ord
      end == Min({o \in ord..MaxOrder : Stops(p, o)})
      gone == {Buddy(p, k) : k \in ord..(end - 1)} \cup {UpPage(p, k) : k \in ord..end}
  IN /\ page[p].head /\ page[p].own # Free
     /\ page' = [q \in Pages |->
          IF q = UpPage(p, end) THEN HeadOf(end, UpId(p, end), Free)
          ELSE IF q \in gone THEN NotHead
          ELSE page[q]]
     /\ freeList' = [k \in Orders |->
          IF k = end THEN Append(freeList[k], UpPage(p, end))
          ELSE IF k \in ord..(end - 1) THEN SelectSeq(freeList[k], LAMBDA q : q # Buddy(p, k))
          ELSE freeList[k]]
     /\ bitmap' = SymDiff(bitmap, UNION {Bit(k, UpPage(p, k), UpId(p, k)) : k \in ord..end})
     /\ Charge(by, page[p].own, -(2^ord))
     /\ Note(by, page[p].own, 2^ord)
     /\ refused' = <<>>

(* MM_Buddy_divPageFrame, by any task: a held frame becomes two; no lock,   *)
(* no bitmap, no charge, and the right half is put in the caller's list     *)
DivPageFrame(p, by) ==
  LET o == page[p].ord - 1
      own == IF page[p].own = Share THEN Share ELSE by
  IN
  /\ page[p].head /\ page[p].own # Free
  /\ page[p].ord > 0
  /\ page' = [page EXCEPT ![p] = HeadOf(o, 2 * page[p].id, page[p].own),
                          ![p + 2^o] = HeadOf(o, 2 * page[p].id + 1, own)]
  /\ Note(by, page[p].own, 2^o)
  /\ refused' = <<>>
  /\ UNCHANGED <<freeList, bitmap, totUsage>>

Next ==
  \/ \E o \in 0..(MaxOrder + 1), own \in Owners, low \in BOOLEAN : Alloc(o, own, low)
  \/ \E p \in Pages, by \in Tasks : FreeFrame(p, by) \/ DivPageFrame(p, by)

Spec == Init /\ [][Next]_vars

-----------------------------------------------------------------------------

Heads == {p \in Pages : page[p].head}
Held  == {p \in Heads : page[p].own # Free}
FrameRun(p) == p..(p + 2^page[p].ord - 1)

TypeOK ==
  /\ freeList \in [Orders -> Seq(Pages)]
  /\ bitmap \subseteq Orders \X Pages
  /\ page \in [Pages -> [head : BOOLEAN, ord : Orders, id : Nat, own : Owners \cup {Free}]]
  /\ totUsage \in [Tasks -> 0..(2^UsageWidth - 1)]
  /\ foreign \in Seq(Tasks \X Tasks \X Nat)

(* After any sequence of calls the frames tile the memory: each page is in  *)
(* exactly one frame, free or held, and a frame is in the free list of its  *)
(* order, once, exactly when nobody holds it.                               *)
FramesTileMemory ==
  /\ \A q \in Pages : Cardinality({p \in Heads : q \in FrameRun(p)}) = 1
  /\ \A o \in Orders :
       /\ ToSet(freeList[o]) = {p \in Heads \ Held : page[p].ord = o}
       /\ IsInjective(freeList[o])

FreeFrames == {<<p, page[p].ord, page[p].id>> : p \in Heads \ Held}
BuddyOf(f) == IF IsRight(f[3]) THEN <<f[1] - 2^f[2], f[2], f[3] - 1>> ELSE <<f[1] + 2^f[2], f[2], f[3] + 1>>

(* A set bit means that exactly one of the two buddies is free, which is    *)
(* all that free looks at before it merges with a buddy it does not examine;*)
(* and two free buddies never stay unmerged.                                *)
BitmapIsParity ==
  /\ bitmap = UNION {Bit(f[2], f[1], f[3]) : f \in FreeFrames}
  /\ \A f \in FreeFrames : f[3] > 1 => BuddyOf(f) \notin FreeFrames

(* Pages of t's frames that other tasks took from its list, less those of   *)
(* their frames that t did.                                                 *)
Astray(t) == FoldSeq(LAMBDA f, n : n + (IF f[2] = t THEN f[3] ELSE 0) - (IF f[1] = t THEN f[3] ELSE 0),
                     0, foreign)

(* A task is charged with the frames Task_exit will find in its list, so    *)
(* that "failed to recycle all the page frame" (mgr.c:429), which stops it  *)
(* for ever, counts no page: except for what a call of one task did to the  *)
(* frame of another, which puts both out by its pages, one below 0, where   *)
(* the unsigned count wraps.  The variables keep their types.               *)
UsageExact ==
  /\ TypeOK
  /\ \A t \in Tasks :
       totUsage[t] = (MapThenSumSet(LAMBDA p : 2^page[p].ord, {p \in Held : page[p].own = t})
                       + Astray(t)) % 2^UsageWidth

(* The allocator keeps its promise; in particular splitting and merging     *)
(* never leave a request refused that the free memory could serve.          *)
Allocator == INSTANCE PageAllocator WITH held <- {<<p, page[p].ord>> : p \in Held}
ImplementsPageAllocator == Allocator!Spec
=============================================================================
