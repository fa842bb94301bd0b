------------------------------ MODULE PageTable ------------------------------
(***************************************************************************)
(* memory/pgtable.c with what task/mgr.c, task/init.c and the page fault   *)
(* handler of interrupt/trap.c do with it: the cache of table pages, trees *)
(* of four levels, the kernel's half that every address space copies.      *)
(* A table is named by the space it was made for and the indexes that lead *)
(* to it, as it does not matter which page it is; the name of a table, or  *)
(* of what is mapped, is the content of an entry.  Trees change under      *)
(* Task_krlPgTblLock (the kernel's) or by their only task.                 *)
(* When no table page can be got, physical page 0 takes its place: of page *)
(* 0 the model knows which entries are not 0.                              *)
(***************************************************************************)
EXTENDS Integers, Sequences, FiniteSets

CONSTANTS
  BuddyPages,  \* bound: pages the buddy allocator gives to tables
  InitOrder, RefillOrder, MinCache, MaxCache,  \* 12, 11, 0x100, 0x1100
  Tasks,       \* user tasks, each with an address space of its own
  UserAddrs, KernelAddrs,  \* virtual addresses: four indexes, highest first
  UserStack,   \* the user address of the task's management page
  Phys,        \* what is mapped
  Leftovers    \* what page 0 may hold at boot: the slots that are not 0

Idx   == 0..1
Top   == 3                 \* stands for 0x1ff
Low   == {0}               \* stands for 0..255
Upper == {1, 2, Top}       \* stands for 256..511
Slots == Low \cup Upper
Nil   == <<>>              \* an entry that is 0
Big   == <<-1>>            \* an entry with 0x80: 1 GB, mapped at boot
Zero  == <<-2>>            \* the entry 0 | 7: page 0
Spin  == <<-3>>            \* no entry: the lock of the table pages is never had
Ends  == {Nil, Big, Zero}  \* what leads to no table
Kernel == 0                \* the space whose root is Task_KrlPagePhyAddr
Root(s) == <<s>>

(* the pages in a frame of an order                                         *)
PagesOf[o \in Nat] == IF o = 0 THEN 1 ELSE 2 * PagesOf[o - 1]

(* The frames the pool starts with and is refilled with are divided within  *)
(* the array, and two pages at least are left when a refill is asked for.   *)
ASSUME PageTableAssumption ==
  /\ BuddyPages \in Nat /\ Tasks \subseteq Nat \ {Kernel}
  /\ {InitOrder, RefillOrder, MinCache, MaxCache} \subseteq Nat
  /\ PagesOf[InitOrder] > MinCache /\ MinCache >= 2
  /\ 1 + InitOrder <= MaxCache /\ MinCache + RefillOrder <= MaxCache
  /\ UserAddrs \subseteq Low \X Idx \X Idx \X Idx
  /\ KernelAddrs \subseteq (Upper \ {Top}) \X Idx \X Idx \X Idx
  /\ UserStack \in UserAddrs /\ Ends \cap Phys = {} /\ Leftovers \subseteq SUBSET Slots

VARIABLES
  tbl,      \* the tables with their entries
  pool,     \* cachePool: the orders of its frames, the last is taken first
  cacheSize,
  buddy,    \* how many pages the buddy allocator has left
  oom,      \* a table page was asked for and there was none: the lock of the
            \* table pages is kept for ever
  page0,    \* the slots of page 0 whose entry is not 0
  krlHeld,  \* Task_krlPgTblLock is kept by a task that halted
  stage     \* of each user task

vars == <<tbl, pool, cacheSize, buddy, oom, page0, krlHeld, stage>>
mm == [tbl |-> tbl, pool |-> pool, cnt |-> cacheSize, buddy |-> buddy, oom |-> oom,
       page0 |-> page0]
SetMM(m) == /\ tbl' = m.tbl /\ pool' = m.pool /\ cacheSize' = m.cnt
            /\ buddy' = m.buddy /\ oom' = m.oom /\ page0' = m.page0
Spaces == {Kernel} \cup Tasks
Empty  == [i \in Slots |-> Nil]

(* The kernel's tables as the boot loader and DMAS_init leave them: a       *)
(* second level with an entry of 1 GB.                                      *)
BootTbl == [t \in {Root(Kernel), <<Kernel, 1>>} |->
              IF t = Root(Kernel) THEN [Empty EXCEPT ![1] = <<Kernel, 1>>]
              ELSE [Empty EXCEPT ![0] = Big]]

(* MM_PageTable_init                                                        *)
Init ==
  /\ tbl = BootTbl
  /\ pool = <<InitOrder>> /\ cacheSize = PagesOf[InitOrder]
  /\ buddy = BuddyPages /\ oom = FALSE /\ krlHeld = FALSE /\ page0 \in Leftovers
  /\ stage = [t \in Tasks |-> "none"]

-----------------------------------------------------------------------------
(* Table pages                                                              *)

(* MM_Buddy_divPageFrame until the frame is one page: the right halves are  *)
(* pushed, the largest first.                                               *)
RightHalves(o) == [i \in 1..o |-> o - i]

Refill(m) ==
  IF m.cnt >= MinCache THEN m
  ELSE IF m.buddy < PagesOf[RefillOrder] THEN [m EXCEPT !.oom = TRUE]
  ELSE [m EXCEPT !.pool = Append(@, RefillOrder), !.cnt = @ + PagesOf[RefillOrder],
                 !.buddy = @ - PagesOf[RefillOrder]]

(* The pool gives a page: the last frame is divided.                        *)
Taken(m) ==
  LET n == Len(m.pool)  o == m.pool[n] IN
  Refill([m EXCEPT !.pool = SubSeq(@, 1, n - 1) \o RightHalves(o), !.cnt = @ - 1])

WithTable(T, t, entries) == [u \in DOMAIN T \cup {t} |-> IF u = t THEN entries ELSE T[u]]

TakeTableDirty(m, t) ==        \* a faulty variant: last tables keep old entries
  LET n == Taken(m)
      Old == [i \in Slots |-> IF Len(t) = 4 THEN CHOOSE p \in Phys : TRUE ELSE Nil]
  IN  IF n.oom THEN n ELSE [n EXCEPT !.tbl = WithTable(@, t, Old)]
(* MM_PageTable_alloc, for the table to be named t.  When the pool cannot   *)
(* be refilled it returns 0 and keeps its lock.                             *)
TakeTable(m, t) ==
  LET n == Taken(m) IN IF n.oom THEN n ELSE [n EXCEPT !.tbl = WithTable(@, t, Empty)]

(* MM_PageTable_free of all tables of U: the pool takes pages until its     *)
(* array is full, the rest goes to the buddy allocator.                     *)
FreeTables(m, U) ==
  LET n == Cardinality(U)
      room == MaxCache - Len(m.pool)
      k == IF n <= room THEN n ELSE room
  IN  [m EXCEPT !.tbl = [t \in DOMAIN @ \ U |-> @[t]],
                !.pool = @ \o [i \in 1..k |-> 0], !.cnt = @ + k, !.buddy = @ + n - k]

-----------------------------------------------------------------------------
(* Trees                                                                    *)

(* One level of MM_PageTable_map: <<memory, table of the next level>>; Nil  *)
(* when a large page covers the address.  Without a page the entry leads to *)
(* page 0, and the walk goes on there: through an entry that is 0 it asks   *)
(* for a page again, for ever (Spin); another one leads out of the tables.  *)
Step(mt, i) ==
  LET m == mt[1]  t == mt[2] IN
  IF t \in {Nil, Spin} THEN mt
  ELSE IF t = Zero THEN <<m, IF i \in m.page0 THEN Nil ELSE Spin>>
  ELSE IF m.tbl[t][i] = Big THEN <<m, Nil>>
  ELSE IF m.tbl[t][i] # Nil THEN <<m, m.tbl[t][i]>>
  ELSE IF m.oom THEN <<m, Spin>>
  ELSE LET n == TakeTable(m, Append(t, i))
           e == IF n.oom THEN Zero ELSE Append(t, i)
       IN  <<[n EXCEPT !.tbl[t][i] = e], e>>

(* the three levels above the last, from a root that may be page 0          *)
Descent(m, s, a) ==
  Step(Step(Step(<<m, IF Root(s) \in DOMAIN m.tbl THEN Root(s) ELSE Zero>>, a[1]), a[2]), a[3])
Spins(s, a) == Descent(mm, s, a)[2] = Spin

(* MM_PageTable_map                                                         *)
Map(m, s, a, pa) ==
  LET n == Descent(m, s, a)[1]  t == Descent(m, s, a)[2] IN
  IF t \in {Nil, Spin} THEN n
  ELSE IF t = Zero THEN [n EXCEPT !.page0 = @ \cup {a[4]}]
  ELSE [n EXCEPT !.tbl[t][a[4]] = pa]

(* The entries I of the kernel's root are copied to the root of s.          *)
CopyRoot(m, s, I) ==
  LET krl == m.tbl[Root(Kernel)] IN
  IF Root(s) \in DOMAIN m.tbl
  THEN [m EXCEPT !.tbl[Root(s)] = [i \in Slots |-> IF i \in I THEN krl[i] ELSE @[i]]]
  ELSE [m EXCEPT !.page0 = (@ \ I) \cup {i \in I : krl[i] # Nil}]

(* the table that holds the last index of address a, or where the walk ends *)
Below(T, t, i) == IF t \in Ends THEN t ELSE T[t][i]
Walk(T, s, a) == Below(T, Below(T, Below(T, Root(s), a[1]), a[2]), a[3])
(* MM_PageTable_getPldEntry, but for what it finds in page 0                *)
PldEntry(T, s, a) == Below(T, Walk(T, s, a), a[4])

(* the tables that the entries of a set of tables point to                  *)
Children(T) == (UNION {{tbl[t][i] : i \in Slots} : t \in T}) \cap DOMAIN tbl

CleanedIdxAll == Slots         \* a faulty variant: the kernel's half as well
CleanedIdx == Low \cup {Top}
Trees(s) ==                    \* the second level tables of a task's own half
  {tbl[Root(s)][i] : i \in CleanedIdx} \cap DOMAIN tbl
OwnTables(s) ==
  LET T == Trees(s) IN {Root(s)} \cup T \cup Children(T) \cup Children(Children(T))
(* _cleanMap and MM_PageTable_cleanMap: all tables of the task's own half   *)
CleanMap(s) == FreeTables(mm, OwnTables(s))

-----------------------------------------------------------------------------
(* The kernel's space                                                       *)

(* Task_mapKrlPage: a task that waits for a table page keeps the lock.      *)
MapKrlPage(a, pa) ==
  /\ ~krlHeld
  /\ SetMM(Map(mm, Kernel, a, pa))
  /\ krlHeld' = Spins(Kernel, a)
  /\ UNCHANGED stage

(* Task_unmapKrlPage: the entry goes, then _tryFree reads the table at its  *)
(* physical address, which the kernel's space does not map (cleanTmpMap):   *)
(* the page fault never ends, and the lock stays taken.                     *)
UnmapKrlPage(a) ==
  LET w == Walk(tbl, Kernel, a) IN
  /\ ~krlHeld /\ w \notin {Nil, Big}
  /\ krlHeld' = TRUE
  /\ IF w = Zero THEN tbl' = tbl /\ page0' \in {page0, page0 \ {a[4]}}
     ELSE tbl' = [tbl EXCEPT ![w][a[4]] = Nil] /\ page0' = page0
  /\ UNCHANGED <<pool, cacheSize, buddy, oom, stage>>

-----------------------------------------------------------------------------
(* User tasks                                                               *)

(* Task_createTask: a root table, then a copy of the kernel's under the     *)
(* lock.  Without a table the task gets page 0 and is queued all the same.  *)
(* Later ones wait for a table for ever.                                    *)
CreatePgd(t) ==
  /\ stage[t] = "none" /\ ~krlHeld /\ ~oom
  /\ SetMM(CopyRoot(TakeTable(mm, Root(t)), t, Slots))
  /\ stage' = [stage EXCEPT ![t] = "created"]
  /\ UNCHANGED krlHeld

(* init maps the management page, whose content nobody has set: the test of *)
(* Task_syncKrlPageTable, which reads krlPgTblJiffies there, may go either  *)
(* way.                                                                     *)
InitPage(t, pa) ==
  /\ stage[t] = "created"
  /\ SetMM(Map(mm, t, UserStack, pa))
  /\ \E s \in IF Spins(t, UserStack) THEN {"halted"} ELSE {"sync", "user"} :
       stage' = [stage EXCEPT ![t] = s]
  /\ UNCHANGED krlHeld

(* Task_syncKrlPageTable                                                    *)
SyncCopy(t) ==
  /\ stage[t] = "sync" /\ ~krlHeld
  /\ SetMM(CopyRoot(mm, t, Upper))
  /\ stage' = [stage EXCEPT ![t] = "user"]
  /\ UNCHANGED krlHeld

(* doPageFault at a user address without an entry: the stack grows.  What   *)
(* page 0 says of an address may be no entry.                               *)
StackFault(t, a, pa) ==
  /\ stage[t] = "user" /\ PldEntry(tbl, t, a) \in {Nil, Zero}
  /\ SetMM(Map(mm, t, a, pa))
  /\ stage' = [stage EXCEPT ![t] = IF Spins(t, a) THEN "halted" ELSE @]
  /\ UNCHANGED krlHeld

(* Task_exit, and cleanMap in the recycler, which waits for ever once the   *)
(* lock of the table pages is kept                                          *)
Recycle(t) ==
  /\ stage[t] = "user" /\ ~oom
  /\ SetMM(CleanMap(t))
  /\ stage' = [stage EXCEPT ![t] = "none"]
  /\ UNCHANGED krlHeld

Next ==
  \/ \E a \in KernelAddrs, pa \in Phys : MapKrlPage(a, pa)
  \/ \E a \in KernelAddrs : UnmapKrlPage(a)
  \/ \E t \in Tasks :
       \/ CreatePgd(t) \/ SyncCopy(t) \/ Recycle(t)
       \/ \E pa \in Phys : InitPage(t, pa)
       \/ \E a \in UserAddrs, pa \in Phys : StackFault(t, a, pa)

Spec == Init /\ [][Next]_vars

-----------------------------------------------------------------------------
(* Properties                                                               *)

Live == {t \in Tasks : Root(t) \in DOMAIN tbl}
KernelTables ==
  LET T == {tbl[Root(Kernel)][i] : i \in Slots} \cap DOMAIN tbl
  IN  {Root(Kernel)} \cup T \cup Children(T) \cup Children(Children(T))

(* the pages in the first n frames of a pool                                   *)
PagesBelow(frames) ==
  LET below[n \in 0..Len(frames)] == IF n = 0 THEN 0 ELSE below[n - 1] + PagesOf[frames[n]]
  IN  below

(* The pool's counter is the number of pages in its frames, the pool never     *)
(* runs empty nor over the end of the array, which only MM_PageTable_free      *)
(* tests, and every page is a table, in the pool or with the buddy allocator,  *)
(* but for the one that is lost when the pool cannot be refilled.              *)
PoolExact ==
  /\ cacheSize = PagesBelow(pool)[Len(pool)]
  /\ Len(pool) \in 1..MaxCache
  /\ Cardinality(DOMAIN tbl) + cacheSize + buddy + (IF oom THEN 1 ELSE 0)
       = Cardinality(DOMAIN BootTbl) + PagesOf[InitOrder] + BuddyPages

(* A table belongs to one space, and an entry points to a table of its own     *)
(* space or, in the upper half of a task's root, of the kernel's: neither      *)
(* cleanMap of a task nor an unmap leaves an entry to a page that somebody     *)
(* else may get, and no table is lost.  Page 0 is in a tree only when a page   *)
(* was asked for in vain.                                                      *)
TablesOwned ==
  /\ PoolExact
  /\ \A t \in DOMAIN tbl, i \in Slots : tbl[t][i] \in Ends \cup DOMAIN tbl \cup Phys
  /\ \A t \in DOMAIN tbl, i \in Slots : tbl[t][i] = Zero => oom
  /\ \A s, u \in Live : s # u => OwnTables(s) \cap OwnTables(u) = {}
  /\ \A s \in Live : OwnTables(s) \cap KernelTables = {}
  /\ KernelTables \cup UNION {OwnTables(s) : s \in Live} = DOMAIN tbl
  /\ \A t \in Live, i \in Upper \ {Top} : tbl[Root(t)][i] \in {Nil, tbl[Root(Kernel)][i]}

(* The trees implement one function per space (AddressSpaces), in every step   *)
(* but the one in which memory runs out: it puts page 0 under an address, and  *)
(* no promise says what that maps.  The steps before it and after it, of the   *)
(* spaces that have page 0 too, keep the promise for every other address.      *)
View == [s \in Spaces |-> IF Root(s) \notin DOMAIN tbl THEN Nil
           ELSE [a \in UserAddrs \cup KernelAddrs |-> PldEntry(tbl, s, a)]]
Promise == INSTANCE AddressSpaces WITH view <- View, Values <- Phys \cup Ends, None <- Nil
ImplementsAddressSpaces == Promise!Init /\ [][oom' = oom => Promise!Next]_View
=============================================================================
