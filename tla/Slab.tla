-------------------------------- MODULE Slab --------------------------------
(***************************************************************************)
(* The block allocator of kernel/memory/SLAB.c.  kmalloc and kfree hold    *)
(* _SlabLocker with interrupts masked, so each call is one step, with the  *)
(* calls it makes itself (Slab_Flag_Inner) inside it.                      *)
(*                                                                         *)
(* Of the sixteen caches there are two: in "small" a new slab keeps its    *)
(* structure and bitmap at the end of its own 2 MB page, in "big" it keeps *)
(* them in two blocks of "small".  A slab is named by its page.  A cache's *)
(* first slab, the root, is never destroyed; ring is the list from it.     *)
(***************************************************************************)
EXTENDS Integers, Sequences, FiniteSets, FiniteSetsExt, SequencesExt

CONSTANTS
  Word,      \* bits in a word of colMap: 64
  RootCnt,   \* per cache the blocks of its root slab
  PushCnt,   \* per cache the blocks of any other
  LastPage   \* the last of the 2 MB pages the page allocator can still give

Caches == {"small", "big"}
Root   == [small |-> 0, big |-> 1]  \* the pages of the roots
Pages  == 2..LastPage
Slabs  == Pages \cup {0, 1}
NONE   == <<>>

ASSUME SlabAssumption ==
  /\ Word \in Nat \ {0} /\ LastPage \in Nat
  /\ RootCnt \in [Caches -> Nat \ {0}] /\ PushCnt \in [Caches -> Nat \ {0}]

VARIABLES
  m,       \* the allocator: ring, cacheFree and, per slab, of, used, free, home
           \* (the blocks that hold its structure); pages; got; stuck
  clients, \* the blocks the rest of the kernel holds
  answer   \* what the last call came to

vars == <<m, clients, answer>>

Init ==
  /\ m = [ring      |-> [c \in Caches |-> <<Root[c]>>],
          cacheFree |-> RootCnt,
          of        |-> [s \in Slabs |-> IF s = 0 THEN "small" ELSE IF s = 1 THEN "big" ELSE "none"],
          used      |-> [s \in Slabs |-> {}],
          free      |-> [s \in Slabs |-> IF s = 0 THEN RootCnt.small ELSE IF s = 1 THEN RootCnt.big ELSE 0],
          home      |-> [s \in Slabs |-> <<>>],
          pages     |-> Pages,
          got       |-> NONE,
          stuck     |-> FALSE]
  /\ clients = {} /\ answer = "none"

Cnt(x, s)  == IF s \in Pages THEN PushCnt[x.of[s]] ELSE RootCnt[x.of[s]]
Next1(r)   == IF Len(r) = 1 THEN r[1] ELSE r[2]     \* the root's listEle.next

-----------------------------------------------------------------------------

(* The word of colMap that bit j is in reads all ones; memset has set the   *)
(* bits after the last block.                                               *)
WordFull(x, s, j) ==
  \A i \in (Word * (j \div Word))..(Word * (j \div Word) + Word - 1) :
    i < Cnt(x, s) => i \in x.used[s]

(* One turn of the scan for a free block: j += 64 for a full word, and j++; *)
(* it ends behind the last block or at a free one.                          *)
ScanEnds(x, s, j) == j >= Cnt(x, s) \/ (~WordFull(x, s, j) /\ j \notin x.used[s])
Turn(x, s, j) ==
  IF ScanEnds(x, s, j) THEN j ELSE IF WordFull(x, s, j) THEN j + Word + 1 ELSE j + 1
Scan(x, s) == LET at[n \in Nat] == IF n = 0 THEN 0 ELSE Turn(x, s, at[n - 1]) IN at
FreeBit(x, s) == LET j == Scan(x, s)[Cnt(x, s)] IN IF j >= Cnt(x, s) THEN -1 ELSE j

TakeUncounted(x, s) ==   \* a faulty variant: the cache's count is not kept
  LET j == FreeBit(x, s) IN
  IF j = -1 THEN [x EXCEPT !.got = NONE]
  ELSE [x EXCEPT !.used[s] = @ \cup {j}, !.free[s] = @ - 1, !.got = <<s, j>>]

TakeBlock(x, s) ==
  LET j == FreeBit(x, s) IN
  IF j = -1 THEN [x EXCEPT !.got = NONE]
  ELSE [x EXCEPT !.used[s] = @ \cup {j}, !.free[s] = @ - 1,
                 !.cacheFree[x.of[s]] = @ - 1, !.got = <<s, j>>]

(* The slab kmalloc chooses when the cache counts free blocks: the first of *)
(* the ring with one, or the root if none has.                              *)
Chosen(x, c) ==
  LET r == x.ring[c]
      good == {k \in 1..Len(r) : x.free[r[k]] > 0}
  IN IF good = {} THEN r[1] ELSE r[Min(good)]

(* List_del                                                                 *)
Without(r, s) == RemoveAt(r, CHOOSE k \in DOMAIN r : r[k] = s)

(* List_del and List_insBehind of the chosen slab, unless it is the root's  *)
(* next.  The root itself is linked to itself alone: the others are lost.   *)
MoveToFront(x, c, s) ==
  LET r == x.ring[c] IN
  IF s = Next1(r) THEN x
  ELSE IF s = r[1] THEN [x EXCEPT !.ring[c] = <<s>>]
  ELSE [x EXCEPT !.ring[c] = <<r[1], s>> \o Tail(Without(r, s))]

LinkSlab(x, c, p) ==
  [x EXCEPT !.of[p] = c, !.used[p] = {}, !.free[p] = PushCnt[c],
            !.cacheFree[c] = @ + PushCnt[c],
            !.ring[c] = <<@[1], p>> \o Tail(@)]

WithoutPage(x) == [x EXCEPT !.pages = @ \ {Min(x.pages)}]

KmallocSmall(x) ==
  IF x.cacheFree["small"] > 0
    THEN LET s == Chosen(x, "small") IN TakeBlock(MoveToFront(x, "small", s), s)
    ELSE LET y == IF x.pages = {} THEN x
                  ELSE LinkSlab(WithoutPage(x), "small", Min(x.pages))
         IN TakeBlock(y, Next1(y.ring["small"]))

(* Slab_pushNewSlab of the big cache: a page, then the structure, then the  *)
(* bitmap.  A block that is not got is written through NULL: the model      *)
(* stops there.                                                             *)
PushBig(x) ==
  IF x.pages = {} THEN x
  ELSE LET p == Min(x.pages)
           y == KmallocSmall(WithoutPage(x))
           z == KmallocSmall(y)
       IN IF y.got = NONE \/ z.got = NONE THEN [x EXCEPT !.stuck = TRUE]
          ELSE [LinkSlab(z, "big", p) EXCEPT !.home[p] = <<y.got, z.got>>]

KmallocBig(x) ==
  IF x.cacheFree["big"] > 0
    THEN LET s == Chosen(x, "big") IN TakeBlock(MoveToFront(x, "big", s), s)
    ELSE LET y == PushBig(x) IN
         IF y.stuck THEN y ELSE TakeBlock(y, Next1(y.ring["big"]))

(* What kfree asks before it gives a slab back, and a faulty variant.       *)
SpareInUse(x, c, s) == s # Root[c] /\ x.cacheFree[c] >= (Cnt(x, s) * 3) \div 2
Spare(x, c, s) ==
  /\ x.used[s] = {}
  /\ x.cacheFree[c] >= (Cnt(x, s) * 3) \div 2
  /\ s # Root[c]

Unlink(x, c, s) ==
  [x EXCEPT !.ring[c] = Without(@, s),
            !.cacheFree[c] = @ - x.free[s],
            !.of[s] = "none", !.free[s] = 0, !.used[s] = {}, !.home[s] = <<>>]

(* kfree finds the slab of the address in the rings, or spins for ever.     *)
PutBlock(x, b) ==
  LET c == x.of[b[1]] IN
  IF \A k \in 1..Len(x.ring[c]) : x.ring[c][k] # b[1] THEN [x EXCEPT !.stuck = TRUE]
  ELSE [x EXCEPT !.used[b[1]] = @ \ {b[2]}, !.free[b[1]] = @ + 1, !.cacheFree[c] = @ + 1]

KfreeSmall(x, b) ==
  LET y == PutBlock(x, b) IN
  IF ~y.stuck /\ Spare(y, "small", b[1])
    THEN [Unlink(y, "small", b[1]) EXCEPT !.pages = @ \cup {b[1]}]
    ELSE y

DestroyBig(x, s) ==
  LET y == KfreeSmall(Unlink(x, "big", s), x.home[s][2])
      z == KfreeSmall([y EXCEPT !.pages = @ \cup {s}], x.home[s][1])
  IN IF y.stuck THEN y ELSE z

KfreeBig(x, b) ==
  LET y == PutBlock(x, b) IN
  IF ~y.stuck /\ Spare(y, "big", b[1]) THEN DestroyBig(y, b[1]) ELSE y

-----------------------------------------------------------------------------

Kmalloc(c) ==
  LET x == IF c = "small" THEN KmallocSmall(m) ELSE KmallocBig(m) IN
  /\ ~m.stuck
  /\ m' = [x EXCEPT !.got = NONE]
  /\ IF x.stuck THEN answer' = "stuck" /\ UNCHANGED clients
     ELSE IF x.got = NONE
       THEN /\ answer' = IF m.cacheFree[c] > 0 THEN "refused" ELSE "out of memory"
            /\ UNCHANGED clients
     ELSE answer' = "block" /\ clients' = clients \cup {x.got}

Kfree(b) ==
  /\ ~m.stuck
  /\ m' = IF m.of[b[1]] = "small" THEN KfreeSmall(m, b) ELSE KfreeBig(m, b)
  /\ clients' = clients \ {b}
  /\ answer' = IF m'.stuck THEN "lost" ELSE "freed"

Next == (\E c \in Caches : Kmalloc(c)) \/ (\E b \in clients : Kfree(b))
Spec == Init /\ [][Next]_vars

-----------------------------------------------------------------------------

Exists(s)     == m.of[s] # "none"
Structures(s) == {m.home[s][k] : k \in DOMAIN m.home[s]}
Inner         == UNION {Structures(s) : s \in {q \in Slabs : Exists(q)}}
Blocks        == UNION {{s} \X (0..(Cnt(m, s) - 1)) : s \in {q \in Slabs : Exists(q)}}

TypeOK ==
  /\ \A c \in Caches : ToSet(m.ring[c]) \subseteq Slabs /\ m.cacheFree[c] \in Nat
  /\ m.of \in [Slabs -> Caches \cup {"none"}] /\ m.free \in [Slabs -> Nat]
  /\ m.pages \subseteq Pages /\ m.stuck \in BOOLEAN
  /\ answer \in {"none", "block", "refused", "out of memory", "freed", "lost", "stuck"}

(* A block has one holder: the bitmaps mark exactly the blocks of clients   *)
(* and of slab structures, never the same for two, and no page is given     *)
(* back while one of its blocks is held, though kfree finds pages, slabs and *)
(* their structures in one another.                                         *)
OneHolder ==
  ~m.stuck =>
    /\ clients \cap Inner = {}
    /\ clients \cup Inner = {b \in Blocks : b[2] \in m.used[b[1]]}
    /\ \A s, r \in Slabs : s # r => Structures(s) \cap Structures(r) = {}
    /\ \A s \in Pages : Exists(s) <=> s \notin m.pages

(* the free blocks of a cache's slabs, those below each page                 *)
FreeBelow(f) == LET sum[n \in Nat] == IF n = 0 THEN 0 ELSE sum[n - 1] + f[n - 1] IN sum
FreeIn(x, c) == [s \in Nat |-> IF s \in Slabs /\ x.of[s] = c THEN x.free[s] ELSE 0]
FreeBlocks(x, c) == FreeBelow(FreeIn(x, c))[LastPage + 2]

(* The counts agree with the bitmaps, those of lost slabs included: kmalloc *)
(* decides by the cache's count whether to search or to push a new slab.    *)
(* Whatever is lost or stuck, the variables keep their types.               *)
CountsAgree ==
  /\ TypeOK
  /\ m.stuck \/ \A s \in Slabs : Exists(s) => m.free[s] = Cnt(m, s) - Cardinality(m.used[s])
  /\ m.stuck \/ \A c \in Caches :
       m.cacheFree[c] = FreeBlocks(m, c)

=============================================================================
