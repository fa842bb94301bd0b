--------------------------- MODULE PageAllocator ----------------------------
(***************************************************************************)
(* What an allocator of aligned page frames promises: frames that are held *)
(* never overlap, a frame is given back as it was got, and a request is    *)
(* refused only when no free run of pages would serve it.                  *)
(***************************************************************************)
EXTENDS Naturals

CONSTANTS MaxOrder, Zones, Limit4G

VARIABLES held,     \* the frames in use, <<first page, order>>
          refused   \* the request the last call refused, or <<>>

Run(f)    == f[1]..(f[1] + 2^f[2] - 1)
AllPages  == UNION {Zones[z].first..Zones[z].last : z \in DOMAIN Zones}
HeldPages == UNION {Run(f) : f \in held}

(* Frame f is free and may answer a request (low: below 4 GB).              *)
Serves(f, low) ==
  /\ f[1] % 2^f[2] = 0
  /\ \E z \in DOMAIN Zones : Run(f) \subseteq Zones[z].first..Zones[z].last
  /\ Run(f) \cap HeldPages = {}
  /\ low => f[1] < Limit4G

Init == held = {} /\ refused = <<>>

(* A request is answered with a frame that serves it, or refused.           *)
Alloc == \E f \in held' \ held, low \in BOOLEAN :
  /\ f[2] \in 0..MaxOrder /\ Serves(f, low)
  /\ held' = held \cup {f} /\ refused' = <<>>

Refuse(o, low) ==
  /\ refused' = <<o, low>> /\ UNCHANGED held
  /\ o > MaxOrder \/ \A p \in AllPages : ~Serves(<<p, o>>, low)

Release == \E f \in held \ held' : held' = held \ {f} /\ refused' = <<>>

Split == \E f \in held \ held' :
  LET half == f[1] + 2^(f[2] - 1) IN
  /\ f[2] > 0
  /\ held' = (held \ {f}) \cup {<<f[1], f[2] - 1>>, <<half, f[2] - 1>>}
  /\ refused' = <<>>

Next ==
  \/ Alloc \/ Release \/ Split
  \/ \E o \in 0..(MaxOrder + 1), low \in BOOLEAN : Refuse(o, low)

Spec == Init /\ [][Next]_<<held, refused>>
=============================================================================
