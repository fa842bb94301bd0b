------------------------------- MODULE RBTree -------------------------------
(***************************************************************************)
(* The red-black tree of kernel/lib/rbtree.c.  Insertion and deletion hold *)
(* the tree's lock from end to end, so each is one step; inside they       *)
(* follow the code's rotations and loops.  A node stands for its key: the  *)
(* comparator is < on nodes, never called on equal keys (rbtree.h:33).     *)
(* The code writes every case twice, for the left and the right side; here *)
(* the side is a parameter.                                                *)
(***************************************************************************)
EXTENDS Naturals, Sequences, FiniteSets, FiniteSetsExt

CONSTANT Nodes     \* a set of positive numbers: the nodes, by key

ASSUME RBTreeAssumption == Nodes \subseteq Nat \ {0}

NULL == 0
Sides == {"l", "r"}
Other(s) == IF s = "l" THEN "r" ELSE "l"

VARIABLE t  \* [root, kid (a child per side), par, red (the set of red nodes)]

None == [n \in Nodes |-> NULL]
Init == t = [root |-> NULL, kid |-> [s \in Sides |-> None], par |-> None, red |-> {}]

IsRed(x, n) == n # NULL /\ n \in x.red

(* makes n the child of p that old was, or the root                         *)
Replace(x, p, old, n) ==
  IF p = NULL THEN [x EXCEPT !.root = n]
  ELSE IF x.kid.l[p] = old THEN [x EXCEPT !.kid.l[p] = n]
  ELSE [x EXCEPT !.kid.r[p] = n]

SetParent(x, n, p) == IF n = NULL THEN x ELSE [x EXCEPT !.par[n] = p]
Paint(x, reds, blacks) == [x EXCEPT !.red = (@ \cup reds) \ blacks]

(* _rotLeft (s = "l") and _rotRight: n goes down on side s                  *)
Rotate(x, n, s) ==
  LET up    == x.kid[Other(s)][n]
      inner == x.kid[s][up]
      x1 == SetParent([x EXCEPT !.kid[Other(s)][n] = inner], inner, n)
      x2 == Replace([x1 EXCEPT !.kid[s][up] = n, !.par[up] = x.par[n]], x.par[n], n, up)
  IN SetParent(x2, n, up)

-----------------------------------------------------------------------------

RECURSIVE FixAfterIns(_, _)
FixAfterIns(x, n) ==
  LET p == x.par[n] IN
  IF ~IsRed(x, p) THEN Paint(x, {}, {x.root})
  ELSE
    LET g == x.par[p]
        s == IF p = x.kid.l[g] THEN "l" ELSE "r"
        uncle == x.kid[Other(s)][g]
        inner == x.kid[Other(s)][p] = n
        x1 == IF inner THEN Rotate(x, p, s) ELSE x
        top == IF inner THEN n ELSE p
        low == IF inner THEN p ELSE n
    IN IF IsRed(x, uncle)
         THEN FixAfterIns(Paint(x, {g}, {uncle, p}), g)
         ELSE FixAfterIns(Rotate(Paint(x1, {g}, {top}), g, Other(s)), low)

(* RBTree_insert: where the comparator's descent for n ends                 *)
RECURSIVE Descend(_, _, _)
Descend(x, n, at) ==
  LET s == IF n < at THEN "l" ELSE "r" IN
  IF x.kid[s][at] = NULL THEN <<at, s>> ELSE Descend(x, n, x.kid[s][at])

InsNodeUnfixed(x, n) ==  \* a faulty variant: no rebalancing
  IF x.root = NULL THEN [x EXCEPT !.root = n]
  ELSE LET at == Descend(x, n, x.root) IN
       Paint([x EXCEPT !.par[n] = at[1], !.kid[at[2]][at[1]] = n], {n}, {})

InsNode(x, n) ==
  IF x.root = NULL THEN [x EXCEPT !.root = n]
  ELSE LET at == Descend(x, n, x.root) IN
       FixAfterIns(Paint([x EXCEPT !.par[n] = at[1], !.kid[at[2]][at[1]] = n], {n}, {}), n)

-----------------------------------------------------------------------------
(* n (perhaps NULL), a child of p, roots a subtree one black node short.    *)
RECURSIVE FixAfterDel(_, _, _)
FixAfterDel(x, n, p) ==
  IF IsRed(x, n) \/ n = x.root THEN (IF n = NULL THEN x ELSE Paint(x, {}, {n}))
  ELSE
    LET s  == IF x.kid.l[p] = n THEN "l" ELSE "r"
        o  == Other(s)
        x1 == IF IsRed(x, x.kid[o][p])
                THEN Rotate(Paint(x, {p}, {x.kid[o][p]}), p, s) ELSE x
        sib == x1.kid[o][p]
        near == x1.kid[s][sib]
        x2 == IF IsRed(x1, x1.kid[o][sib]) THEN x1
              ELSE Rotate(Paint(x1, {sib}, {near}), sib, o)
        sib2 == x2.kid[o][p]
        x3 == Paint(x2, IF IsRed(x2, p) THEN {sib2} ELSE {},
                        {p, x2.kid[o][sib2]} \cup (IF IsRed(x2, p) THEN {} ELSE {sib2}))
    IN IF ~IsRed(x1, near) /\ ~IsRed(x1, x1.kid[o][sib])
         THEN FixAfterDel(Paint(x1, {sib}, {}), p, x1.par[p])
         ELSE LET x4 == Rotate(x3, p, s) IN Paint(x4, {}, {x4.root})

RECURSIVE Leftmost(_, _)
Leftmost(x, n) == IF x.kid.l[n] = NULL THEN n ELSE Leftmost(x, x.kid.l[n])
RECURSIVE Rightmost(_, _)
Rightmost(x, n) == IF x.kid.r[n] = NULL THEN n ELSE Rightmost(x, x.kid.r[n])

(* unlink a node with at most one child                                     *)
DelOuter(x, n) ==
  LET child == IF x.kid.l[n] = NULL THEN x.kid.r[n] ELSE x.kid.l[n]
      p  == x.par[n]
      x1 == Replace(SetParent(x, child, p), p, n, child)
  IN IF IsRed(x, n) THEN x1 ELSE FixAfterDel(x1, child, p)

(* A faulty variant: the successor does not take over the left subtree.     *)
DelInnerDropsLeft(x, old) ==
  LET n     == Leftmost(x, x.kid.r[old])
      child == x.kid.r[n]
      p     == x.par[n]
      x1 == Replace(SetParent(x, child, p), p, n, child)
      x2 == Replace([x1 EXCEPT !.par[n] = x1.par[old], !.kid.r[n] = x1.kid.r[old],
                               !.red = IF old \in @ THEN @ \cup {n} ELSE @ \ {n}],
                    x1.par[old], old, n)
  IN SetParent(x2, x2.kid.r[old], n)

(* put the successor in the place, with the colour, of a node with two      *)
DelInner(x, old) ==
  LET n     == Leftmost(x, x.kid.r[old])
      child == x.kid.r[n]
      p     == x.par[n]
      x1 == Replace(SetParent(x, child, p), p, n, child)
      x2 == [x1 EXCEPT !.par[n] = x1.par[old], !.kid.l[n] = x1.kid.l[old],
                       !.kid.r[n] = x1.kid.r[old],
                       !.red = IF old \in @ THEN @ \cup {n} ELSE @ \ {n}]
      x3 == Replace(x2, x1.par[old], old, n)
      x4 == SetParent(SetParent(x3, x3.kid.l[old], n), x3.kid.r[old], n)
  IN IF IsRed(x, n) THEN x4 ELSE FixAfterDel(x4, child, IF p = old THEN n ELSE p)

DelNode(x, n) ==
  IF x.kid.l[n] = NULL \/ x.kid.r[n] = NULL THEN DelOuter(x, n) ELSE DelInner(x, n)

GetMin(x) == IF x.root = NULL THEN NULL ELSE Leftmost(x, x.root)
GetMax(x) == IF x.root = NULL THEN NULL ELSE Rightmost(x, x.root)

-----------------------------------------------------------------------------

RECURSIVE InOrder(_, _)
InOrder(x, n) ==
  IF n = NULL THEN <<>> ELSE InOrder(x, x.kid.l[n]) \o <<n>> \o InOrder(x, x.kid.r[n])

Contents == InOrder(t, t.root)
Members  == {Contents[i] : i \in DOMAIN Contents}

Insert(n) == n \notin Members /\ t' = InsNode(t, n)

(* The links left in a removed node are dead: insNode overwrites them.      *)
Forget(x, n) == [x EXCEPT !.kid.l[n] = NULL, !.kid.r[n] = NULL, !.par[n] = NULL, !.red = @ \ {n}]
Delete(n) == n \in Members /\ t' = Forget(DelNode(t, n), n)

Next == \E n \in Nodes : Insert(n) \/ Delete(n)
Spec == Init /\ [][Next]_t

-----------------------------------------------------------------------------

ParentsAgree ==
  /\ t.root # NULL => t.par[t.root] = NULL
  /\ \A n \in Members, s \in Sides : t.kid[s][n] # NULL => t.par[t.kid[s][n]] = n

RECURSIVE BlackHeights(_, _)
BlackHeights(x, n) ==
  IF n = NULL THEN {0}
  ELSE {h + (IF IsRed(x, n) THEN 0 ELSE 1) :
          h \in BlackHeights(x, x.kid.l[n]) \cup BlackHeights(x, x.kid.r[n])}

(* Whatever sequence of insertions and deletions, the root is black, no red *)
(* node has a red child and every path has as many black nodes: the depth   *)
(* of the run queue and timer trees stays logarithmic.  Every child points  *)
(* to its parent, which delNode and the fixups walk up through.             *)
Balanced ==
  /\ ParentsAgree
  /\ ~IsRed(t, t.root)
  /\ \A n \in Members, s \in Sides : IsRed(t, n) => ~IsRed(t, t.kid[s][n])
  /\ Cardinality(BlackHeights(t, t.root)) = 1

(* Each operation changes the ordered set by exactly its node: rotations    *)
(* and the successor's move lose, duplicate and disorder nothing; and       *)
(* RBTree_getMin and RBTree_getMax, as the scheduler, the recycler and the  *)
(* timers use them, find its first and last node.                           *)
Ordered == INSTANCE OrderedSet
             WITH seq <- Contents, first <- GetMin(t), last <- GetMax(t)
ImplementsOrderedSet == Ordered!Spec
=============================================================================
