------------------------------ MODULE MCBuddy ------------------------------
(* Two zones, the first not aligned to the largest order, the second above *)
(* the 4 GB limit: roots of one page and of four, splits and merges over   *)
(* three orders.  Two tasks, one of which may free or divide a frame of    *)
(* the other, once; counts wrap at 16 pages.                               *)
EXTENDS Buddy, TLC
TwoZones == <<[first |-> 3, last |-> 7], [first |-> 14, last |-> 14]>>
EitherTask == Permutations(Tasks)
=============================================================================
