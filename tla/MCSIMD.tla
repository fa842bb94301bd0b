------------------------------- MODULE MCSIMD -------------------------------
(* Two processors with their init tasks and a task more that is on either, *)
(* one after the other.  Blocks are interchangeable, and so are values.    *)
EXTENDS SIMD, TLC

CONSTANTS c1, c2, t1, t2, t3

InitOf == [c \in Cpus |-> IF c = c1 THEN t1 ELSE t2]
Symmetry == Permutations(Blocks) \cup Permutations(Values)

=============================================================================
