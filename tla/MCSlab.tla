------------------------------- MODULE MCSlab -------------------------------
(* Slabs of a few blocks, some longer than a word of the bitmap.           *)
EXTENDS Slab
SixAndTwo  == [small |-> 6, big |-> 2]
FiveAndTwo == [small |-> 5, big |-> 2]
=============================================================================
