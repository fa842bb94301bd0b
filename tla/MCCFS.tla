------------------------------- MODULE MCCFS -------------------------------
(* Three tasks of one processor, whose init task has pid 1.                *)
EXTENDS CFS
ThreePids == {1, 4, 7}
=============================================================================
