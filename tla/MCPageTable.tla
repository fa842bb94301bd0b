---------------------------- MODULE MCPageTable ----------------------------
(* User addresses in one and in two last tables, kernel addresses under a  *)
(* slot that boot has filled, under a new one, and under a large page.     *)
EXTENDS PageTable
MCUser   == {<<0, 1, 1, 1>>, <<0, 1, 1, 0>>, <<0, 0, 0, 0>>}
MCStack  == <<0, 1, 1, 1>>
MCKernel == {<<1, 1, 0, 0>>, <<2, 0, 1, 0>>, <<2, 0, 1, 1>>, <<1, 0, 0, 0>>}
MCPhys   == {<<91>>}
MCPage0  == {{}, {0}}   \* page 0 empty, or with an entry that is not 0
============================================================================
