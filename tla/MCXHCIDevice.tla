---------------------------- MODULE MCXHCIDevice ----------------------------
(* Instances of XHCIDevice: its ports and slots.                            *)
EXTENDS XHCIDevice
CONSTANTS p1, s1
=============================================================================
