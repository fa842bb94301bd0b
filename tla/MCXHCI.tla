------------------------------- MODULE MCXHCI -------------------------------
(* Instances of XHCI: the command ring of all tasks, one endpoint's ring.   *)
EXTENDS XHCI, TLC
CONSTANTS cmd, ep, t1, t2

CmdAndEp == cmd :> Tasks @@ ep :> {t1}
OneOrTwo == cmd :> {1} @@ ep :> {2}
OneThree == cmd :> 1 @@ ep :> 3
=============================================================================
