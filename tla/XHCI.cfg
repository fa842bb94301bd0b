CONSTANTS
  cmd = cmd  ep = ep  t1 = t1  t2 = t2
  Tasks = {t1, t2}
  Rings = {cmd, ep}
  Users <- CmdAndEp
  Lens <- OneOrTwo
  Halting = {ep}
  Size <- OneThree
  EveSize = 3
  QueSize = 3
  None = none
SPECIFICATION Spec
INVARIANT OnlyLiveTRBs
INVARIANT OneCompletion
INVARIANT RequestAlive
PROPERTY Answered
CHECK_DEADLOCK FALSE
