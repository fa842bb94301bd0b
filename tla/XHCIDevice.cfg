CONSTANTS
  p1 = p1  s1 = s1
  Ports = {p1}
  Slots = {s1}
  MaxDevs = 3
  Moves = 3
  None = none
SPECIFICATION Spec
INVARIANT OneOwner
INVARIANT FaultWindows
PROPERTY ManagersGoOn
CHECK_DEADLOCK FALSE
