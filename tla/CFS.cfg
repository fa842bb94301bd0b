CONSTANTS
  Pids <- ThreePids
  InitPid = 1
  Quantum = 4
  MaxStale = 5
SPECIFICATION Spec
INVARIANT LagBounded
PROPERTY ImplementsRunQueue
