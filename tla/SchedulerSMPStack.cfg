CONSTANTS
  c0 = c0  c1 = c1
  init0 = init0  init1 = init1  task0 = task0  recyc = recyc
  w1 = w1  w3 = w3
  None = None
  Task0 = task0
  Recycler = recyc
  Cpus = {c0, c1}
  Tasks = {init0, init1, task0, recyc, w1}
  Home <- TwoCpuHome
  Idle <- TwoCpuIdle
SPECIFICATION Spec
INVARIANT StackInUseNotFreed
