CONSTANTS
  BuddyPages = 8
  InitOrder = 3
  RefillOrder = 2
  MinCache = 2
  MaxCache = 4
  Tasks = {1, 2}
  UserAddrs <- MCUser
  KernelAddrs <- MCKernel
  UserStack <- MCStack
  Phys <- MCPhys
  Leftovers <- MCPage0
SPECIFICATION Spec
INVARIANT TablesOwned
PROPERTY ImplementsAddressSpaces
CHECK_DEADLOCK FALSE
