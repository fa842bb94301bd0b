CONSTANTS
  MaxOrder = 2
  Zones <- TwoZones
  Limit4G = 12
  Tasks = {t1, t2}
  UsageWidth = 4
  MaxForeign = 1
  Share = share
  Free = free
  NULL = null
SPECIFICATION Spec
SYMMETRY EitherTask
INVARIANT UsageExact
INVARIANT FramesTileMemory
INVARIANT BitmapIsParity
PROPERTY ImplementsPageAllocator
