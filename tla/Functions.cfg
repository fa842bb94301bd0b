CONSTANTS
  MaxOrder = 2
  PageSize = 8
  PageStruct = 1
  Word = 4
  ByteBits = 2
  TableEntries = 4
  GB = 32
  MinGB = 2
  KernelSt = 8
  ImageEnd = 12
  MemoryMaps <- MCMaps
  U8 = 32
  OctetBits = 2
  WindowBits = 6
  TwoMB = 16
  LbaShift = 1
  EntriesPerLba = 2
  PageLbas = 2
  BlkPages = 8
  DescPagesPerBlk = 1
  BmPagesPerBlk = 1
  MinLbas = 16
  Columns = 3
  Rows = 2
  Tab = 2
  Vectors = 12
  SpareSt = 4
  SpareNum = 4
  FirstTr = 12
  XhciIntrs = 2
  NvmeIntrs = 3
  IntBits = 4
  LongBits = 8
  PtrDigits = 2
  StackWords = 128
  Faults = {0, 1, 2, 3, 4, 5, 6, 7, 8, 9, 10, 11, 12, 13, 14, 16, 17, 18, 19, 20}
  MaxEvents = 6
  KeyCodes = {224, 29, 157, 16}
  BufferSize = 2
  MaxKeys = 4
SPECIFICATION Spec
INVARIANT BootLeavesSoundZones
 
INVARIANT DisksFormatted
INVARIANT ScreenShowsText
INVARIANT ProcessorsKnown
INVARIANT InterruptsReachDrivers
INVARIANT LibraryExact
INVARIANT KeysRead
INVARIANT FramesRestored
CHECK_DEADLOCK FALSE
