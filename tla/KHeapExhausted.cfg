\* A heap that two-block requests fill.
CONSTANTS
  TotalEntries = 4
  BlockSize = 2
  AddrBlocks = 16
  HeapBlock = 5
  ENOMEM = 4
  Sizes = {1, 2}
  Garbage <- MCGarbage
SPECIFICATION Spec
INVARIANT ReturnsHeapMemory
