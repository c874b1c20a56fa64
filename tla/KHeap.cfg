\* Requests of 1 block, of 2 (ENOMEM of them: a failed search makes the marking
\* endless), of 3 (more than ENOMEM), and of the last byte size (wraps to 0).
CONSTANTS
  TotalEntries = 4
  BlockSize = 2
  AddrBlocks = 16
  HeapBlock = 5
  ENOMEM = 2
  Sizes = {1, 2, 5, 31}
  Garbage <- MCGarbage
SPECIFICATION Spec
INVARIANTS TypeOK TableMirrorsLive LiveDisjoint RoomForRequest
PROPERTIES LiveDataIntact FirstFitLowest ImplementsHeapAbs
CHECK_DEADLOCK FALSE
