\* All tables of 6 entries, requests of 0 to 7 blocks.
CONSTANTS
  TotalEntries = 6
  BlockSize = 2
  AddrBlocks = 16
  HeapBlock = 5
  ENOMEM = 4
  Tables <- MCTables
  Requests = {0, 2, 4, 6, 8, 10, 12, 14}
SPECIFICATION FairSearchSpec
INVARIANTS LowestFit ComputesFirstFit
PROPERTY SearchEnds
CHECK_DEADLOCK FALSE
