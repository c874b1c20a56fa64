\* 5 sectors of 4 bytes: a read may start at any offset and span 3 sectors.
\* With registers of one bit the LBA needs three of them.  Commands
\* for up to 3 sectors, which the count register writes as 0.
CONSTANTS
  Sectors = 5
  WordsPerSector = 2
  RegBase = 2
  CountBase = 3
  DiskIds = {0, 1}
  Totals = {0, 1, 2, 3, 6, 9}
  MaxTotal = 3
SPECIFICATION FairSpec
INVARIANTS WordsInOrder TransferComplete ReadsSlice HeapBalanced
PROPERTIES PositionFollowsRead ReadReturns
