SPECIFICATION Spec
CONSTANTS
  TotalEntries = 126
  BlockSize = 24
  AddrBlocks = 144
  HeapBlock = 12
  ENOMEM = 12
  PAGING_PAGE_SIZE = 24
  PAGING_TOTAL_ENTRIES_PER_TABLE = 12
  EntrySize = 2
  EINVAL = 22
  EIO = 5
  Files <- MCFiles
  ReadSuccess = {0, 1}
  MAX_PROCESSES = 2
  PROGRAM_VIRTUAL_ADDRESS = 288
  PROGRAM_USER_PROGRAM_STACK_SIZE = 24
  MaxLoads = 3
INVARIANTS ListLinked ProcessHeapAccounted UserWritesOwnImage
PROPERTY ImplementsTaskQueue
CHECK_DEADLOCK FALSE
