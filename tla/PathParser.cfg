\* All strings of up to 5 characters, and all drive paths with up to 5 more,
\* without an empty component.  Nothing exhausts the heap.
CONSTANTS
  MaxLen = 5
  Chars <- MCChars
  Paths <- MCDrivePaths
  Digits = {"0"}
  MAX_PATH_LENGTH = 7
  HeapCapacity = 20
SPECIFICATION FairSpec
INVARIANTS TypeOK PartsAreComponents FreeReleasesAll
PROPERTY ParseReturns
CHECK_DEADLOCK FALSE
