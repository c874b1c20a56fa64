\* All strings of up to 5 characters, empty components included.
CONSTANTS
  MaxLen = 5
  Chars <- MCChars
  Paths <- MCAllPaths
  Digits = {"0"}
  MAX_PATH_LENGTH = 7
  HeapCapacity = 4
SPECIFICATION FairSpec
PROPERTY ParseReturns
CHECK_DEADLOCK FALSE
