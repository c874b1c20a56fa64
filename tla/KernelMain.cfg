SPECIFICATION Spec
CONSTANTS
  VGA_WIDTH = 2
  VGA_HEIGHT = 5
  Nibble = 4
  Volumes <- MCVolumes
  FileSizes = {7, 10, 42}
  FileFlags = {0, 1}
  StackBytes = {0, 46}
  TssBases = {6939, 57005}
  MaxStack = 12
INVARIANTS ScreenShowsText SelectorsDecode IdleIsClean PrintedSizeReadsBack
PROPERTY IrqServed
