\* Two indices and up to 3 calls of fopen, so that the table fills; paths that
\* exist, that end at a file too early and that miss a part; a directory that
\* is empty and one that fills its cluster.
CONSTANTS
  RootEntries <- MCRoot
  SubDirs <- MCSubDirs
  Raw <- MCRaw
  EntriesPerCluster = 4
  FS_MAX_FILE_DESCRIPTORS = 2
  OpenPaths <- MCOpenPaths
  Modes <- MCModes
  Drives = {0, 1}
  Offsets <- MCOffsets
  PosMod = 2
  MaxOpens = 3
SPECIFICATION FairSpec
INVARIANTS TypeOK HeapAccounted OpensWhatPathNames FailsOnlyIfAbsent
PROPERTY OpenReturns
