\* Two names of the same length: strcasecmp takes the greater one for equal.
CONSTANTS
  RootEntries <- SameLengthRoot
  SubDirs <- MCSubDirs
  Raw <- MCRaw
  EntriesPerCluster = 4
  FS_MAX_FILE_DESCRIPTORS = 2
  OpenPaths <- SameLengthPaths
  Drives = {0}
  Modes <- MCModes
  Offsets = {1}
  PosMod = 4
  MaxOpens = 2
SPECIFICATION FairSpec
INVARIANT OpensWhatPathNames
