\* Reads that may cross the end of a cluster.
CONSTANTS
  Clusters = 3
  ClusterBytes = 2
  SectorSize = 2
  RootDirBytes = 4
  Entries = {4, 65535}
  Offsets <- MCOffsets
  Totals = {1, 2, 3, 5}
SPECIFICATION FairSpec
INVARIANT ReadsFile
CHECK_DEADLOCK FALSE
