\* Every FAT of 3 clusters of two bytes, with cyclic and crossed chains and
\* each kind of end; positions in the first 3 clusters and one before the file.
CONSTANTS
  Clusters = 3
  ClusterBytes = 2
  SectorSize = 2
  RootDirBytes = 4
  Entries = {0, 2, 3, 4, 65520, 65527, 65535}
  Offsets <- MCOffsets
  Totals = {1, 2, 3, 5}
SPECIFICATION FairSpec
INVARIANTS TypeOK OneClusterRead ContiguousRead FailsBeforeStart
PROPERTY ReadReturns
CHECK_DEADLOCK FALSE
