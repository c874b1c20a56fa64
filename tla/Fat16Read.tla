----------------------------- MODULE Fat16Read -----------------------------
(***************************************************************************)
(* Reading a file's bytes through its cluster chain: fat16_read,           *)
(* read_internal, get_cluster and cluster_to_sector of                     *)
(* kernel/fs/fat/fat16.cpp.                                                *)
(*                                                                         *)
(* A byte of the disk is its position, counted from the first sector of    *)
(* the root directory.  disk::streamer::read delivers the bytes from its   *)
(* position on (DiskStreamer), so one call is one step.  The chain is      *)
(* followed entry by entry.                                                *)
(***************************************************************************)
EXTENDS Integers, Sequences, SequencesExt

CONSTANTS
  Clusters,       \* number of data clusters; they are 2 .. Clusters + 1
  ClusterBytes,   \* sectors_per_cluster * sector_size
  SectorSize,
  RootDirBytes,   \* root_dir_entries * sizeof(fat_directory_item)
  Entries,        \* entries that the FAT may hold
  Offsets,        \* positions that a file is read from
  Totals          \* block_size * num_blocks of the reads

ASSUME ReadAssumption ==
  /\ Clusters \in Nat \ {0}
  /\ SectorSize \in Nat \ {0}
  /\ ClusterBytes \in Nat \ {0} /\ ClusterBytes % SectorSize = 0
  /\ RootDirBytes \in Nat
  /\ Offsets \subseteq Int
  /\ Totals \subseteq Nat \ {0}

VARIABLES
  fat,                            \* the file allocation table
  starting_cluster, offset, total_bytes,   \* the arguments
  pc,                             \* "loop", "chain" or "done"
  cluster, idx,                   \* the walk of get_cluster
  bytes_read,
  output,                         \* the caller's buffer
  res                             \* the value returned

vars == <<fat, starting_cluster, offset, total_bytes, pc, cluster, idx, bytes_read, output, res>>
args == <<fat, starting_cluster, offset, total_bytes>>

EIO == 5

DataClusters == 2 .. (Clusters + 1)

\* What get_first_cluster finds in an item; an empty file has 0 there.
Starts == DataClusters \cup {0}

FAT16_UNUSED == 0
FAT16_FAT_BAD_SECTOR == 65527
Reserved  == 65520 .. 65526
LastInFile == 65528 .. 65535

\* The volume: an entry of the FAT names a data cluster or ends the chain, and
\* the root directory ends on a sector boundary (64 entries of 32 bytes in
\* boot.asm), as sector_pos_end below takes it to.
ASSUME VolumeAssumption ==
  /\ Clusters + 1 < 65520
  /\ Entries \subseteq DataClusters \cup LastInFile \cup Reserved
                       \cup {FAT16_FAT_BAD_SECTOR, FAT16_UNUSED}
  /\ RootDirBytes % SectorSize = 0

\* Entry 0 of the FAT: 0 on the image that the Makefile builds, which formats
\* nothing; the media type of boot.asm, 0xF8, where a formatter has written it.
FirstEntries == {FAT16_UNUSED, 65528}

\* What a byte of the buffer is before the read.
Untouched == -1000

Init ==
  /\ \E first \in FirstEntries, data \in [DataClusters -> Entries] :
       fat = [c \in Starts |-> IF c = 0 THEN first ELSE data[c]]
  /\ starting_cluster \in Starts
  /\ offset \in Offsets
  /\ total_bytes \in Totals
  /\ pc = "loop"
  /\ cluster = 0
  /\ idx = 0
  /\ bytes_read = 0
  /\ output = [i \in 1 .. total_bytes |-> Untouched]
  /\ res = 0

----------------------------------------------------------------------------
\* Division of C: the quotient is truncated towards zero.
CDiv(m, n) == IF m >= 0 THEN m \div n ELSE -((-m) \div n)
CMod(m, n) == m - n * CDiv(m, n)

cluster_offset == CDiv(offset, ClusterBytes)
offset_from_cluster == CMod(offset, ClusterBytes)

\* get_root_directory rounds root_dir_total_sectors up, and sets
\* sector_pos_end from the quotient that is not rounded up.
sector_pos_end == RootDirBytes \div SectorSize

\* A mutant forgets that the first data cluster has the number 2.
cluster_to_pos_zero(c) == sector_pos_end * SectorSize + c * ClusterBytes

\* cluster_to_sector, times the sector size.
cluster_to_pos(c) == sector_pos_end * SectorSize + (c - 2) * ClusterBytes

\* A pass of the loop starts again at the first cluster.
BeginPass ==
  /\ pc = "loop"
  /\ bytes_read < total_bytes
  /\ cluster' = starting_cluster
  /\ idx' = 0
  /\ pc' = "chain"
  /\ UNCHANGED <<args, bytes_read, output, res>>

\* The entries at which get_cluster gives up.
Ends(entry) ==
  entry \in LastInFile \cup Reserved \cup {FAT16_FAT_BAD_SECTOR, FAT16_UNUSED}

\* A mutant follows the chain for one entry too many.
FollowChain_extra ==
  /\ pc = "chain"
  /\ idx <= cluster_offset
  /\ ~Ends(fat[cluster])
  /\ cluster' = fat[cluster]
  /\ idx' = idx + 1
  /\ UNCHANGED <<args, pc, bytes_read, output, res>>

FollowChain ==
  /\ pc = "chain"
  /\ idx < cluster_offset
  /\ ~Ends(fat[cluster])
  /\ cluster' = fat[cluster]
  /\ idx' = idx + 1
  /\ UNCHANGED <<args, pc, bytes_read, output, res>>

\* A mutant gives up at the cluster that holds the first byte, if it is the last.
ChainEnds_early ==
  /\ pc = "chain"
  /\ idx <= cluster_offset
  /\ Ends(fat[cluster])
  /\ res' = -EIO
  /\ pc' = "done"
  /\ UNCHANGED <<args, cluster, idx, bytes_read, output>>

ChainEnds ==
  /\ pc = "chain"
  /\ idx < cluster_offset
  /\ Ends(fat[cluster])
  /\ res' = -EIO
  /\ pc' = "done"
  /\ UNCHANGED <<args, cluster, idx, bytes_read, output>>

\* A mutant asks the streamer for whole clusters.
total_to_read_whole == ClusterBytes

total_to_read ==
  LET bytes_remaining == total_bytes - bytes_read
  IN  IF bytes_remaining > ClusterBytes THEN ClusterBytes ELSE bytes_remaining

\* The output of disk::streamer::read overwrites the buffer from its start.
Deliver(pos, n) ==
  [i \in 1 .. Max({n, Len(output)}) |-> IF i <= n THEN pos + i - 1 ELSE output[i]]

\* A mutant does not count the bytes it has read.
ReadCluster_nocount ==
  /\ pc = "chain"
  /\ idx >= cluster_offset
  /\ output' = Deliver(cluster_to_pos(cluster) + offset_from_cluster, total_to_read)
  /\ pc' = "loop"
  /\ UNCHANGED <<args, cluster, idx, bytes_read, res>>

\* Neither offset nor output moves on.
ReadCluster ==
  /\ pc = "chain"
  /\ idx >= cluster_offset
  /\ output' = Deliver(cluster_to_pos(cluster) + offset_from_cluster, total_to_read)
  /\ bytes_read' = bytes_read + total_to_read
  /\ pc' = "loop"
  /\ UNCHANGED <<args, cluster, idx, res>>

Return ==
  /\ pc = "loop"
  /\ bytes_read >= total_bytes
  /\ pc' = "done"
  /\ UNCHANGED <<args, cluster, idx, bytes_read, output, res>>

Next == BeginPass \/ FollowChain \/ ChainEnds \/ ReadCluster \/ Return

Spec == Init /\ [][Next]_vars

\* Nothing interrupts the read.
FairSpec == Spec /\ WF_vars(Next)

----------------------------------------------------------------------------
(* Type invariant; the buffer keeps the size that the caller gave it.      *)
TypeOK ==
  /\ pc \in {"loop", "chain", "done"}
  /\ cluster \in Starts
  /\ idx \in Nat
  /\ bytes_read \in 0 .. total_bytes
  /\ Len(output) = total_bytes
  /\ res \in {0, -EIO}

\* The cluster after c in a table, 0 if there is none.
NextCluster(table, c) ==
  IF c \in DataClusters /\ table[c] \in DataClusters THEN table[c] ELSE 0

\* The k-th cluster, from 0, of the chain that begins at first; 0 if it has
\* ended before.
ChainFrom(table, first, k) ==
  LET chain[j \in Nat] == IF j = 0 THEN first ELSE NextCluster(table, chain[j - 1])
  IN  chain[k]

\* The k-th cluster of the file; an empty file has none.
ChainCluster(k) == ChainFrom(fat, starting_cluster, k)

\* Where the data of the volume begins: the root directory fills whole sectors.
DataStart == ((RootDirBytes + SectorSize - 1) \div SectorSize) * SectorSize

\* The position on the disk of byte n of the file.
FileByte(n) ==
  DataStart + (ChainCluster(n \div ClusterBytes) - 2) * ClusterBytes + (n % ClusterBytes)

Delivered(n) == \A i \in 1 .. n : output[i] = FileByte(offset + i - 1)

Succeeded == pc = "done" /\ res = 0

Contiguous == \A c \in DataClusters : fat[c] \in DataClusters => fat[c] = c + 1

LastByteExists == ChainCluster((offset + total_bytes - 1) \div ClusterBytes) # 0

\* The first cluster of the file is not one: a read takes it for one that lies
\* two clusters before the data, among the root directory and the FATs.
EmptyFile == starting_cluster = 0

(* A read that stays in one cluster delivers the file's bytes, for every   *)
(* chain, cyclic ones included, of a file that has bytes.                  *)
OneClusterRead ==
  Succeeded /\ ~EmptyFile /\ offset >= 0
            /\ offset_from_cluster + total_bytes <= ClusterBytes
    => Delivered(total_bytes)

(* A read of at most a cluster may cross into the next cluster of the file *)
(* if the file lies in consecutive clusters.                               *)
ContiguousRead ==
  Succeeded /\ offset >= 0 /\ total_bytes <= ClusterBytes /\ Contiguous /\ LastByteExists
    => Delivered(total_bytes)

(* A read fails exactly if the chain ends before the first byte asked for, *)
(* with one exception: of an empty file the bytes that its first cluster   *)
(* would hold are read, as if cluster 0 were one.                          *)
FailsBeforeStart ==
  pc = "done" =>
    (res < 0 <=> /\ offset >= 0 /\ ChainCluster(offset \div ClusterBytes) = 0
                 /\ ~(EmptyFile /\ offset < ClusterBytes))

(* A read of a file delivers the bytes asked for, if the file has them.    *)
ReadsFile == Succeeded /\ offset >= 0 /\ LastByteExists => Delivered(total_bytes)

(* A read returns, even on a cyclic chain.                                 *)
ReadReturns == <>(pc = "done")

============================================================================
