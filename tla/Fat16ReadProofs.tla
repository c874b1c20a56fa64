-------------------------- MODULE Fat16ReadProofs --------------------------
(***************************************************************************)
(* What a read through a cluster chain delivers, for every size of the     *)
(* volume and of a cluster, every FAT, cyclic ones included, every         *)
(* position and every count.                                               *)
(***************************************************************************)
EXTENDS Fat16Read, Numbers

Arguments ==
  /\ fat[0] \in FirstEntries /\ \A c \in DataClusters : fat[c] \in Entries
  /\ starting_cluster \in Starts
  /\ offset \in Int
  /\ total_bytes \in Nat \ {0}

(* The walk of get_cluster is at entry idx of the chain and has not passed *)
(* the cluster of the first byte.                                          *)
Walk ==
  pc = "chain" =>
    /\ cluster \in Starts
    /\ cluster = 0 => EmptyFile /\ idx = 0
    /\ cluster = ChainCluster(idx)
    /\ idx = 0 \/ idx <= cluster_offset
    /\ bytes_read < total_bytes

(* What read_internal knows of the chain when it has read something, and   *)
(* when it has given up.                                                   *)
Outcome ==
  /\ pc # "done" => res = 0
  /\ pc = "done" /\ res = 0 => bytes_read = total_bytes
  /\ bytes_read > 0 /\ offset >= 0 =>
       ChainCluster(cluster_offset) \in DataClusters \/ (EmptyFile /\ cluster_offset = 0)
  /\ res # 0 => /\ offset >= 0 /\ ChainCluster(cluster_offset) = 0
                /\ cluster_offset > 0

(* The bytes of a read that one pass of the loop serves.                   *)
OnePass ==
  offset >= 0 /\ total_bytes <= ClusterBytes /\ bytes_read > 0 =>
    /\ bytes_read = total_bytes
    /\ \A i \in 1 .. total_bytes :
         output[i] = cluster_to_pos(ChainCluster(cluster_offset)) + offset_from_cluster + i - 1

Inv == Arguments /\ TypeOK /\ output \in [1 .. total_bytes -> Int] /\ Walk /\ Outcome /\ OnePass

----------------------------------------------------------------------------
(* The chain.                                                              *)

(* A chain is followed cluster by cluster.                                 *)
LEMMA ChainSteps ==
  ASSUME NEW table, NEW first \in Starts
  PROVE  /\ ChainFrom(table, first, 0) = first
         /\ \A k \in Nat :
              /\ ChainFrom(table, first, k) \in Starts
              /\ ChainFrom(table, first, k + 1)
                   = NextCluster(table, ChainFrom(table, first, k))
<1> DEFINE S == Starts
           g == [p \in Nat \X S |-> NextCluster(table, p[2])]
           body(f) == [j \in Nat |-> IF j = 0 THEN first ELSE NextCluster(table, f[j - 1])]
           ch == CHOOSE f : f = body(f)
<1>1. first \in S /\ g \in Steps(S)
  BY DEF NextCluster, Steps, Starts
<1>2. PICK f : IsIteration(f, S, first, g)
  <2> HIDE DEF g, S
  <2>1. first \in S
    BY <1>1
  <2>2. g \in Steps(S)
    BY <1>1
  <2>3. QED
    BY <2>1, <2>2, IterationExists
<1>3. f = body(f)
  <2>1. ASSUME NEW j \in Nat
        PROVE  f[j] = IF j = 0 THEN first ELSE NextCluster(table, f[j - 1])
    <3>1. f[j] = IF j = 0 THEN first ELSE g[<<j - 1, f[j - 1]>>]
      BY <1>2 DEF IsIteration
    <3>2. j # 0 => f[j - 1] \in S
      <4> HIDE DEF S, g, body
      <4>1. f \in [Nat -> S]
        BY <1>2 DEF IsIteration
      <4>2. j # 0 => j - 1 \in Nat
        OBVIOUS
      <4>3. QED
        BY <4>1, <4>2
    <3>3. QED
      BY <3>1, <3>2
  <2>2. QED
    BY <1>2, <2>1 DEF IsIteration
<1>4. ch = body(ch)
  BY <1>3
<1>5. \A k \in Nat : ChainFrom(table, first, k) = ch[k]
  BY DEF ChainFrom
<1> HIDE DEF ch
<1>6. ch[0] = first /\ \A k \in Nat : ch[k + 1] = NextCluster(table, ch[k])
  <2>1. \A j \in Nat : ch[j] = IF j = 0 THEN first ELSE NextCluster(table, ch[j - 1])
    BY <1>4
  <2>2. \A k \in Nat : k + 1 \in Nat /\ k + 1 # 0 /\ (k + 1) - 1 = k
    OBVIOUS
  <2>3. QED
    BY <2>1, <2>2
<1>7. \A k \in Nat : ch[k] \in S
  <2>1. ASSUME NEW k \in Nat PROVE ch[k] \in S
    <3>1. CASE k = 0
      BY <1>1, <1>6, <3>1
    <3>2. CASE k # 0
      <4>1. k - 1 \in Nat /\ k = (k - 1) + 1
        BY <3>2
      <4>2. ch[k] = NextCluster(table, ch[k - 1])
        BY <1>6, <4>1
      <4>3. QED
        BY <4>2 DEF NextCluster, Starts
    <3>3. QED
      BY <3>1, <3>2
  <2>2. QED
    BY <2>1
<1>8. QED
  BY <1>5, <1>6, <1>7

(* A chain that has ended does not go on.                                  *)
LEMMA ChainStaysEnded ==
  ASSUME NEW table, NEW first \in Starts, NEW k \in Nat, NEW m \in Nat, k <= m,
         ChainFrom(table, first, k) = 0
  PROVE  ChainFrom(table, first, m) = 0
<1> DEFINE A == {n \in Nat : ChainFrom(table, first, k + n) = 0}
<1>1. 0 \in A
  OBVIOUS
<1>2. ASSUME NEW n \in A PROVE n + 1 \in A
  <2>1. n \in Nat /\ k + n \in Nat /\ k + (n + 1) = (k + n) + 1
    BY <1>2
  <2>2. ChainFrom(table, first, k + n) = 0
    BY <1>2
  <2>3. ChainFrom(table, first, (k + n) + 1) = NextCluster(table, 0)
    BY <2>1, <2>2, ChainSteps
  <2>4. 0 \notin DataClusters
    BY DEF DataClusters
  <2>5. QED
    BY <2>1, <2>3, <2>4 DEF NextCluster
<1>3. A \in SUBSET Nat
  OBVIOUS
<1>4. A = Nat
  <2> HIDE DEF A
  <2>1. QED
    BY <1>1, <1>2, <1>3, SetInduction
<1>5. m - k \in Nat /\ k + (m - k) = m
  OBVIOUS
<1>6. m - k \in A
  BY <1>4, <1>5
<1>7. QED
  BY <1>5, <1>6

(* get_cluster gives up at an entry exactly if the chain has no next       *)
(* cluster there.                                                          *)
LEMMA EntryEnds ==
  ASSUME Arguments, NEW c \in Starts
  PROVE  /\ Ends(fat[c]) => NextCluster(fat, c) = 0
         /\ ~Ends(fat[c]) => NextCluster(fat, c) = fat[c] /\ fat[c] \in DataClusters
<1>1. CASE c = 0
  <2>1. Ends(fat[c])
    BY <1>1 DEF Arguments, FirstEntries, Ends, LastInFile, FAT16_UNUSED
  <2>2. 0 \notin DataClusters
    BY DEF DataClusters
  <2>3. QED
    BY <1>1, <2>1, <2>2 DEF NextCluster
<1>2. Ends(fat[c]) => fat[c] \notin DataClusters
  BY ReadAssumption, VolumeAssumption
     DEF Ends, DataClusters, LastInFile, Reserved, FAT16_FAT_BAD_SECTOR, FAT16_UNUSED
<1>3. CASE c \in DataClusters
  <2>1. fat[c] \in Entries
    BY <1>3 DEF Arguments
  <2>2. ~Ends(fat[c]) => fat[c] \in DataClusters
    BY <2>1, VolumeAssumption DEF Ends
  <2>3. QED
    BY <1>2, <1>3, <2>2 DEF NextCluster
<1>4. QED
  BY <1>1, <1>3 DEF Starts

----------------------------------------------------------------------------
(* Positions.                                                              *)

(* The division of C and that of TLA+ agree from 0 on; below 0 the cluster *)
(* number that fat16_read computes is not positive.                        *)
LEMMA FirstCluster ==
  ASSUME NEW n \in Int, NEW B \in Nat \ {0}
  PROVE  /\ CDiv(n, B) \in Int
         /\ n >= 0 => CDiv(n, B) = n \div B /\ CDiv(n, B) \in Nat
                      /\ CMod(n, B) = n % B
         /\ n < 0 => CDiv(n, B) <= 0
         /\ CMod(n, B) \in Int
<1>1. CASE n >= 0
  <2>1. n \in Nat /\ CDiv(n, B) = n \div B
    BY <1>1 DEF CDiv
  <2>2. n \div B \in Nat /\ n = (n \div B) * B + (n % B) /\ n % B \in 0 .. (B - 1)
    BY <2>1, DivModNat
  <2>3. CMod(n, B) = n - B * (n \div B)
    BY <2>1 DEF CMod
  <2> DEFINE q == n \div B
             r == n % B
  <2>4. B * q = q * B /\ q * B \in Nat
    BY <2>2
  <2>5. n - B * q = r
    <3> HIDE DEF q, r
    <3>1. n = q * B + r /\ r \in Nat
      BY <2>2 DEF q, r
    <3>2. QED
      BY <2>4, <3>1
  <2>6. QED
    BY <1>1, <2>1, <2>2, <2>3, <2>5
<1>2. CASE n < 0
  <2>1. -n \in Nat /\ (-n) \div B \in Nat
    BY <1>2, DivModNat
  <2>2. CDiv(n, B) = -((-n) \div B)
    BY <1>2 DEF CDiv
  <2>3. CDiv(n, B) \in Int /\ CDiv(n, B) <= 0
    BY <2>1, <2>2
  <2>4. CMod(n, B) = n - B * CDiv(n, B)
    BY DEF CMod
  <2>5. QED
    BY <1>2, <2>3, <2>4
<1>3. QED
  BY <1>1, <1>2

(* The data begins where sector_pos_end says.                              *)
LEMMA DataBegins == DataStart = sector_pos_end * SectorSize /\ DataStart \in Nat
<1> DEFINE q == RootDirBytes \div SectorSize
<1>1. /\ SectorSize \in Nat \ {0} /\ RootDirBytes \in Nat
      /\ q \in Nat /\ RootDirBytes = q * SectorSize + 0
  BY ReadAssumption, VolumeAssumption, DivModNat
<1> HIDE DEF q
<1>2. (RootDirBytes + SectorSize - 1) \div SectorSize = q
  <2>1. RootDirBytes + SectorSize - 1 = q * SectorSize + (SectorSize - 1)
    <3> DEFINE p == q * SectorSize
    <3>1. p \in Nat /\ RootDirBytes = p
      BY <1>1
    <3> HIDE DEF p
    <3>2. RootDirBytes + SectorSize - 1 = p + (SectorSize - 1)
      BY <1>1, <3>1
    <3>3. QED
      BY <3>2 DEF p
  <2>2. SectorSize - 1 \in 0 .. (SectorSize - 1)
    BY <1>1
  <2>3. QED
    BY <1>1, <2>1, <2>2, DivModUnique
<1>3. QED
  BY <1>1, <1>2 DEF DataStart, sector_pos_end, q

----------------------------------------------------------------------------
(* The read.                                                               *)

LEMMA Constants ==
  ASSUME Arguments
  PROVE  /\ cluster_offset \in Int /\ offset_from_cluster \in Int
         /\ offset >= 0 => /\ cluster_offset = offset \div ClusterBytes
                           /\ cluster_offset \in Nat
                           /\ offset_from_cluster = offset % ClusterBytes
         /\ offset < 0 => cluster_offset <= 0
BY ReadAssumption, FirstCluster DEF Arguments, cluster_offset, offset_from_cluster

\* The arguments and what is computed from them stay as they are.
LEMMA SameArguments ==
  ASSUME Arguments, UNCHANGED args
  PROVE  /\ Arguments'
         /\ cluster_offset' = cluster_offset /\ offset_from_cluster' = offset_from_cluster
         /\ \A k : ChainCluster(k)' = ChainCluster(k)
BY DEF args, Arguments, cluster_offset, offset_from_cluster, ChainCluster

LEMMA InitInv == Init => Inv
<1> SUFFICES ASSUME Init PROVE Inv
  OBVIOUS
<1>1. Arguments
  <2>1. PICK first \in FirstEntries, data \in [DataClusters -> Entries] :
               fat = [c \in Starts |-> IF c = 0 THEN first ELSE data[c]]
    BY DEF Init
  <2>2. 0 \in Starts /\ \A c \in DataClusters : c \in Starts /\ c # 0
    BY DEF Starts, DataClusters
  <2>3. fat[0] \in FirstEntries /\ \A c \in DataClusters : fat[c] \in Entries
    BY <2>1, <2>2
  <2>4. QED
    BY <2>3, ReadAssumption DEF Init, Arguments
<1>2. output \in [1 .. total_bytes -> Int] /\ Len(output) = total_bytes
  BY <1>1 DEF Init, Arguments, Untouched
<1>3. TypeOK
  BY <1>1, <1>2 DEF Init, Arguments, TypeOK, EIO, Starts
<1>4. QED
  BY <1>1, <1>2, <1>3 DEF Init, Inv, Walk, Outcome, OnePass

LEMMA PassBegins == ASSUME Inv, BeginPass PROVE Inv'
<1>1. /\ pc = "loop" /\ bytes_read < total_bytes /\ cluster' = starting_cluster
      /\ idx' = 0 /\ pc' = "chain" /\ UNCHANGED <<args, bytes_read, output, res>>
  BY DEF BeginPass
<1>2. /\ Arguments' /\ total_bytes' = total_bytes /\ starting_cluster \in Starts
      /\ cluster_offset' = cluster_offset /\ offset_from_cluster' = offset_from_cluster
      /\ \A k : ChainCluster(k)' = ChainCluster(k)
  BY <1>1, SameArguments DEF Inv, Arguments, args
<1>3. ChainCluster(0) = starting_cluster
  BY <1>2, ChainSteps DEF ChainCluster
<1>4. TypeOK'
  BY <1>1, <1>2 DEF Inv, TypeOK
<1>5. Walk'
  BY <1>1, <1>2, <1>3 DEF Walk, EmptyFile, args
<1>6. Outcome' /\ OnePass'
  BY <1>1, <1>2 DEF Inv, Outcome, OnePass, cluster_to_pos, EmptyFile, args
<1>7. QED
  BY <1>1, <1>2, <1>4, <1>5, <1>6 DEF Inv

LEMMA ChainFollowed == ASSUME Inv, FollowChain PROVE Inv'
<1>1. /\ pc = "chain" /\ idx < cluster_offset /\ ~Ends(fat[cluster])
      /\ cluster' = fat[cluster] /\ idx' = idx + 1
      /\ UNCHANGED <<args, pc, bytes_read, output, res>>
  BY DEF FollowChain
<1>2. /\ Arguments /\ Arguments' /\ total_bytes' = total_bytes
      /\ cluster_offset' = cluster_offset /\ offset_from_cluster' = offset_from_cluster
      /\ \A k : ChainCluster(k)' = ChainCluster(k)
  BY <1>1, SameArguments DEF Inv, args
<1>3. /\ cluster \in Starts /\ cluster = ChainCluster(idx) /\ idx \in Nat
      /\ bytes_read < total_bytes
  BY <1>1 DEF Inv, Walk, TypeOK
<1>4. fat[cluster] \in DataClusters /\ NextCluster(fat, cluster) = fat[cluster]
  BY <1>1, <1>2, <1>3, EntryEnds
<1>5. ChainCluster(idx + 1) = fat[cluster]
  BY <1>2, <1>3, <1>4, ChainSteps DEF ChainCluster, Arguments
<1>6. idx + 1 \in Nat /\ idx + 1 <= cluster_offset
  BY <1>1, <1>2, <1>3, Constants
<1>7. TypeOK'
  BY <1>1, <1>2, <1>4, <1>6 DEF Inv, TypeOK, Starts
<1>8. Walk'
  <2>1. fat[cluster] \in Starts /\ fat[cluster] # 0
    BY <1>4 DEF Starts, DataClusters
  <2>2. QED
    BY <1>1, <1>2, <1>3, <1>5, <1>6, <2>1 DEF Walk
<1>9. Outcome' /\ OnePass'
  BY <1>1, <1>2 DEF Inv, Outcome, OnePass, cluster_to_pos, EmptyFile, args
<1>10. QED
  BY <1>1, <1>2, <1>7, <1>8, <1>9 DEF Inv

(* get_cluster gives up: the file has no cluster at the position.          *)
LEMMA ChainGivenUp == ASSUME Inv, ChainEnds PROVE Inv'
<1>1. /\ pc = "chain" /\ idx < cluster_offset /\ Ends(fat[cluster])
      /\ res' = -EIO /\ pc' = "done"
      /\ UNCHANGED <<args, cluster, idx, bytes_read, output>>
  BY DEF ChainEnds
<1>2. /\ Arguments /\ Arguments' /\ total_bytes' = total_bytes /\ offset' = offset
      /\ cluster_offset' = cluster_offset /\ offset_from_cluster' = offset_from_cluster
      /\ \A k : ChainCluster(k)' = ChainCluster(k)
  BY <1>1, SameArguments DEF Inv, args
<1>3. cluster \in Starts /\ cluster = ChainCluster(idx) /\ idx \in Nat
  BY <1>1 DEF Inv, Walk, TypeOK
<1>4. ChainCluster(idx + 1) = 0
  <2>1. NextCluster(fat, cluster) = 0
    BY <1>1, <1>2, <1>3, EntryEnds
  <2>2. QED
    BY <1>2, <1>3, <2>1, ChainSteps DEF ChainCluster, Arguments
<1>5. /\ offset >= 0 /\ cluster_offset \in Nat /\ cluster_offset > 0
      /\ idx + 1 \in Nat /\ idx + 1 <= cluster_offset
  <2>1. offset \in Int /\ cluster_offset \in Int
    BY <1>2, Constants DEF Arguments
  <2>2. ~(cluster_offset <= 0)
    BY <1>1, <1>3, <2>1
  <2>3. offset >= 0
    BY <1>2, <2>1, <2>2, Constants
  <2>4. QED
    BY <1>1, <1>3, <2>1, <2>2, <2>3
<1>6. ChainCluster(cluster_offset) = 0
  BY <1>2, <1>4, <1>5, ChainStaysEnded DEF ChainCluster, Arguments
<1>7. TypeOK'
  BY <1>1, <1>2 DEF Inv, TypeOK
<1>8. Walk' /\ Outcome'
  BY <1>1, <1>2, <1>5, <1>6 DEF Inv, Walk, Outcome, EIO, EmptyFile, args
<1>9. OnePass'
  BY <1>1, <1>2 DEF Inv, OnePass, cluster_to_pos
<1>10. QED
  BY <1>1, <1>2, <1>7, <1>8, <1>9 DEF Inv

(* A pass reads at most a cluster, and something.                          *)
LEMMA PassSize ==
  ASSUME Inv, bytes_read < total_bytes
  PROVE  /\ total_to_read \in Nat \ {0} /\ bytes_read + total_to_read \in 0 .. total_bytes
         /\ total_bytes <= ClusterBytes /\ bytes_read = 0 => total_to_read = total_bytes
<1>1. ClusterBytes \in Nat \ {0} /\ bytes_read \in Nat /\ total_bytes \in Nat
  BY ReadAssumption DEF Inv, TypeOK, Arguments
<1>2. QED
  BY <1>1 DEF total_to_read

LEMMA ClusterRead == ASSUME Inv, ReadCluster PROVE Inv'
<1> DEFINE pos == cluster_to_pos(cluster) + offset_from_cluster
           n == total_to_read
<1>1. /\ pc = "chain" /\ idx >= cluster_offset
      /\ output' = Deliver(pos, n) /\ bytes_read' = bytes_read + n
      /\ pc' = "loop" /\ UNCHANGED <<args, cluster, idx, res>>
  BY DEF ReadCluster
<1>2. /\ Arguments /\ Arguments' /\ total_bytes' = total_bytes /\ offset' = offset
      /\ cluster_offset' = cluster_offset /\ offset_from_cluster' = offset_from_cluster
      /\ \A k : ChainCluster(k)' = ChainCluster(k)
  BY <1>1, SameArguments DEF Inv, args
<1>3. /\ cluster \in Starts /\ cluster = ChainCluster(idx) /\ idx \in Nat
      /\ cluster = 0 => EmptyFile /\ idx = 0
      /\ idx = 0 \/ idx <= cluster_offset
      /\ bytes_read < total_bytes /\ res = 0
  BY <1>1 DEF Inv, Walk, TypeOK, Outcome
<1>4. offset >= 0 => idx = cluster_offset
  <2>1. offset >= 0 => cluster_offset \in Nat
    BY <1>2, Constants
  <2>2. QED
    BY <1>1, <1>3, <2>1
<1>5. /\ n \in Nat \ {0} /\ bytes_read + n \in 0 .. total_bytes
      /\ total_bytes <= ClusterBytes /\ bytes_read = 0 => n = total_bytes
  BY <1>3, PassSize
<1>6. pos \in Int
  <2>1. cluster_to_pos(cluster) \in Int
    <3>1. DataStart \in Nat /\ cluster \in Int /\ ClusterBytes \in Nat
      BY <1>3, ReadAssumption, DataBegins DEF DataClusters, Starts
    <3>2. (cluster - 2) * ClusterBytes \in Int
      BY <3>1
    <3>3. QED
      BY <3>1, <3>2, DataBegins DEF cluster_to_pos
  <2>2. QED
    BY <1>2, <2>1, Constants
<1>7. /\ bytes_read \in Nat /\ total_bytes \in Nat /\ Len(output) = total_bytes
      /\ output \in [1 .. total_bytes -> Int]
  BY DEF Inv, TypeOK, Arguments
<1> HIDE DEF pos, n
<1>8. output' = [i \in 1 .. total_bytes |-> IF i <= n THEN pos + i - 1 ELSE output[i]]
  <2>1. Max({n, Len(output)}) = total_bytes
    BY <1>5, <1>7, MaxOfTwo
  <2>2. QED
    BY <1>1, <2>1 DEF Deliver
<1>9. output' \in [1 .. total_bytes -> Int] /\ Len(output') = total_bytes
  <2>1. \A i \in 1 .. total_bytes : (IF i <= n THEN pos + i - 1 ELSE output[i]) \in Int
    BY <1>5, <1>6, <1>7
  <2>2. output' \in [1 .. total_bytes -> Int]
    BY <1>8, <2>1
  <2>3. QED
    BY <1>7, <2>2
<1>10. TypeOK'
  BY <1>1, <1>2, <1>5, <1>9 DEF Inv, TypeOK
<1>11. Walk' /\ Outcome'
  <2>1. offset >= 0 => ChainCluster(cluster_offset) \in DataClusters
                       \/ (EmptyFile /\ cluster_offset = 0)
    BY <1>3, <1>4 DEF Starts
  <2>2. QED
    BY <1>1, <1>2, <1>3, <2>1 DEF Inv, Walk, Outcome, EmptyFile, args
<1>12. OnePass'
  <2> SUFFICES ASSUME offset >= 0, total_bytes <= ClusterBytes
               PROVE  /\ bytes_read' = total_bytes
                      /\ \A i \in 1 .. total_bytes :
                           output'[i] = cluster_to_pos(ChainCluster(cluster_offset))
                                          + offset_from_cluster + i - 1
    BY <1>2 DEF OnePass, cluster_to_pos
  <2>1. bytes_read = 0
    <3>1. bytes_read > 0 => bytes_read = total_bytes
      BY DEF Inv, OnePass
    <3>2. QED
      BY <1>3, <1>7, <3>1
  <2>2. n = total_bytes
    BY <1>5, <2>1
  <2>3. pos = cluster_to_pos(ChainCluster(cluster_offset)) + offset_from_cluster
    BY <1>3, <1>4 DEF pos
  <2>4. \A i \in 1 .. total_bytes : output'[i] = pos + i - 1
    BY <1>7, <1>8, <2>2
  <2>5. bytes_read' = total_bytes
    BY <1>1, <1>7, <2>1, <2>2
  <2>6. QED
    BY <2>3, <2>4, <2>5
<1>13. QED
  BY <1>2, <1>9, <1>10, <1>11, <1>12 DEF Inv

LEMMA ReadEnds == ASSUME Inv, Return PROVE Inv'
<1>1. /\ pc = "loop" /\ bytes_read >= total_bytes /\ pc' = "done"
      /\ UNCHANGED <<args, cluster, idx, bytes_read, output, res>>
  BY DEF Return
<1>2. /\ Arguments' /\ total_bytes' = total_bytes /\ offset' = offset
      /\ cluster_offset' = cluster_offset /\ offset_from_cluster' = offset_from_cluster
      /\ \A k : ChainCluster(k)' = ChainCluster(k)
  BY <1>1, SameArguments DEF Inv, args
<1>3. bytes_read = total_bytes
  BY <1>1 DEF Inv, TypeOK, Arguments
<1>4. TypeOK'
  BY <1>1, <1>2 DEF Inv, TypeOK
<1>5. Walk' /\ Outcome'
  BY <1>1, <1>2, <1>3 DEF Inv, Walk, Outcome, EmptyFile, args
<1>6. OnePass'
  BY <1>1, <1>2 DEF Inv, OnePass, cluster_to_pos
<1>7. QED
  BY <1>1, <1>2, <1>4, <1>5, <1>6 DEF Inv

LEMMA NextInv == Inv /\ [Next]_vars => Inv'
<1> SUFFICES ASSUME Inv, [Next]_vars PROVE Inv'
  OBVIOUS
<1>1. CASE UNCHANGED vars
  <2>1. UNCHANGED <<args, pc, cluster, idx, bytes_read, output, res>>
    BY <1>1 DEF vars, args
  <2>2. /\ Arguments' /\ total_bytes' = total_bytes /\ offset' = offset
        /\ cluster_offset' = cluster_offset /\ offset_from_cluster' = offset_from_cluster
        /\ \A k : ChainCluster(k)' = ChainCluster(k)
    BY <2>1, SameArguments DEF Inv, args
  <2>3. TypeOK' /\ Walk' /\ Outcome'
    BY <2>1, <2>2 DEF Inv, TypeOK, Walk, Outcome, EmptyFile, args
  <2>4. OnePass'
    BY <2>1, <2>2 DEF Inv, OnePass, cluster_to_pos
  <2>5. QED
    BY <2>1, <2>2, <2>3, <2>4 DEF Inv
<1>2. QED
  BY <1>1, PassBegins, ChainFollowed, ChainGivenUp, ClusterRead, ReadEnds DEF Next

LEMMA ReadInvariant == Spec => []Inv
BY InitInv, NextInv, PTL DEF Spec

----------------------------------------------------------------------------
(* The bytes of the file.                                                  *)

(* Byte i of a read lies in the cluster of the first byte or in the next.  *)
LEMMA ByteInChain ==
  ASSUME Arguments, offset >= 0, NEW i \in Nat, i > 0,
         NEW j, j = offset_from_cluster + i - 1, j < ClusterBytes + ClusterBytes
  PROVE  /\ j \in Nat /\ offset_from_cluster \in 0 .. (ClusterBytes - 1)
         /\ (offset + i - 1) \div ClusterBytes
              = IF j < ClusterBytes THEN cluster_offset ELSE cluster_offset + 1
         /\ FileByte(offset + i - 1)
              = IF j < ClusterBytes
                THEN DataStart + (ChainCluster(cluster_offset) - 2) * ClusterBytes + j
                ELSE DataStart + (ChainCluster(cluster_offset + 1) - 2) * ClusterBytes
                       + (j - ClusterBytes)
<1> DEFINE B == ClusterBytes
           q == cluster_offset
           r == offset_from_cluster
           p == q * B
           n == offset + i - 1
<1>1. B \in Nat \ {0} /\ offset \in Nat
  BY ReadAssumption DEF Arguments
<1>2. q \in Nat /\ q = offset \div B /\ r = offset % B
  BY <1>1, Constants
<1>3. r \in 0 .. (B - 1) /\ offset = p + r
  BY <1>1, <1>2, DivModNat
<1>4. p \in Nat
  BY <1>1, <1>2
<1>5. (q + 1) * B = p + B
  BY <1>1, <1>2
<1>6. j = r + i - 1 /\ j < B + B
  OBVIOUS
<1> HIDE DEF B, q, r, p
<1>7. j \in Nat /\ n = p + j
  BY <1>1, <1>3, <1>4, <1>6
<1> HIDE DEF n
<1>8. CASE j < B
  <2>1. n \div B = q /\ n % B = j
    <3>1. j \in 0 .. (B - 1) /\ n = q * B + j
      BY <1>1, <1>7, <1>8 DEF p
    <3>2. B \in Nat \ {0} /\ q \in Nat
      BY <1>1, <1>2
    <3>3. QED
      BY <3>1, <3>2, DivModOfSum
  <2>2. FileByte(n) = DataStart + (ChainCluster(q) - 2) * B + j
    BY <2>1 DEF FileByte, B
  <2>3. QED
    BY <1>3, <1>7, <1>8, <2>1, <2>2 DEF n, B, q, r
<1>9. CASE ~(j < B)
  <2>1. n \div B = q + 1 /\ n % B = j - B
    <3>1. j - B \in 0 .. (B - 1) /\ n = (q + 1) * B + (j - B) /\ q + 1 \in Nat
      <4>1. j - B \in 0 .. (B - 1) /\ n = (p + B) + (j - B) /\ q + 1 \in Nat
        BY <1>1, <1>2, <1>4, <1>6, <1>7, <1>9
      <4>2. QED
        BY <1>5, <4>1
    <3>2. B \in Nat \ {0} /\ q \in Nat
      BY <1>1, <1>2
    <3>3. QED
      BY <3>1, <3>2, DivModOfSum
  <2>2. FileByte(n) = DataStart + (ChainCluster(q + 1) - 2) * B + (j - B)
    BY <2>1 DEF FileByte, B
  <2>3. QED
    BY <1>3, <1>7, <1>9, <2>1, <2>2 DEF n, B, q, r
<1>10. QED
  BY <1>8, <1>9

(* What one pass has delivered, in terms of the volume.                    *)
LEMMA PassDelivered ==
  ASSUME Inv, Succeeded, ~EmptyFile, offset >= 0, total_bytes <= ClusterBytes
  PROVE  /\ ChainCluster(cluster_offset) \in DataClusters
         /\ \A i \in 1 .. total_bytes :
              output[i] = DataStart + (ChainCluster(cluster_offset) - 2) * ClusterBytes
                            + (offset_from_cluster + i - 1)
<1>1. bytes_read = total_bytes /\ total_bytes > 0
  BY DEF Inv, Succeeded, Outcome, Arguments
<1> DEFINE c == ChainCluster(cluster_offset)
           base == (c - 2) * ClusterBytes
<1>2. c \in DataClusters
  BY <1>1 DEF Inv, Outcome
<1>3. \A i \in 1 .. total_bytes : output[i] = cluster_to_pos(c) + offset_from_cluster + i - 1
  BY <1>1 DEF Inv, OnePass
<1>4. base \in Int
  <2> HIDE DEF c
  <2>1. c \in Int /\ ClusterBytes \in Int
    BY <1>2, ReadAssumption DEF DataClusters
  <2>2. QED
    BY <2>1
<1>5. cluster_to_pos(c) = DataStart + base
  BY DataBegins DEF cluster_to_pos
<1>6. DataStart \in Int /\ offset_from_cluster \in Int /\ total_bytes \in Int
  BY DataBegins, Constants DEF Inv, Arguments
<1> HIDE DEF base
<1>7. \A i \in 1 .. total_bytes :
        cluster_to_pos(c) + offset_from_cluster + i - 1
          = DataStart + base + (offset_from_cluster + i - 1)
  BY <1>4, <1>5, <1>6
<1>8. QED
  BY <1>2, <1>3, <1>7 DEF base

LEMMA OneCluster == Inv => OneClusterRead
<1> SUFFICES ASSUME Inv, Succeeded, ~EmptyFile, offset >= 0,
                    offset_from_cluster + total_bytes <= ClusterBytes,
                    NEW i \in 1 .. total_bytes
             PROVE  output[i] = FileByte(offset + i - 1)
  BY DEF OneClusterRead, Delivered
<1>1. /\ Arguments /\ total_bytes \in Nat \ {0} /\ ClusterBytes \in Nat \ {0}
      /\ i \in Nat /\ i > 0 /\ offset \in Nat
  BY ReadAssumption DEF Inv, Arguments
<1>2. offset_from_cluster \in 0 .. (ClusterBytes - 1)
  BY <1>1, Constants, DivModNat
<1>3. total_bytes <= ClusterBytes
  BY <1>1, <1>2
<1> DEFINE j == offset_from_cluster + i - 1
<1>4. j < ClusterBytes /\ j < ClusterBytes + ClusterBytes
  BY <1>1, <1>2
<1>5. FileByte(offset + i - 1)
        = DataStart + (ChainCluster(cluster_offset) - 2) * ClusterBytes + j
  <2> HIDE DEF j
  <2>1. j = offset_from_cluster + i - 1
    BY DEF j
  <2>2. QED
    BY <1>1, <1>4, <2>1, ByteInChain
<1>6. output[i] = DataStart + (ChainCluster(cluster_offset) - 2) * ClusterBytes + j
  BY <1>3, PassDelivered
<1>7. QED
  BY <1>5, <1>6

(* A file that has a byte is not empty.                                    *)
LEMMA HasBytes ==
  ASSUME Arguments, offset >= 0, LastByteExists
  PROVE  ~EmptyFile
<1> DEFINE m == (offset + total_bytes - 1) \div ClusterBytes
<1>1. m \in Nat
  <2>1. offset + total_bytes - 1 \in Nat /\ ClusterBytes \in Nat \ {0}
    BY ReadAssumption DEF Arguments
  <2>2. QED
    BY <2>1, DivModNat
<1> HIDE DEF m
<1>2. SUFFICES ASSUME EmptyFile PROVE ChainFrom(fat, starting_cluster, m) = 0
  BY DEF LastByteExists, ChainCluster, m
<1>3. starting_cluster \in Starts /\ ChainFrom(fat, starting_cluster, 0) = 0
  BY <1>2, ChainSteps DEF Arguments, EmptyFile
<1>4. 0 \in Nat /\ 0 <= m
  BY <1>1
<1>5. QED
  BY <1>1, <1>3, <1>4, ChainStaysEnded

LEMMA ContiguousClusters == Inv => ContiguousRead
<1> SUFFICES ASSUME Inv, Succeeded, offset >= 0, total_bytes <= ClusterBytes,
                    Contiguous, LastByteExists, NEW i \in 1 .. total_bytes
             PROVE  output[i] = FileByte(offset + i - 1)
  BY DEF ContiguousRead, Delivered
<1>1. /\ Arguments /\ total_bytes \in Nat \ {0} /\ ClusterBytes \in Nat \ {0}
      /\ i \in Nat /\ i > 0 /\ offset \in Nat
  BY ReadAssumption DEF Inv, Arguments
<1>2. offset_from_cluster \in 0 .. (ClusterBytes - 1) /\ cluster_offset \in Nat
  BY <1>1, Constants, DivModNat
<1> DEFINE j == offset_from_cluster + i - 1
           l == offset_from_cluster + total_bytes - 1
           c == ChainCluster(cluster_offset)
           d == ChainCluster(cluster_offset + 1)
<1>3. j < ClusterBytes + ClusterBytes /\ l < ClusterBytes + ClusterBytes /\ j <= l
  BY <1>1, <1>2
<1>4. /\ c \in DataClusters
      /\ output[i] = DataStart + (c - 2) * ClusterBytes + j
  <2>1. ~EmptyFile
    BY <1>1, HasBytes
  <2>2. QED
    BY <2>1, PassDelivered
<1>5. FileByte(offset + i - 1)
        = IF j < ClusterBytes THEN DataStart + (c - 2) * ClusterBytes + j
          ELSE DataStart + (d - 2) * ClusterBytes + (j - ClusterBytes)
  <2> HIDE DEF j
  <2>1. j = offset_from_cluster + i - 1
    BY DEF j
  <2>2. QED
    BY <1>1, <1>3, <2>1, ByteInChain
<1>6. CASE j < ClusterBytes
  BY <1>4, <1>5, <1>6
<1>7. CASE ~(j < ClusterBytes)
  <2>1. ~(l < ClusterBytes)
    BY <1>1, <1>2, <1>3, <1>7
  <2>2. (offset + total_bytes - 1) \div ClusterBytes = cluster_offset + 1
    <3> HIDE DEF l
    <3>1. l = offset_from_cluster + total_bytes - 1 /\ total_bytes \in Nat /\ total_bytes > 0
      BY <1>1 DEF l
    <3>2. QED
      BY <1>1, <1>3, <2>1, <3>1, ByteInChain
  <2>3. d # 0
    BY <2>2 DEF LastByteExists
  <2>4. d = NextCluster(fat, c)
    BY <1>1, <1>2, ChainSteps DEF ChainCluster, Arguments
  <2> HIDE DEF c, d
  <2>5. d = c + 1
    BY <2>3, <2>4 DEF NextCluster, Contiguous
  <2>6. c \in Int
    BY <1>4 DEF DataClusters
  <2>7. (d - 2) * ClusterBytes = (c - 2) * ClusterBytes + ClusterBytes
        /\ (c - 2) * ClusterBytes \in Int
    BY <1>1, <2>5, <2>6
  <2> DEFINE base == (c - 2) * ClusterBytes
  <2>8. FileByte(offset + i - 1) = DataStart + (base + ClusterBytes) + (j - ClusterBytes)
    BY <1>5, <1>7, <2>7
  <2>9. base \in Int /\ DataStart \in Int /\ j \in Int /\ ClusterBytes \in Int
    BY <1>1, <1>2, <2>7, DataBegins
  <2>10. output[i] = DataStart + base + j
    BY <1>4
  <2> HIDE DEF base, j
  <2>11. QED
    BY <2>8, <2>9, <2>10
<1>8. QED
  BY <1>6, <1>7

(* A position below the size of a cluster is in the first one.             *)
LEMMA DivZero ==
  ASSUME NEW n \in Nat, NEW B \in Nat \ {0}
  PROVE  n \div B = 0 <=> n < B
<1> DEFINE q == n \div B
           r == n % B
<1>1. q \in Nat /\ r \in 0 .. (B - 1) /\ n = q * B + r
  BY DivModNat
<1> HIDE DEF q, r
<1>2. CASE q = 0
  BY <1>1, <1>2 DEF q
<1>3. CASE q # 0
  <2>1. q * B >= B /\ q * B \in Nat
    BY <1>1, <1>3
  <2>2. n >= B
    BY <1>1, <2>1
  <2>3. QED
    BY <1>3, <2>2 DEF q
<1>4. QED
  BY <1>2, <1>3

LEMMA FailureCause == Inv => FailsBeforeStart
<1> SUFFICES ASSUME Inv, pc = "done"
             PROVE  res < 0 <=> /\ offset >= 0 /\ ChainCluster(offset \div ClusterBytes) = 0
                                /\ ~(EmptyFile /\ offset < ClusterBytes)
  BY DEF FailsBeforeStart
<1>1. res = 0 \/ res = -5
  BY DEF Inv, TypeOK, EIO
<1>2. offset >= 0 => /\ cluster_offset = offset \div ClusterBytes
                     /\ cluster_offset = 0 <=> offset < ClusterBytes
  <2>1. offset >= 0 => cluster_offset = offset \div ClusterBytes
    BY Constants DEF Inv
  <2>2. offset >= 0 => offset \in Nat /\ ClusterBytes \in Nat \ {0}
    BY ReadAssumption DEF Inv, Arguments
  <2>3. QED
    BY <2>1, <2>2, DivZero
<1>3. res < 0 => /\ offset >= 0 /\ ChainCluster(offset \div ClusterBytes) = 0
                 /\ ~(offset < ClusterBytes)
  <2>1. res < 0 => /\ offset >= 0 /\ ChainCluster(cluster_offset) = 0
                   /\ cluster_offset > 0
    BY <1>1 DEF Inv, Outcome
  <2>2. cluster_offset \in Int
    BY Constants DEF Inv
  <2>3. QED
    BY <1>2, <2>1, <2>2
<1>4. ASSUME res = 0, offset >= 0
      PROVE  \/ ChainCluster(offset \div ClusterBytes) # 0
             \/ EmptyFile /\ offset < ClusterBytes
  <2>1. bytes_read > 0
    BY <1>4 DEF Inv, Outcome, Arguments
  <2>2. ChainCluster(cluster_offset) \in DataClusters \/ (EmptyFile /\ cluster_offset = 0)
    BY <1>4, <2>1 DEF Inv, Outcome
  <2>3. 0 \notin DataClusters
    BY DEF DataClusters
  <2>4. QED
    BY <1>2, <1>4, <2>2, <2>3
<1>5. QED
  BY <1>1, <1>3, <1>4

----------------------------------------------------------------------------
(* The walk of get_cluster stays on clusters, a read counts no more bytes  *)
(* than it was asked for, and the caller's buffer keeps its size.          *)
THEOREM ReadTypes == Spec => []TypeOK
<1>1. Inv => TypeOK
  BY DEF Inv
<1>2. QED
  BY ReadInvariant, <1>1, PTL

(* A read that stays in one cluster delivers the file's bytes: get_cluster *)
(* finds the cluster of the position, and cluster_to_sector its sector.    *)
THEOREM ReadOneCluster == Spec => []OneClusterRead
BY ReadInvariant, OneCluster, PTL

(* fat16_read asks for the first cluster only, and reads on past its end.  *)
(* That is right for a file in consecutive clusters and a read of at most  *)
(* a cluster.                                                              *)
THEOREM ReadContiguous == Spec => []ContiguousRead
BY ReadInvariant, ContiguousClusters, PTL

(* A read fails exactly if the chain ends before the first byte it was     *)
(* asked for; a position below 0 never fails, nor does one below the size  *)
(* of a cluster in an empty file.                                          *)
THEOREM ReadFailsBeforeStart == Spec => []FailsBeforeStart
BY ReadInvariant, FailureCause, PTL

============================================================================
