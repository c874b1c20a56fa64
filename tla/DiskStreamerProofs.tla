------------------------- MODULE DiskStreamerProofs -------------------------
(***************************************************************************)
(* A read of the byte stream delivers the bytes of the disk, for every     *)
(* size of the disk and of a sector, every position and every count, and   *)
(* however long the drive takes.                                           *)
(***************************************************************************)
EXTENDS DiskStreamer, Numbers

(* Where the driver and the drive are in a transfer.  While read_sector    *)
(* runs, its loop indices and the drive agree on the sector and the word   *)
(* that come next; outside it the drive has nothing to hand over.          *)
InStep ==
  drv.pc \in {"poll", "copy"} =>
    /\ dev.state = "drq" \/ (dev.state = "busy" /\ drv.pc = "poll")
    /\ drv.pc = "poll" => drv.word_idx = 0
    /\ drv.sector_idx < drv.total
    /\ dev.lba = drv.lba + drv.sector_idx
    /\ dev.left = drv.total - drv.sector_idx
    /\ dev.word = drv.word_idx

Quiet ==
  /\ drv.pc \in {"idle", "done"} => dev.state = "idle"
  /\ drv.pc = "done" => drv.sector_idx = drv.total /\ drv.word_idx = 0

Counted ==
  /\ drv.lba + drv.total <= Sectors
  /\ Len(buf) = drv.sector_idx * WordsPerSector + drv.word_idx

AtaInv == AtaTypeOK /\ InStep /\ Quiet /\ Counted /\ WordsInOrder

(* Where the streamer is in its loop.  Only the first sector of a read may *)
(* be entered in the middle.                                               *)
Calls ==
  /\ call.pc \in {"idle", "loop"} <=> drv.pc = "idle"
  /\ Streaming =>
       /\ stream = call.start
       /\ stream \in 0 .. DiskBytes
       /\ stream + call.total <= DiskBytes
       /\ bytes_read <= call.total
       /\ sectors_read = 0 => bytes_read = 0
       /\ sectors_read > 0 /\ bytes_read < call.total => offset = 0
  /\ call.pc = "block" => bytes_read < call.total /\ drv.lba = sector /\ drv.total = 1

Inv == AtaInv /\ TypeOK /\ Calls /\ ReadsSlice /\ HeapBalanced

----------------------------------------------------------------------------
(* The registers.                                                          *)

(* The drive reads the sector number that read_sector splits over the four *)
(* registers.                                                              *)
LEMMA LbaRoundTrip ==
  ASSUME NEW lba \in Nat
  PROVE  DecodeLba(LbaRegs(lba)) = lba
<1> USE AtaAssumption
<1> DEFINE R  == RegBase
           q1 == lba \div R
           q2 == q1 \div R
           q3 == q2 \div R
<1>1. R \in Nat \ {0} /\ R * R \in Nat \ {0}
  <2>1. R \in Nat \ {0}
    OBVIOUS
  <2>2. 1 * R <= R * R
    BY <2>1, MulMono
  <2>3. QED
    BY <2>1, <2>2
<1> HIDE DEF R
<1>2. q1 \in Nat /\ lba = q1 * R + (lba % R) /\ lba % R \in Nat
  BY <1>1, DivModNat
<1>3. lba \div (R * R) = q2
  BY <1>1, DivDiv
<1> HIDE DEF q1
<1>4. q2 \in Nat /\ q1 = q2 * R + (q1 % R) /\ q1 % R \in Nat
  <2>1. R \in Nat \ {0} /\ q1 \in Nat
    BY <1>1, <1>2
  <2>2. QED
    BY <2>1, DivModNat
<1>5. lba \div (R * R * R) = q3
  <2>1. lba \div ((R * R) * R) = (lba \div (R * R)) \div R
    BY <1>1, DivDiv
  <2>2. QED
    BY <1>3, <2>1
<1> HIDE DEF q2
<1>6. q3 \in Nat /\ q2 = q3 * R + (q2 % R) /\ q2 % R \in Nat
  <2>1. R \in Nat \ {0} /\ q2 \in Nat
    BY <1>1, <1>4
  <2>2. QED
    BY <2>1, DivModNat
<1>7. LbaRegs(lba) = [low |-> lba % R, mid |-> q1 % R, high |-> q2 % R, head |-> q3]
  BY <1>3, <1>5 DEF LbaRegs, R, q1
<1> HIDE DEF q3
<1>8. DecodeLba(LbaRegs(lba))
        = (lba % R) + R * ((q1 % R) + R * ((q2 % R) + R * q3))
  BY <1>7 DEF DecodeLba, R
<1>9. R * q3 = q3 * R /\ R * q2 = q2 * R /\ R * q1 = q1 * R
  BY <1>1, <1>2, <1>4, <1>6
<1>10. (q2 % R) + R * q3 = q2
  BY <1>1, <1>6, <1>9
<1>11. (q1 % R) + R * q2 = q1
  BY <1>1, <1>4, <1>9
<1>12. QED
  BY <1>1, <1>2, <1>8, <1>9, <1>10, <1>11

----------------------------------------------------------------------------
(* The driver and the drive.                                               *)

\* What read_sector puts into the registers fits into them.
LEMMA LbaRegsType ==
  ASSUME NEW lba \in Nat
  PROVE  LbaRegs(lba) \in [low : 0 .. (RegBase - 1), mid : 0 .. (RegBase - 1),
                           high : 0 .. (RegBase - 1), head : Nat]
<1> USE AtaAssumption
<1>1. RegBase * RegBase \in Nat \ {0} /\ RegBase * RegBase * RegBase \in Nat \ {0}
  <2>1. 1 * RegBase <= RegBase * RegBase
    BY MulMono
  <2>2. RegBase * RegBase \in Nat \ {0}
    BY <2>1
  <2>3. 1 * RegBase <= (RegBase * RegBase) * RegBase
    BY <2>2, MulMono
  <2>4. QED
    BY <2>2, <2>3
<1>2. \A n \in Nat \ {0} : lba \div n \in Nat
  BY DivModNat
<1>3. \A k \in Nat : k % RegBase \in 0 .. (RegBase - 1)
  BY DivModNat
<1>4. QED
  BY <1>1, <1>2, <1>3 DEF LbaRegs

(* The drive reads the count that read_sector writes into 8 bits.          *)
LEMMA CountRoundTrip ==
  ASSUME NEW total \in 1 .. CountBase
  PROVE  total % CountBase \in 0 .. (CountBase - 1) /\ DecodeCount(total % CountBase) = total
<1>1. CountBase \in Nat \ {0} /\ total \in Nat
  BY AtaAssumption
<1>2. CASE total = CountBase
  <2>1. total = 1 * CountBase + 0 /\ 0 \in 0 .. (CountBase - 1) /\ 1 \in Nat
    BY <1>1, <1>2
  <2>2. total % CountBase = 0
    BY <1>1, <2>1, DivModOfSum
  <2>3. QED
    BY <1>2, <2>1, <2>2 DEF DecodeCount
<1>3. CASE total # CountBase
  <2>1. total = 0 * CountBase + total /\ total \in 0 .. (CountBase - 1) /\ 0 \in Nat
    BY <1>1, <1>3
  <2>2. total % CountBase = total
    BY <1>1, <2>1, DivModOfSum
  <2>3. QED
    BY <1>1, <2>1, <2>2 DEF DecodeCount
<1>4. QED
  BY <1>2, <1>3

LEMMA AtaStart == AtaInit => AtaInv
BY AtaAssumption, LbaRegsType
   DEF AtaInit, AtaInv, AtaTypeOK, InStep, Quiet, Counted, WordsInOrder

(* The command that read_sector gives is for the sectors it was asked for. *)
LEMMA AtaCommand ==
  ASSUME AtaInv, NEW lba \in 0 .. (Sectors - 1), NEW total \in 1 .. CountBase,
         lba + total <= Sectors, read_sector(lba, total)
  PROVE  AtaInv' /\ drv'.pc = "poll" /\ drv'.lba = lba /\ drv'.total = total
<1> USE AtaAssumption
<1>1. /\ regs' = [lba |-> LbaRegs(lba), count |-> total % CountBase]
      /\ dev' = [state |-> "busy", lba |-> lba, left |-> total, word |-> 0]
      /\ drv' = [pc |-> "poll", lba |-> lba, total |-> total, sector_idx |-> 0, word_idx |-> 0]
      /\ buf' = << >>
  BY LbaRoundTrip, CountRoundTrip DEF read_sector
<1>2. AtaTypeOK'
  BY <1>1, LbaRegsType, CountRoundTrip DEF AtaTypeOK
<1>3. QED
  BY <1>1, <1>2 DEF AtaInv, InStep, Quiet, Counted, WordsInOrder

\* The status shows DRQ.
LEMMA AtaWait ==
  ASSUME AtaInv, WaitDrq
  PROVE  AtaInv' /\ drv'.pc = "copy" /\ drv'.lba = drv.lba /\ drv'.total = drv.total
<1> USE AtaAssumption
<1>1. /\ drv \in [pc : {"idle", "poll", "copy", "done"}, lba : 0 .. (Sectors - 1),
                  total : Nat, sector_idx : Nat, word_idx : 0 .. (WordsPerSector - 1)]
      /\ drv.word_idx = 0 /\ drv.pc = "poll" /\ dev.state = "drq"
  BY DEF AtaInv, AtaTypeOK, InStep, WaitDrq
<1>2. /\ drv' = [drv EXCEPT !.pc = "copy"]
      /\ regs' = regs /\ dev' = dev /\ buf' = buf
  BY <1>1 DEF WaitDrq
<1>3. AtaTypeOK'
  BY <1>1, <1>2 DEF AtaInv, AtaTypeOK
<1>4. QED
  BY <1>1, <1>2, <1>3 DEF AtaInv, InStep, Quiet, Counted, WordsInOrder, DiskWord

\* The drive has a sector ready.
LEMMA AtaReady == ASSUME AtaInv, DriveReady PROVE AtaInv'
<1> USE AtaAssumption
<1>1. /\ dev \in [state : {"idle", "busy", "drq"}, lba : 0 .. Sectors,
                  left : Nat, word : 0 .. (WordsPerSector - 1)]
      /\ dev.state = "busy" /\ dev' = [dev EXCEPT !.state = "drq"]
      /\ regs' = regs /\ drv' = drv /\ buf' = buf
  BY DEF AtaInv, AtaTypeOK, DriveReady
<1>2. AtaTypeOK'
  BY <1>1 DEF AtaInv, AtaTypeOK
<1>3. drv.pc = "poll" \/ drv.pc \notin {"poll", "copy", "idle", "done"}
  BY <1>1 DEF AtaInv, InStep, Quiet
<1>4. QED
  BY <1>1, <1>2, <1>3 DEF AtaInv, InStep, Quiet, Counted, WordsInOrder, DiskWord

\* read_sector returns.
LEMMA AtaReturn ==
  ASSUME AtaInv, ReturnSector, UNCHANGED <<regs, dev, buf>>
  PROVE  AtaInv' /\ drv'.pc = "idle"
<1> USE AtaAssumption
<1>1. /\ drv \in [pc : {"idle", "poll", "copy", "done"}, lba : 0 .. (Sectors - 1),
                  total : Nat, sector_idx : Nat, word_idx : 0 .. (WordsPerSector - 1)]
      /\ drv.pc = "done" /\ drv' = [drv EXCEPT !.pc = "idle"]
      /\ regs' = regs /\ dev' = dev /\ buf' = buf
  BY DEF AtaInv, AtaTypeOK, ReturnSector
<1>2. AtaTypeOK'
  BY <1>1 DEF AtaInv, AtaTypeOK
<1>3. QED
  BY <1>1, <1>2 DEF AtaInv, InStep, Quiet, Counted, WordsInOrder, DiskWord

(* A word is copied: it is the one that comes next on the disk, and both   *)
(* sides move on to the same word.                                         *)
LEMMA AtaCopy ==
  ASSUME AtaInv, insw
  PROVE  AtaInv' /\ drv'.pc # "idle" /\ drv'.lba = drv.lba /\ drv'.total = drv.total
<1> USE AtaAssumption
<1> DEFINE W == WordsPerSector
           s == drv.sector_idx
           w == drv.word_idx
<1>1. /\ drv \in [pc : {"idle", "poll", "copy", "done"}, lba : 0 .. (Sectors - 1),
                  total : Nat, sector_idx : Nat, word_idx : 0 .. (W - 1)]
      /\ dev \in [state : {"idle", "busy", "drq"}, lba : 0 .. Sectors,
                  left : Nat, word : 0 .. (W - 1)]
      /\ buf \in Seq(DiskWords)
      /\ regs' = regs
  BY DEF AtaInv, AtaTypeOK, insw
<1>2. /\ drv.pc = "copy" /\ dev.state = "drq"
      /\ s < drv.total /\ drv.lba + drv.total <= Sectors
      /\ dev.lba = drv.lba + s /\ dev.left = drv.total - s /\ dev.word = w
  BY DEF AtaInv, InStep, Counted, insw
<1>3. Len(buf) = s * W + w
  BY DEF AtaInv, Counted
<1>4. /\ W \in Nat \ {0} /\ s \in Nat /\ w \in 0 .. (W - 1) /\ s * W \in Nat
      /\ Len(buf) \in Nat
  BY <1>1
<1>5. /\ buf' = Append(buf, <<dev.lba, w>>)
      /\ dev' = TakeWord /\ drv' = AfterWord
  BY <1>2 DEF insw, DataPort
<1>6. <<dev.lba, w>> \in DiskWords
  BY <1>1, <1>2 DEF DiskWords
<1>7. /\ buf' \in Seq(DiskWords)
      /\ Len(buf') = Len(buf) + 1
      /\ \A k \in 1 .. Len(buf) : buf'[k] = buf[k]
      /\ buf'[Len(buf) + 1] = <<dev.lba, w>>
  <2> HIDE DEF w
  <2>1. QED
    BY <1>1, <1>5, <1>6
<1>8. <<dev.lba, w>> = DiskWord(drv.lba, Len(buf))
  <2>1. Len(buf) \div W = s /\ Len(buf) % W = w
    <3> HIDE DEF W, s, w
    <3>1. QED
      BY <1>3, <1>4, DivModUnique
  <2>2. QED
    BY <1>2, <2>1 DEF DiskWord
<1>9. drv'.lba = drv.lba /\ drv'.total = drv.total
  BY <1>1, <1>5 DEF AfterWord
<1>10. WordsInOrder'
  <2>1. \A k \in 1 .. Len(buf) : buf[k] = DiskWord(drv.lba, k - 1)
    BY DEF AtaInv, WordsInOrder
  <2>2. \A k \in 1 .. (Len(buf) + 1) : k \in 1 .. Len(buf) \/ k = Len(buf) + 1
    BY <1>4
  <2>3. (Len(buf) + 1) - 1 = Len(buf)
    BY <1>4
  <2>4. \A k \in 1 .. Len(buf') : buf'[k] = DiskWord(drv.lba, k - 1)
    BY <1>7, <1>8, <2>1, <2>2, <2>3
  <2>5. QED
    BY <1>9, <2>4 DEF WordsInOrder, DiskWord
<1>11. CASE w + 1 < W
  <2>1. dev' = [dev EXCEPT !.word = w + 1] /\ drv' = [drv EXCEPT !.word_idx = w + 1]
    BY <1>2, <1>5, <1>11 DEF TakeWord, AfterWord
  <2>2. w + 1 \in 0 .. (W - 1)
    BY <1>4, <1>11
  <2>3. AtaTypeOK'
    BY <1>1, <1>7, <2>1, <2>2 DEF AtaInv, AtaTypeOK
  <2>4. Counted'
    <3>1. drv'.sector_idx = s /\ drv'.word_idx = w + 1
      BY <1>1, <2>1
    <3>2. Len(buf') = s * W + (w + 1)
      BY <1>3, <1>4, <1>7
    <3>3. QED
      BY <1>2, <1>9, <3>1, <3>2 DEF Counted
  <2>5. InStep' /\ Quiet'
    BY <1>1, <1>2, <2>1 DEF InStep, Quiet
  <2>6. QED
    BY <1>1, <1>2, <1>9, <1>10, <2>1, <2>3, <2>4, <2>5 DEF AtaInv
<1>12. CASE ~(w + 1 < W)
  <2>1. /\ dev' = [state |-> IF dev.left > 1 THEN "busy" ELSE "idle",
                   lba |-> dev.lba + 1, left |-> dev.left - 1, word |-> 0]
        /\ drv' = [drv EXCEPT !.word_idx = 0, !.sector_idx = s + 1,
                              !.pc = IF s + 1 < drv.total THEN "poll" ELSE "done"]
    BY <1>2, <1>5, <1>12 DEF TakeWord, AfterWord
  <2>2. w = W - 1
    BY <1>4, <1>12
  <2>3. /\ dev.lba + 1 \in 0 .. Sectors /\ dev.left - 1 \in Nat /\ s + 1 \in Nat
        /\ dev.left > 1 <=> s + 1 < drv.total
        /\ dev.lba + 1 = drv.lba + (s + 1) /\ dev.left - 1 = drv.total - (s + 1)
        /\ s + 1 < drv.total \/ s + 1 = drv.total
    <3>1. drv.lba \in Nat /\ drv.total \in Nat /\ Sectors \in Nat /\ s \in Nat
      BY <1>1
    <3>2. /\ s < drv.total /\ drv.lba + drv.total <= Sectors
          /\ dev.lba = drv.lba + s /\ dev.left = drv.total - s
      BY <1>2
    <3> HIDE DEF s
    <3>3. dev.left - 1 = drv.total - (s + 1) /\ dev.lba + 1 = drv.lba + (s + 1)
      BY <3>1, <3>2
    <3>4. /\ s + 1 < drv.total \/ s + 1 = drv.total
          /\ dev.left > 1 <=> s + 1 < drv.total
      BY <3>1, <3>2
    <3>5. QED
      BY <3>1, <3>2, <3>3, <3>4
  <2>4. /\ drv'.pc = IF s + 1 < drv.total THEN "poll" ELSE "done"
        /\ drv'.sector_idx = s + 1 /\ drv'.word_idx = 0
    BY <1>1, <2>1
  <2>5. AtaTypeOK'
    <3>1. dev' \in [state : {"idle", "busy", "drq"}, lba : 0 .. Sectors,
                    left : Nat, word : 0 .. (W - 1)]
      BY <1>4, <2>1, <2>3
    <3>2. drv' \in [pc : {"idle", "poll", "copy", "done"}, lba : 0 .. (Sectors - 1),
                    total : Nat, sector_idx : Nat, word_idx : 0 .. (W - 1)]
      <4> DEFINE next == IF s + 1 < drv.total THEN "poll" ELSE "done"
      <4>1. next \in {"idle", "poll", "copy", "done"} /\ 0 \in 0 .. (W - 1)
        BY <1>4
      <4>2. drv' = [drv EXCEPT !.word_idx = 0, !.sector_idx = s + 1, !.pc = next]
        BY <2>1
      <4>3. s + 1 \in Nat
        BY <2>3
      <4> HIDE DEF next, s
      <4>4. QED
        BY <1>1, <4>1, <4>2, <4>3
    <3>3. QED
      BY <1>1, <1>7, <3>1, <3>2 DEF AtaInv, AtaTypeOK
  <2>6. Counted'
    <3>1. (s + 1) * W = s * W + W
      BY <1>4
    <3>2. Len(buf') = (s + 1) * W + 0
      <4> HIDE DEF s, w, W
      <4>1. QED
        BY <1>3, <1>4, <1>7, <2>2, <3>1
    <3>3. QED
      BY <1>2, <1>9, <2>4, <3>2 DEF Counted
  <2>7. InStep' /\ Quiet'
    BY <1>9, <2>1, <2>3, <2>4 DEF InStep, Quiet
  <2>8. QED
    BY <1>9, <1>10, <2>4, <2>5, <2>6, <2>7 DEF AtaInv
<1>13. QED
  BY <1>11, <1>12

LEMMA AtaStutter == ASSUME AtaInv, UNCHANGED ataVars PROVE AtaInv'
BY DEF AtaInv, AtaTypeOK, InStep, Quiet, Counted, WordsInOrder, DiskWord, ataVars

(* While the transfer is over, every word is there.                        *)
LEMMA AtaDone == AtaInv => TransferComplete
BY AtaAssumption DEF AtaInv, AtaTypeOK, Quiet, Counted, TransferComplete

----------------------------------------------------------------------------
(* Bytes.                                                                  *)

LEMMA SectorSize == sector_size \in Nat \ {0} /\ sector_size = WordsPerSector * 2
BY AtaAssumption DEF sector_size

\* A position on the disk is a byte of one of its sectors.
LEMMA PositionSplit ==
  ASSUME NEW p \in Nat, p < DiskBytes
  PROVE  /\ p \div sector_size \in 0 .. (Sectors - 1)
         /\ p % sector_size \in 0 .. (sector_size - 1)
         /\ p = (p \div sector_size) * sector_size + (p % sector_size)
<1> USE AtaAssumption
<1> DEFINE q == p \div sector_size
<1>1. q \in Nat /\ p % sector_size \in 0 .. (sector_size - 1)
      /\ p = q * sector_size + (p % sector_size)
  BY SectorSize, DivModNat
<1> HIDE DEF q
<1>2. CASE Sectors <= q
  <2>1. Sectors * sector_size <= q * sector_size
    BY <1>1, <1>2, SectorSize, MulMono
  <2>2. q * sector_size \in Nat /\ Sectors * sector_size \in Nat
    BY <1>1, SectorSize
  <2>3. QED
    BY <1>1, <2>1, <2>2 DEF DiskBytes
<1>3. QED
  BY <1>1, <1>2 DEF q

\* Byte j of a sector, as the disk stores it.
LEMMA ByteOfSector ==
  ASSUME NEW lba \in Nat, NEW j \in 0 .. (sector_size - 1)
  PROVE  /\ j \div 2 \in 0 .. (WordsPerSector - 1) /\ j % 2 \in {0, 1}
         /\ DiskByte(lba * sector_size + j) = <<(<<lba, j \div 2>>), j % 2>>
<1> USE AtaAssumption
<1> DEFINE W == WordsPerSector
           h == j \div 2
           l == j % 2
           k == lba * W + h
           p == lba * sector_size + j
<1>1. W \in Nat \ {0} /\ j \in Nat /\ j < W * 2
  BY SectorSize
<1>2. h \in Nat /\ l \in 0 .. (2 - 1) /\ j = h * 2 + l
  BY <1>1, DivModNat
<1>3. h \in 0 .. (W - 1)
  BY <1>1, <1>2
<1> HIDE DEF W, h, l
<1>4. lba * W \in Nat /\ k \in Nat
  BY <1>1, <1>2
<1>5. p = k * 2 + l
  <2>1. lba * sector_size = (lba * W) * 2
    BY SectorSize, <1>1 DEF W
  <2>2. QED
    BY <1>2, <1>4, <2>1
<1> HIDE DEF p
<1>6. p \div 2 = k /\ p % 2 = l
  <2> HIDE DEF k
  <2>1. k \in Nat /\ l \in 0 .. 1
    BY <1>2, <1>4
  <2>2. QED
    BY <1>5, <2>1
<1>7. k \div W = lba /\ k % W = h
  BY <1>1, <1>3, DivModUnique
<1> HIDE DEF k
<1>8. DiskWord(0, k) = <<lba, h>>
  BY <1>7 DEF DiskWord, W
<1>9. DiskByte(p) = <<(<<lba, h>>), l>>
  BY <1>6, <1>8 DEF DiskByte
<1>10. h \in 0 .. (WordsPerSector - 1) /\ l \in {0, 1}
  BY <1>2, <1>3 DEF W
<1>11. QED
  BY <1>9, <1>10 DEF p, h, l

(* What the driver has stored when it returns is the sector, byte by byte. *)
LEMMA SectorBuffer ==
  ASSUME AtaInv, drv.pc = "done", drv.total = 1, NEW j \in 0 .. (sector_size - 1)
  PROVE  /\ BufByte(j) = DiskByte(drv.lba * sector_size + j)
         /\ BufByte(j) \in DiskWords \X {0, 1}
<1> USE AtaAssumption
<1> DEFINE W == WordsPerSector
           h == j \div 2
<1>1. Len(buf) = W /\ drv.lba \in 0 .. (Sectors - 1)
  <2>1. drv.sector_idx = 1 /\ drv.word_idx = 0 /\ drv.lba \in 0 .. (Sectors - 1)
    BY DEF AtaInv, Quiet, AtaTypeOK
  <2>2. Len(buf) = 1 * W + 0
    BY <2>1 DEF AtaInv, Counted
  <2>3. QED
    BY <2>1, <2>2
<1>2. drv.lba \in Nat
  BY <1>1
<1>3. /\ h \in 0 .. (W - 1) /\ j % 2 \in {0, 1}
      /\ DiskByte(drv.lba * sector_size + j) = <<(<<drv.lba, h>>), j % 2>>
  BY <1>2, ByteOfSector
<1> HIDE DEF h
<1>4. buf[h + 1] = <<drv.lba, h>>
  <2>1. h + 1 \in 1 .. Len(buf) /\ (h + 1) - 1 = h
    BY <1>1, <1>3
  <2>2. buf[h + 1] = DiskWord(drv.lba, h)
    BY <2>1 DEF AtaInv, WordsInOrder
  <2>3. h \div W = 0 /\ h % W = h
    BY <1>3
  <2>4. QED
    BY <1>2, <2>2, <2>3 DEF DiskWord
<1>5. BufByte(j) = <<(<<drv.lba, h>>), j % 2>>
  BY <1>4 DEF BufByte, h
<1>6. QED
  BY <1>1, <1>3, <1>5 DEF DiskWords

----------------------------------------------------------------------------
(* The stream.                                                             *)

LEMMA InitInv == Init => Inv
<1> SUFFICES ASSUME Init PROVE Inv
  OBVIOUS
<1>1. AtaInv /\ AtaTypeOK
  BY AtaStart DEF Init, AtaInv
<1>2. drv.pc = "idle"
  BY DEF Init, AtaInit
<1>3. QED
  BY <1>1, <1>2 DEF Init, Inv, TypeOK, Calls, ReadsSlice, HeapBalanced, Streaming, NoStream

\* new_stream, seek and close move the stream between reads.
LEMMA BetweenReads ==
  ASSUME Inv,
         \/ \E id \in DiskIds : new_stream(id)
         \/ \E pos \in 0 .. DiskBytes : seek(pos)
         \/ close
  PROVE  Inv'
<1>1. call.pc = "idle" /\ UNCHANGED <<ataVars, call, bytes_read, sectors_read, out>>
  BY DEF new_stream, seek, close, Idle
<1>2. AtaInv' /\ AtaTypeOK'
  BY <1>1, AtaStutter DEF Inv, AtaInv
<1>3. 0 \in 0 .. DiskBytes
  BY SectorSize, AtaAssumption DEF DiskBytes
<1>4. /\ stream' \in 0 .. DiskBytes \cup {NoStream}
      /\ heap' \subseteq {"stream", "buf"}
      /\ "stream" \in heap' <=> stream' # NoStream
      /\ "buf" \in heap' <=> "buf" \in heap
  <2>1. /\ stream \in 0 .. DiskBytes \cup {NoStream} /\ heap \subseteq {"stream", "buf"}
        /\ "stream" \in heap <=> stream # NoStream
        /\ \A pos \in 0 .. DiskBytes : pos # NoStream
    BY DEF Inv, TypeOK, HeapBalanced, NoStream
  <2>2. CASE \E id \in DiskIds : new_stream(id)
    <3>1. \/ stream' = 0 /\ heap' = heap \cup {"stream"}
          \/ stream' = NoStream /\ heap' = heap /\ stream = NoStream
      BY <2>2 DEF new_stream
    <3>2. QED
      BY <1>3, <2>1, <3>1
  <2>3. CASE \E pos \in 0 .. DiskBytes : seek(pos)
    <3>1. stream' \in 0 .. DiskBytes /\ heap' = heap /\ stream # NoStream
      BY <2>3 DEF seek
    <3>2. QED
      BY <2>1, <3>1
  <2>4. CASE close
    <3>1. stream' = NoStream /\ heap' = heap \ {"stream"}
      BY <2>4 DEF close
    <3>2. QED
      BY <2>1, <3>1
  <2>5. QED
    BY <2>2, <2>3, <2>4
<1>5. TypeOK'
  BY <1>1, <1>2, <1>4 DEF Inv, TypeOK
<1>6. drv' = drv
  BY <1>1 DEF ataVars
<1>7. QED
  BY <1>1, <1>2, <1>4, <1>5, <1>6
     DEF Inv, Calls, ReadsSlice, HeapBalanced, Streaming, DiskByte, DiskWord

\* read begins: nothing has been delivered, and the range is on the disk.
LEMMA ReadBegins ==
  ASSUME Inv, NEW total \in Totals, read(total)
  PROVE  Inv'
<1>1. total \in Nat
  BY StreamerAssumption
<1>2. /\ call.pc = "idle" /\ stream # NoStream
      /\ stream + total <= DiskBytes
      /\ call' = [pc |-> "loop", start |-> stream, total |-> total]
      /\ bytes_read' = 0 /\ sectors_read' = 0 /\ out' = << >>
      /\ heap' = heap \cup {"buf"} /\ UNCHANGED <<ataVars, stream>>
  BY DEF read, Idle
<1>3. AtaInv' /\ AtaTypeOK' /\ drv' = drv
  BY <1>2, AtaStutter DEF Inv, AtaInv, ataVars
<1>4. stream \in 0 .. DiskBytes /\ DiskBytes \in Nat
  BY <1>2, SectorSize, AtaAssumption DEF Inv, TypeOK, DiskBytes
<1>5. stream \in Nat
  BY <1>4
<1>6. TypeOK'
  BY <1>1, <1>2, <1>3, <1>5 DEF Inv, TypeOK
<1>7. Calls'
  BY <1>1, <1>2, <1>3, <1>4 DEF Inv, Calls, Streaming
<1>8. ReadsSlice' /\ HeapBalanced'
  BY <1>2 DEF Inv, ReadsSlice, HeapBalanced, Streaming
<1>9. QED
  BY <1>3, <1>6, <1>7, <1>8 DEF Inv

(* What is left to read is in a sector of the disk.                        *)
LEMMA NextSector ==
  ASSUME Inv, Streaming, bytes_read < call.total
  PROVE  /\ stream \in Nat /\ bytes_read \in Nat /\ call.total \in Nat
         /\ sector \in 0 .. (Sectors - 1) /\ offset \in 0 .. (sector_size - 1)
         /\ stream + bytes_read = sector * sector_size + offset
<1>1. /\ stream \in Nat /\ bytes_read \in Nat /\ call.total \in Nat
      /\ stream + call.total <= DiskBytes /\ DiskBytes \in Nat
  BY SectorSize, AtaAssumption DEF Inv, Calls, TypeOK, DiskBytes
<1>2. stream + bytes_read \in Nat /\ stream + bytes_read < DiskBytes
  BY <1>1
<1>3. QED
  BY <1>1, <1>2, PositionSplit DEF sector, offset

LEMMA BlockBegins ==
  ASSUME Inv, read_block
  PROVE  Inv'
<1>1. /\ call.pc = "loop" /\ bytes_read < call.total /\ read_sector(sector, 1)
      /\ call' = [call EXCEPT !.pc = "block"]
      /\ UNCHANGED <<stream, bytes_read, sectors_read, out, heap>>
  BY DEF read_block
<1>2. sector \in 0 .. (Sectors - 1)
  BY <1>1, NextSector DEF Streaming
<1>3. AtaInv' /\ drv'.pc = "poll" /\ drv'.lba = sector /\ drv'.total = 1
  <2>1. sector + 1 <= Sectors /\ 1 \in 1 .. CountBase
    BY <1>2, AtaAssumption
  <2>2. QED
    BY <1>1, <1>2, <2>1, AtaCommand DEF Inv
<1>4. call \in [pc : {"idle", "loop", "block", "direct"}, start : Nat, total : Nat]
  BY DEF Inv, TypeOK
<1>5. /\ call'.pc = "block" /\ call'.start = call.start /\ call'.total = call.total
      /\ sector' = sector /\ offset' = offset
  BY <1>1, <1>4 DEF sector, offset
<1>6. TypeOK'
  BY <1>1, <1>3, <1>4 DEF Inv, TypeOK, AtaInv
<1>7. Calls'
  BY <1>1, <1>3, <1>5 DEF Inv, Calls, Streaming
<1>8. ReadsSlice' /\ HeapBalanced'
  BY <1>1, <1>5 DEF Inv, ReadsSlice, HeapBalanced, Streaming, DiskByte, DiskWord
<1>9. QED
  BY <1>3, <1>6, <1>7, <1>8 DEF Inv

LEMMA DirectBegins ==
  ASSUME Inv, NEW lba \in 0 .. (Sectors - 1), NEW total \in 1 .. MaxTotal,
         read_block_direct(lba, total)
  PROVE  Inv'
<1>1. /\ call.pc = "idle" /\ lba + total <= Sectors /\ read_sector(lba, total)
      /\ call' = [call EXCEPT !.pc = "direct"]
      /\ UNCHANGED <<stream, bytes_read, sectors_read, out, heap>>
  BY DEF read_block_direct, Idle
<1>2. AtaInv' /\ drv'.pc = "poll"
  <2>1. total \in 1 .. CountBase
    BY StreamerAssumption, AtaAssumption
  <2>2. QED
    BY <1>1, <2>1, AtaCommand DEF Inv
<1>3. call \in [pc : {"idle", "loop", "block", "direct"}, start : Nat, total : Nat]
  BY DEF Inv, TypeOK
<1>4. call'.pc = "direct" /\ call'.start = call.start
  BY <1>1, <1>3
<1>5. TypeOK'
  BY <1>1, <1>2, <1>3 DEF Inv, TypeOK, AtaInv
<1>6. Calls'
  BY <1>1, <1>2, <1>4 DEF Inv, Calls, Streaming
<1>7. ReadsSlice' /\ HeapBalanced'
  BY <1>1, <1>4 DEF Inv, ReadsSlice, HeapBalanced, Streaming, DiskByte, DiskWord
<1>8. QED
  BY <1>2, <1>5, <1>6, <1>7 DEF Inv

\* The driver and the drive move on below the streamer.
LEMMA BelowStream ==
  ASSUME Inv, AtaInv', UNCHANGED streamVars,
         (drv'.pc = "idle") <=> (drv.pc = "idle"),
         drv'.lba = drv.lba, drv'.total = drv.total
  PROVE  Inv'
<1>1. TypeOK'
  BY DEF Inv, TypeOK, streamVars, AtaInv
<1>2. sector' = sector /\ offset' = offset
  BY DEF streamVars, sector, offset
<1>3. QED
  BY <1>1, <1>2 DEF Inv, Calls, ReadsSlice, HeapBalanced, Streaming, streamVars,
                    DiskByte, DiskWord

LEMMA DriverMoves == ASSUME Inv, ReadBlockStep PROVE Inv'
<1>1. drv.pc # "idle" /\ UNCHANGED streamVars
  BY DEF ReadBlockStep, DriverStep, WaitDrq, insw
<1>2. AtaInv' /\ drv'.pc # "idle" /\ drv'.lba = drv.lba /\ drv'.total = drv.total
  BY AtaWait, AtaCopy DEF Inv, ReadBlockStep, DriverStep
<1>3. QED
  BY <1>1, <1>2, BelowStream

LEMMA DriveMoves == ASSUME Inv, Drive PROVE Inv'
<1>1. AtaInv' /\ drv' = drv
  BY AtaReady DEF Inv, Drive, DriveReady
<1>2. QED
  BY <1>1, BelowStream DEF Drive

LEMMA DirectReturns == ASSUME Inv, ReadBlockReturn PROVE Inv'
<1>1. /\ call.pc = "direct" /\ call' = [call EXCEPT !.pc = "idle"]
      /\ UNCHANGED <<regs, dev, buf, stream, bytes_read, sectors_read, out, heap>>
      /\ ReturnSector
  BY DEF ReadBlockReturn
<1>2. AtaInv' /\ drv'.pc = "idle"
  BY <1>1, AtaReturn DEF Inv
<1>3. call \in [pc : {"idle", "loop", "block", "direct"}, start : Nat, total : Nat]
  BY DEF Inv, TypeOK
<1>4. call'.pc = "idle" /\ call'.start = call.start
  BY <1>1, <1>3
<1>5. TypeOK'
  BY <1>1, <1>2, <1>3 DEF Inv, TypeOK, AtaInv
<1>6. QED
  BY <1>1, <1>2, <1>4, <1>5
     DEF Inv, Calls, ReadsSlice, HeapBalanced, Streaming, DiskByte, DiskWord

(* What one turn of the loop adds to the caller's buffer.  The bytes below *)
(* offset are never copied: only the first sector has an offset.           *)
LEMMA OneTurn ==
  ASSUME Inv, CopyOut
  PROVE  \E n \in Nat \ {0} :
           /\ n = IF sector_size - offset <= call.total - bytes_read
                  THEN sector_size - offset ELSE call.total - bytes_read
           /\ out' = out \o BufBytes(offset, n)
           /\ bytes_read' = bytes_read + n
<1> DEFINE below == IF sectors_read > 0 THEN offset ELSE 0
           n == Min({sector_size - offset, call.total - (bytes_read + below)})
<1>1. /\ call.pc = "block" /\ bytes_read < call.total
      /\ out' = out \o BufBytes(0, below) \o BufBytes(offset, n)
      /\ bytes_read' = bytes_read + below + n
  BY DEF CopyOut, Inv, Calls
<1>2. /\ bytes_read \in Nat /\ call.total \in Nat
      /\ offset \in 0 .. (sector_size - 1) /\ sector_size \in Nat
  BY <1>1, NextSector, SectorSize DEF Streaming
<1>3. below = 0
  BY <1>1 DEF Inv, Calls, Streaming
<1> HIDE DEF below
<1>4. n = IF sector_size - offset <= call.total - bytes_read
          THEN sector_size - offset ELSE call.total - bytes_read
  <2>1. n = Min({sector_size - offset, call.total - bytes_read})
    BY <1>2, <1>3
  <2>2. sector_size - offset \in Int /\ call.total - bytes_read \in Int
    BY <1>2
  <2>3. QED
    BY <2>1, <2>2, MinOfTwo
<1> HIDE DEF n
<1>5. n \in Nat \ {0}
  BY <1>1, <1>2, <1>4
<1>6. BufBytes(0, 0) = << >>
  BY DEF BufBytes
<1>7. out \in Seq(DiskWords \X {0, 1})
  BY DEF Inv, TypeOK
<1>8. out \o << >> = out
  BY <1>7
<1>9. out' = out \o BufBytes(offset, n)
  BY <1>1, <1>3, <1>6, <1>8
<1>10. bytes_read' = bytes_read + n
  BY <1>1, <1>2, <1>3, <1>5
<1>11. QED
  BY <1>4, <1>5, <1>9, <1>10

(* The copied bytes are those of the disk that come next.                  *)
LEMMA TurnBytes ==
  ASSUME Inv, call.pc = "block", drv.pc = "done",
         NEW n \in Nat, n <= sector_size - offset, n <= call.total - bytes_read
  PROVE  LET bs == BufBytes(offset, n)
         IN  /\ bs \in Seq(DiskWords \X {0, 1}) /\ Len(bs) = n
             /\ \A i \in 1 .. n : bs[i] = DiskByte(stream + bytes_read + i - 1)
<1> DEFINE bs == BufBytes(offset, n)
<1>1. /\ bytes_read < call.total /\ drv.lba = sector /\ drv.total = 1
      /\ stream \in Nat /\ bytes_read \in Nat /\ AtaInv
      /\ sector \in Nat /\ offset \in 0 .. (sector_size - 1)
      /\ stream + bytes_read = sector * sector_size + offset
  BY NextSector DEF Inv, Calls, Streaming
<1>2. ASSUME NEW i \in 1 .. n
      PROVE  /\ BufByte(offset + i - 1) \in DiskWords \X {0, 1}
             /\ BufByte(offset + i - 1) = DiskByte(stream + bytes_read + i - 1)
  <2> DEFINE j == offset + i - 1
             base == sector * sector_size
  <2>1. j \in 0 .. (sector_size - 1)
    BY <1>1, SectorSize
  <2>2. /\ BufByte(j) = DiskByte(base + j)
        /\ BufByte(j) \in DiskWords \X {0, 1}
    <3> HIDE DEF j
    <3>1. QED
      BY <1>1, <2>1, SectorBuffer
  <2>3. base \in Nat
    BY <1>1, SectorSize
  <2> HIDE DEF base
  <2>4. base + j = stream + bytes_read + i - 1
    <3>1. stream + bytes_read = base + offset
      BY <1>1 DEF base
    <3>2. QED
      BY <1>1, <2>3, <3>1, SectorSize
  <2>5. QED
    BY <2>2, <2>4
<1>3. bs = [i \in 1 .. n |-> BufByte(offset + i - 1)]
  BY DEF BufBytes
<1>4. bs \in [1 .. n -> DiskWords \X {0, 1}]
  BY <1>2, <1>3
<1>5. bs \in Seq(DiskWords \X {0, 1}) /\ Len(bs) = n
  <2> HIDE DEF bs
  <2>1. QED
    BY <1>4
<1>6. \A i \in 1 .. n : bs[i] = DiskByte(stream + bytes_read + i - 1)
  BY <1>2, <1>3
<1>7. QED
  BY <1>5, <1>6

LEMMA Concatenation ==
  ASSUME NEW S, NEW s \in Seq(S), NEW t \in Seq(S)
  PROVE  /\ s \o t \in Seq(S) /\ Len(s \o t) = Len(s) + Len(t)
         /\ \A i \in 1 .. (Len(s) + Len(t)) :
              (s \o t)[i] = IF i <= Len(s) THEN s[i] ELSE t[i - Len(s)]
OBVIOUS

LEMMA SectorCopied == ASSUME Inv, CopyOut PROVE Inv'
<1>1. /\ call.pc = "block" /\ drv.pc = "done" /\ ReturnSector
      /\ sectors_read' = sectors_read + 1
      /\ call' = [call EXCEPT !.pc = "loop"]
      /\ UNCHANGED <<regs, dev, buf, stream, heap>>
  BY DEF CopyOut, ReturnSector
<1>2. AtaInv' /\ drv'.pc = "idle"
  BY <1>1, AtaReturn DEF Inv
<1>3. /\ call \in [pc : {"idle", "loop", "block", "direct"}, start : Nat, total : Nat]
      /\ stream = call.start /\ stream + call.total <= DiskBytes
      /\ bytes_read < call.total /\ sectors_read \in Nat
      /\ out \in Seq(DiskWords \X {0, 1})
  BY <1>1 DEF Inv, TypeOK, Calls, Streaming
<1>4. call'.pc = "loop" /\ call'.start = call.start /\ call'.total = call.total
  BY <1>1, <1>3
<1>5. PICK n \in Nat \ {0} :
        /\ n = IF sector_size - offset <= call.total - bytes_read
               THEN sector_size - offset ELSE call.total - bytes_read
        /\ out' = out \o BufBytes(offset, n)
        /\ bytes_read' = bytes_read + n
  BY OneTurn
<1>6. /\ stream \in Nat /\ bytes_read \in Nat /\ call.total \in Nat
      /\ sector \in Nat /\ offset \in 0 .. (sector_size - 1)
  BY <1>1, <1>3, NextSector DEF Streaming
<1>7. n <= sector_size - offset /\ n <= call.total - bytes_read
  <2>1. n = IF sector_size - offset <= call.total - bytes_read
            THEN sector_size - offset ELSE call.total - bytes_read
    BY <1>5
  <2>2. sector_size - offset \in Int /\ call.total - bytes_read \in Int
    BY <1>6, SectorSize
  <2>3. QED
    BY <2>1, <2>2
<1> DEFINE bs == BufBytes(offset, n)
<1>8. /\ bs \in Seq(DiskWords \X {0, 1}) /\ Len(bs) = n
      /\ \A i \in 1 .. n : bs[i] = DiskByte(stream + bytes_read + i - 1)
  BY <1>1, <1>7, TurnBytes
<1>9. out' = out \o bs
  BY <1>5
<1> HIDE DEF bs
<1>10. /\ out' \in Seq(DiskWords \X {0, 1}) /\ Len(out') = Len(out) + n
       /\ \A i \in 1 .. (Len(out) + n) :
            out'[i] = IF i <= Len(out) THEN out[i] ELSE bs[i - Len(out)]
  <2> DEFINE S == DiskWords \X {0, 1}
  <2>1. out \in Seq(S) /\ bs \in Seq(S) /\ Len(bs) = n
    BY <1>3, <1>8
  <2> HIDE DEF S
  <2>2. /\ out \o bs \in Seq(S) /\ Len(out \o bs) = Len(out) + n
        /\ \A i \in 1 .. (Len(out) + n) :
             (out \o bs)[i] = IF i <= Len(out) THEN out[i] ELSE bs[i - Len(out)]
    BY <2>1, Concatenation
  <2>3. QED
    BY <1>9, <2>2 DEF S
<1>11. ReadsSlice'
  <2>1. /\ Len(out) = bytes_read
        /\ \A i \in 1 .. Len(out) : out[i] = DiskByte(call.start + i - 1)
    BY DEF Inv, ReadsSlice
  <2>2. ASSUME NEW i \in 1 .. (bytes_read + n)
        PROVE  out'[i] = DiskByte(call.start + i - 1)
    <3>1. CASE i <= bytes_read
      BY <1>6, <1>10, <2>1, <3>1
    <3>2. CASE ~(i <= bytes_read)
      <4>1. i - bytes_read \in 1 .. n
        BY <1>6, <3>2
      <4>2. out'[i] = DiskByte(stream + bytes_read + (i - bytes_read) - 1)
        BY <1>8, <1>10, <2>1, <3>2, <4>1
      <4>3. stream + bytes_read + (i - bytes_read) - 1 = call.start + i - 1
        BY <1>3, <1>6
      <4>4. QED
        BY <4>2, <4>3
    <3>3. QED
      BY <3>1, <3>2
  <2>3. QED
    BY <1>4, <1>5, <1>10, <2>1, <2>2 DEF ReadsSlice, DiskByte, DiskWord
<1>12. TypeOK'
  <2>1. bytes_read' \in Nat /\ sectors_read' \in Nat
    BY <1>1, <1>3, <1>5, <1>6
  <2>2. QED
    BY <1>1, <1>2, <1>3, <1>10, <2>1 DEF Inv, TypeOK, AtaInv
<1>13. bytes_read' < call.total => offset' = 0
  <2> SUFFICES ASSUME bytes_read' < call.total PROVE offset' = 0
    OBVIOUS
  <2>1. n = sector_size - offset
    BY <1>5, <1>6
  <2>2. stream' + bytes_read' = (sector + 1) * sector_size + 0
    <3> DEFINE base == sector * sector_size
    <3>1. (sector + 1) * sector_size = base + sector_size /\ base \in Nat
      BY <1>6, SectorSize
    <3>2. stream + bytes_read = base + offset
      BY <1>1, <1>3, NextSector DEF Streaming
    <3> HIDE DEF base
    <3>3. stream' + bytes_read' = base + sector_size
      <4>1. stream' = stream /\ bytes_read' = bytes_read + (sector_size - offset)
        BY <1>1, <1>5, <2>1
      <4>2. sector_size \in Nat
        BY SectorSize
      <4>3. QED
        BY <1>6, <3>1, <3>2, <4>1, <4>2
    <3>4. QED
      BY <3>1, <3>3, SectorSize
  <2>3. sector + 1 \in Nat /\ 0 \in 0 .. (sector_size - 1)
    BY <1>6, SectorSize
  <2>4. (stream' + bytes_read') % sector_size = 0
    BY <2>2, <2>3, SectorSize, DivModUnique
  <2>5. QED
    BY <2>4 DEF offset
<1>14. Calls'
  <2>1. bytes_read' <= call.total /\ sectors_read' > 0 /\ sectors_read' # 0
    BY <1>1, <1>3, <1>5, <1>6, <1>7
  <2>2. QED
    BY <1>1, <1>2, <1>3, <1>4, <1>13, <2>1 DEF Inv, Calls, Streaming
<1>15. HeapBalanced'
  BY <1>1, <1>4 DEF Inv, HeapBalanced, Streaming
<1>16. QED
  BY <1>2, <1>11, <1>12, <1>14, <1>15 DEF Inv

\* The loop ends when every byte is there.
LEMMA LoopEnds ==
  ASSUME Inv, Return
  PROVE  /\ bytes_read = call.total /\ Len(out) = bytes_read
         /\ stream' = call.start + Len(out) /\ stream' \in 0 .. DiskBytes
<1>1. /\ call.pc = "loop" /\ bytes_read >= call.total /\ stream' = stream + call.total
  BY DEF Return
<1>2. /\ bytes_read \in Nat /\ call.total \in Nat /\ bytes_read <= call.total
      /\ stream = call.start /\ stream \in 0 .. DiskBytes /\ DiskBytes \in Nat
      /\ stream + call.total <= DiskBytes /\ Len(out) = bytes_read
  BY <1>1, SectorSize, AtaAssumption
     DEF Inv, TypeOK, Calls, Streaming, ReadsSlice, DiskBytes
<1>3. QED
  BY <1>1, <1>2

LEMMA ReadReturnsInv == ASSUME Inv, Return PROVE Inv'
<1>1. /\ call.pc = "loop" /\ heap' = heap \ {"buf"}
      /\ call' = [call EXCEPT !.pc = "idle"]
      /\ UNCHANGED <<ataVars, bytes_read, sectors_read, out>>
  BY DEF Return
<1>2. stream' \in 0 .. DiskBytes
  BY LoopEnds
<1>3. stream \in 0 .. DiskBytes
  BY <1>1 DEF Inv, Calls, Streaming
<1>4. stream # NoStream /\ stream' # NoStream
  BY <1>2, <1>3 DEF NoStream
<1>5. AtaInv' /\ drv' = drv
  BY <1>1, AtaStutter DEF Inv, ataVars
<1>6. call \in [pc : {"idle", "loop", "block", "direct"}, start : Nat, total : Nat]
  BY DEF Inv, TypeOK
<1>7. call'.pc = "idle" /\ call'.start = call.start
  BY <1>1, <1>6
<1>8. TypeOK'
  BY <1>1, <1>2, <1>5, <1>6 DEF Inv, TypeOK, AtaInv
<1>9. HeapBalanced'
  BY <1>1, <1>4, <1>7 DEF Inv, HeapBalanced, Streaming
<1>10. QED
  BY <1>1, <1>5, <1>7, <1>8, <1>9
     DEF Inv, Calls, ReadsSlice, Streaming, DiskByte, DiskWord

LEMMA NextInv == Inv /\ [Next]_vars => Inv'
<1> SUFFICES ASSUME Inv, [Next]_vars PROVE Inv'
  OBVIOUS
<1>1. CASE \/ \E id \in DiskIds : new_stream(id)
           \/ \E pos \in 0 .. DiskBytes : seek(pos)
           \/ close
  BY <1>1, BetweenReads
<1>2. CASE \E total \in Totals : read(total)
  BY <1>2, ReadBegins
<1>3. CASE \E lba \in 0 .. (Sectors - 1), total \in 1 .. MaxTotal :
             read_block_direct(lba, total)
  BY <1>3, DirectBegins
<1>4. CASE Reading
  BY <1>4, BlockBegins, DriverMoves, DirectReturns, SectorCopied, ReadReturnsInv
     DEF Reading
<1>5. CASE Drive
  BY <1>5, DriveMoves
<1>6. CASE UNCHANGED vars
  <2>1. UNCHANGED ataVars /\ UNCHANGED streamVars
    BY <1>6 DEF vars
  <2>2. AtaInv' /\ drv' = drv
    BY <2>1, AtaStutter DEF Inv, ataVars
  <2>3. QED
    BY <2>1, <2>2, BelowStream
<1>7. QED
  BY <1>1, <1>2, <1>3, <1>4, <1>5, <1>6 DEF Next

LEMMA StreamInvariant == Spec => []Inv
BY InitInv, NextInv, PTL DEF Spec

(* The registers, the drive's state, the loop indices of read_sector and   *)
(* of read and the caller's bytes stay in their types; in particular the   *)
(* stream's position stays on the disk.                                    *)
THEOREM StreamTypes == Spec => []TypeOK
<1>1. Inv => TypeOK
  BY DEF Inv
<1>2. QED
  BY StreamInvariant, <1>1, PTL

(* read_sector stores the words of the sectors it was asked for, in order  *)
(* and without a gap, however often the driver polls and however long the  *)
(* drive takes between two sectors of a command.                           *)
THEOREM DriverStoresSectors == Spec => []WordsInOrder
<1>1. Inv => WordsInOrder
  BY DEF Inv, AtaInv
<1>2. QED
  BY StreamInvariant, <1>1, PTL

(* When read_sector's loops end, the buffer holds every word of every      *)
(* sector and the drive is idle: the next command finds it ready.          *)
THEOREM DriverTransferComplete == Spec => []TransferComplete
<1>1. Inv => TransferComplete
  BY AtaDone DEF Inv
<1>2. QED
  BY StreamInvariant, <1>1, PTL

(* DiskStreamer::read fills the caller's buffer with the bytes of the disk *)
(* from the stream's position on, at any alignment and across any number   *)
(* of sectors.                                                             *)
THEOREM StreamReadsSlice == Spec => []ReadsSlice
<1>1. Inv => ReadsSlice
  BY DEF Inv
<1>2. QED
  BY StreamInvariant, <1>1, PTL

(* The stream is on the heap from new_stream to close and the sector       *)
(* buffer only while read runs.                                            *)
THEOREM StreamHeapBalanced == Spec => []HeapBalanced
<1>1. Inv => HeapBalanced
  BY DEF Inv
<1>2. QED
  BY StreamInvariant, <1>1, PTL

(* No step of a read moves the stream but the last, and that one moves it  *)
(* past exactly what was delivered.                                        *)
THEOREM StreamPositionFollowsRead == Spec => PositionFollowsRead
<1>1. ASSUME Inv, [Next]_vars, Streaming
      PROVE  \/ UNCHANGED vars
             \/ stream' = IF Idle' THEN call.start + Len(out) ELSE stream
  <2>1. call \in [pc : {"idle", "loop", "block", "direct"}, start : Nat, total : Nat]
        /\ call.pc \in {"loop", "block"}
    BY <1>1 DEF Inv, TypeOK, Streaming
  <2>2. CASE \/ \E id \in DiskIds : new_stream(id)
             \/ \E pos \in 0 .. DiskBytes : seek(pos)
             \/ \E total \in Totals : read(total)
             \/ close
             \/ \E lba \in 0 .. (Sectors - 1), total \in 1 .. MaxTotal :
                  read_block_direct(lba, total)
             \/ ReadBlockReturn
    BY <2>1, <2>2 DEF new_stream, seek, read, close, read_block_direct,
                      ReadBlockReturn, Idle
  <2>3. CASE read_block \/ CopyOut
    <3>1. stream' = stream
          /\ \/ call' = [call EXCEPT !.pc = "block"]
             \/ call' = [call EXCEPT !.pc = "loop"]
      BY <2>3 DEF read_block, CopyOut
    <3>2. QED
      BY <2>1, <3>1 DEF Idle
  <2>4. CASE ReadBlockStep \/ Drive
    BY <2>1, <2>4 DEF ReadBlockStep, Drive, streamVars, Idle
  <2>5. CASE Return
    <3>1. call'.pc = "idle" /\ stream' = call.start + Len(out)
      BY <1>1, <2>1, <2>5, LoopEnds DEF Return
    <3>2. QED
      BY <3>1 DEF Idle
  <2>6. QED
    BY <1>1, <2>2, <2>3, <2>4, <2>5 DEF Next, Reading
<1>2. Inv /\ [Next]_vars
        => [Streaming => stream' = IF Idle' THEN call.start + Len(out) ELSE stream]_vars
  BY <1>1
<1>3. QED
  BY StreamInvariant, <1>2, PTL DEF Spec, PositionFollowsRead

============================================================================
