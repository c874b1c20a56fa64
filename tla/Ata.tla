-------------------------------- MODULE Ata --------------------------------
(***************************************************************************)
(* The ATA driver, kernel/drivers/ata/ata.cpp, against an asynchronous     *)
(* drive.  The drive accepts a read command, prepares a sector in its own  *)
(* time, raises DRQ, and lowers it when the last word has been taken; the  *)
(* driver polls for DRQ and copies a sector of words.  What a word of the  *)
(* disk holds is named by its place: <<sector, word>>.                     *)
(***************************************************************************)
EXTENDS Integers, Sequences

CONSTANTS
  Sectors,         \* sectors on the drive
  WordsPerSector,  \* 256
  RegBase,         \* values of an LBA register: 256
  CountBase        \* values of the sector count register: 256

ASSUME AtaAssumption ==
  /\ Sectors \in Nat \ {0}
  /\ WordsPerSector \in Nat \ {0}
  /\ RegBase \in Nat \ {0}
  /\ CountBase \in Nat \ {0}

VARIABLES
  regs,  \* the command block registers
  dev,   \* the drive: state, the sector it serves, sectors left, next word
  drv,   \* the driver: where it is in read_sector and its loop indices
  buf    \* the words read_sector has stored

ataVars == <<regs, dev, drv, buf>>

Junk == <<-1, -1>>  \* what the data port gives when no data is ready

\* What read_sector writes to the registers.  The upper bits of the LBA are
\* not masked; the low three registers are bytes.
LbaRegs(lba) ==
  [low  |-> lba % RegBase,
   mid  |-> (lba \div RegBase) % RegBase,
   high |-> (lba \div (RegBase * RegBase)) % RegBase,
   head |-> lba \div (RegBase * RegBase * RegBase)]

\* The sector the drive understands.
DecodeLba(r) ==
  r.low + RegBase * (r.mid + RegBase * (r.high + RegBase * r.head))

\* The number of sectors it understands: 0 stands for one more than the
\* register holds.
DecodeCount(count) == IF count = 0 THEN CountBase ELSE count

AtaInit ==
  /\ regs = [lba |-> LbaRegs(0), count |-> 0]
  /\ dev = [state |-> "idle", lba |-> 0, left |-> 0, word |-> 0]
  /\ drv = [pc |-> "idle", lba |-> 0, total |-> 0, sector_idx |-> 0, word_idx |-> 0]
  /\ buf = << >>

read_sector(lba, total) ==
  /\ drv.pc = "idle"
  /\ regs' = [lba |-> LbaRegs(lba), count |-> total % CountBase]
  /\ dev' = [state |-> "busy", lba |-> DecodeLba(regs'.lba),
             left |-> DecodeCount(regs'.count), word |-> 0]
  /\ drv' = [pc |-> "poll", lba |-> lba, total |-> total, sector_idx |-> 0, word_idx |-> 0]
  /\ buf' = << >>

\* A mutant does not wait.
WaitDrq_nowait ==
  /\ drv.pc = "poll"
  /\ drv' = [drv EXCEPT !.pc = "copy", !.word_idx = 0]
  /\ UNCHANGED <<regs, dev, buf>>

\* The status is read until bit 3, DRQ, is on; only that read has an effect.
WaitDrq ==
  /\ drv.pc = "poll"
  /\ dev.state = "drq"
  /\ drv' = [drv EXCEPT !.pc = "copy", !.word_idx = 0]
  /\ UNCHANGED <<regs, dev, buf>>

\* The drive's side of a read of the data port.
DataPort == IF dev.state = "drq" THEN <<dev.lba, dev.word>> ELSE Junk

TakeWord ==
  IF dev.state # "drq" THEN dev
  ELSE IF dev.word + 1 < WordsPerSector THEN [dev EXCEPT !.word = @ + 1]
  ELSE [state |-> IF dev.left > 1 THEN "busy" ELSE "idle",
        lba   |-> dev.lba + 1,
        left  |-> dev.left - 1,
        word  |-> 0]

\* Where the loops of read_sector go after a word.  Mutants stop after one
\* sector, or expect one too many.
AfterWord_extra ==
  IF drv.word_idx + 1 < WordsPerSector THEN [drv EXCEPT !.word_idx = @ + 1]
  ELSE [drv EXCEPT !.word_idx   = 0,
                   !.sector_idx = @ + 1,
                   !.pc = IF drv.sector_idx + 1 <= drv.total THEN "poll" ELSE "done"]

AfterWord_onesector ==
  IF drv.word_idx + 1 < WordsPerSector THEN [drv EXCEPT !.word_idx = @ + 1]
  ELSE [drv EXCEPT !.word_idx = 0, !.sector_idx = @ + 1, !.pc = "done"]

AfterWord ==
  IF drv.word_idx + 1 < WordsPerSector THEN [drv EXCEPT !.word_idx = @ + 1]
  ELSE [drv EXCEPT !.word_idx   = 0,
                   !.sector_idx = @ + 1,
                   !.pc = IF drv.sector_idx + 1 < drv.total THEN "poll" ELSE "done"]

insw ==
  /\ drv.pc = "copy"
  /\ buf' = Append(buf, DataPort)
  /\ dev' = TakeWord
  /\ drv' = AfterWord
  /\ UNCHANGED regs

\* The drive has the sector in its buffer.
DriveReady ==
  /\ dev.state = "busy"
  /\ dev' = [dev EXCEPT !.state = "drq"]
  /\ UNCHANGED <<regs, drv, buf>>

DriverStep == WaitDrq \/ insw

\* read_sector returns to its caller.
ReturnSector == drv.pc = "done" /\ drv' = [drv EXCEPT !.pc = "idle"]

----------------------------------------------------------------------------
DiskWords == (0 .. (Sectors - 1)) \X (0 .. (WordsPerSector - 1))

(* Type invariant of the drive and the driver.                             *)
AtaTypeOK ==
  /\ regs \in [lba : [low : 0 .. (RegBase - 1), mid : 0 .. (RegBase - 1),
                      high : 0 .. (RegBase - 1), head : Nat],
               count : 0 .. (CountBase - 1)]
  /\ dev \in [state : {"idle", "busy", "drq"}, lba : 0 .. Sectors,
              left : Nat, word : 0 .. (WordsPerSector - 1)]
  /\ drv \in [pc : {"idle", "poll", "copy", "done"}, lba : 0 .. (Sectors - 1),
              total : Nat, sector_idx : Nat, word_idx : 0 .. (WordsPerSector - 1)]
  /\ buf \in Seq(DiskWords)

\* Word k, from 0, of the sectors from lba on.
DiskWord(lba, k) == <<lba + k \div WordsPerSector, k % WordsPerSector>>

(* The words in the buffer are those of the sectors asked for, in order    *)
(* and without a gap, at every moment of the transfer.                     *)
WordsInOrder ==
  \A k \in 1 .. Len(buf) : buf[k] = DiskWord(drv.lba, k - 1)

(* read_sector returns after it has stored every word of every sector, and *)
(* leaves the drive with nothing to hand over.                             *)
TransferComplete ==
  drv.pc = "done" =>
    /\ Len(buf) = drv.total * WordsPerSector
    /\ dev.state = "idle"

============================================================================
