---------------------------- MODULE DiskStreamer ----------------------------
(***************************************************************************)
(* A byte stream over the disk: kernel/disk/disk_streamer.cpp and disk.cpp *)
(* on top of the ATA driver.  The stream may be positioned and read at any *)
(* byte; the driver below delivers whole sectors.                          *)
(***************************************************************************)
EXTENDS Ata, FiniteSetsExt

CONSTANTS
  DiskIds,   \* arguments of new_stream
  Totals,    \* byte counts that callers read
  MaxTotal   \* most sectors in one command of a caller of read_block

\* A command for more sectors than its register can say would leave the driver
\* waiting; the streamer asks for one.
ASSUME StreamerAssumption == Totals \subseteq Nat /\ MaxTotal \in 1 .. CountBase

sector_size == 2 * WordsPerSector

DiskBytes == Sectors * sector_size

VARIABLES
  stream,        \* the open stream's pos, or NoStream
  call,          \* arguments of the read in progress or of the last one
  bytes_read, sectors_read,
  out,           \* the bytes stored in the caller's buffer
  heap           \* what the streamer holds on the kernel heap

streamVars == <<stream, call, bytes_read, sectors_read, out, heap>>
vars == <<ataVars, streamVars>>

NoStream == -1

Idle == call.pc = "idle"

Streaming == call.pc \in {"loop", "block"}

Init ==
  /\ AtaInit
  /\ stream = NoStream
  /\ call = [pc |-> "idle", start |-> 0, total |-> 0]
  /\ bytes_read = 0
  /\ sectors_read = 0
  /\ out = << >>
  /\ heap = {}

\* disk.cpp knows one disk; for any other index new_stream returns null.
get(index) == index = 0

new_stream(disk_id) ==
  /\ Idle
  /\ stream = NoStream
  /\ stream' = IF get(disk_id) THEN 0 ELSE NoStream
  /\ heap' = IF get(disk_id) THEN heap \cup {"stream"} ELSE heap
  /\ UNCHANGED <<ataVars, call, bytes_read, sectors_read, out>>

seek(pos) ==
  /\ Idle
  /\ stream # NoStream
  /\ stream' = pos
  /\ UNCHANGED <<ataVars, call, bytes_read, sectors_read, out, heap>>

close ==
  /\ Idle
  /\ stream # NoStream
  /\ stream' = NoStream
  /\ heap' = heap \ {"stream"}
  /\ UNCHANGED <<ataVars, call, bytes_read, sectors_read, out>>

read(total) ==
  /\ Idle
  /\ stream # NoStream
  /\ stream + total <= DiskBytes
  /\ call' = [pc |-> "loop", start |-> stream, total |-> total]
  /\ bytes_read' = 0
  /\ sectors_read' = 0
  /\ out' = << >>
  /\ heap' = heap \cup {"buf"}
  /\ UNCHANGED <<ataVars, stream>>

sector == (stream + bytes_read) \div sector_size
offset == (stream + bytes_read) % sector_size

\* read_block: the disk is the primary one, so the driver is called.
read_block ==
  /\ call.pc = "loop"
  /\ bytes_read < call.total
  /\ read_sector(sector, 1)
  /\ call' = [call EXCEPT !.pc = "block"]
  /\ UNCHANGED <<stream, bytes_read, sectors_read, out, heap>>

\* A caller of its own asks for one or several sectors.
read_block_direct(lba, total) ==
  /\ Idle
  /\ lba + total <= Sectors
  /\ read_sector(lba, total)
  /\ call' = [call EXCEPT !.pc = "direct"]
  /\ UNCHANGED <<stream, bytes_read, sectors_read, out, heap>>

ReadBlockStep ==
  /\ call.pc \in {"block", "direct"}
  /\ DriverStep
  /\ UNCHANGED streamVars

ReadBlockReturn ==
  /\ call.pc = "direct"
  /\ ReturnSector
  /\ call' = [call EXCEPT !.pc = "idle"]
  /\ UNCHANGED <<regs, dev, buf, stream, bytes_read, sectors_read, out, heap>>

\* Byte i of the sector buffer: which half of which word.
BufByte(i) == <<buf[i \div 2 + 1], i % 2>>

BufBytes(from, n) == [i \in 1 .. n |-> BufByte(from + i - 1)]

\* A mutant copies from the start of the sector.
CopyOut_nooffset ==
  /\ call.pc = "block"
  /\ ReturnSector
  /\ LET n == Min({sector_size - offset, call.total - bytes_read})
     IN  /\ out' = out \o BufBytes(0, n)
         /\ bytes_read' = bytes_read + n
  /\ sectors_read' = sectors_read + 1
  /\ call' = [call EXCEPT !.pc = "loop"]
  /\ UNCHANGED <<regs, dev, buf, stream, heap>>

\* The rest of the loop body.  After the first sector the bytes below offset
\* are copied as well.
CopyOut ==
  /\ call.pc = "block"
  /\ ReturnSector
  /\ LET below     == IF sectors_read > 0 THEN offset ELSE 0
         remainder == call.total - (bytes_read + below)
         n         == Min({sector_size - offset, remainder})
     IN  /\ out' = out \o BufBytes(0, below) \o BufBytes(offset, n)
         /\ bytes_read' = bytes_read + below + n
  /\ sectors_read' = sectors_read + 1
  /\ call' = [call EXCEPT !.pc = "loop"]
  /\ UNCHANGED <<regs, dev, buf, stream, heap>>

\* Mutants: the last byte may be missing; the sector buffer is not freed.
Return_short ==
  /\ call.pc = "loop"
  /\ bytes_read + 1 >= call.total
  /\ stream' = stream + call.total
  /\ heap' = heap \ {"buf"}
  /\ call' = [call EXCEPT !.pc = "idle"]
  /\ UNCHANGED <<ataVars, bytes_read, sectors_read, out>>

Return_leak ==
  /\ call.pc = "loop"
  /\ bytes_read >= call.total
  /\ stream' = stream + call.total
  /\ call' = [call EXCEPT !.pc = "idle"]
  /\ UNCHANGED <<ataVars, bytes_read, sectors_read, out, heap>>

Return ==
  /\ call.pc = "loop"
  /\ bytes_read >= call.total
  /\ stream' = stream + call.total
  /\ heap' = heap \ {"buf"}
  /\ call' = [call EXCEPT !.pc = "idle"]
  /\ UNCHANGED <<ataVars, bytes_read, sectors_read, out>>

Drive == DriveReady /\ UNCHANGED streamVars

\* The steps of a read that is under way.
Reading == read_block \/ ReadBlockStep \/ ReadBlockReturn \/ CopyOut \/ Return

Next ==
  \/ \E id \in DiskIds : new_stream(id)
  \/ \E pos \in 0 .. DiskBytes : seek(pos)
  \/ \E total \in Totals : read(total)
  \/ close
  \/ \E lba \in 0 .. (Sectors - 1), total \in 1 .. MaxTotal : read_block_direct(lba, total)
  \/ Reading
  \/ Drive

Spec == Init /\ [][Next]_vars

\* The CPU executes the read, and a drive that was given a command answers.
FairSpec == Spec /\ WF_vars(Reading) /\ WF_vars(Drive)

----------------------------------------------------------------------------
(* Type invariant of the stream and of the loop of read.                   *)
TypeOK ==
  /\ AtaTypeOK
  /\ stream \in 0 .. DiskBytes \cup {NoStream}
  /\ call \in [pc : {"idle", "loop", "block", "direct"}, start : Nat, total : Nat]
  /\ bytes_read \in Nat
  /\ sectors_read \in Nat
  /\ out \in Seq(DiskWords \X {0, 1})
  /\ heap \subseteq {"stream", "buf"}

\* The byte at position p of the disk.
DiskByte(p) == <<DiskWord(0, p \div 2), p % 2>>

(* At every moment of a read, and after it, the caller's buffer holds the  *)
(* bytes of the disk from the stream's position on, across sector          *)
(* boundaries and for any alignment.                                       *)
ReadsSlice ==
  /\ Len(out) = bytes_read
  /\ \A i \in 1 .. Len(out) : out[i] = DiskByte(call.start + i - 1)

(* The stream moves when the read is complete, and by what was delivered:  *)
(* a read that returns has stored all the bytes it was asked for.          *)
PositionFollowsRead ==
  [][Streaming => stream' = IF Idle' THEN call.start + Len(out) ELSE stream]_vars

(* The streamer holds its stream from new_stream to close and a sector     *)
(* buffer only while a read is under way: reads do not use up the heap.    *)
HeapBalanced ==
  /\ "stream" \in heap <=> stream # NoStream
  /\ "buf" \in heap <=> Streaming

(* Every read returns: the driver does not poll for a sector that the      *)
(* drive has already handed over.                                          *)
ReadReturns == []<>Idle

============================================================================
