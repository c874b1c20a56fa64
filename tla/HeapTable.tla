----------------------------- MODULE HeapTable -----------------------------
(***************************************************************************)
(* The block table of the kernel heap and the two algorithms that work on  *)
(* it, as operators over a table value: kernel/mm/heap/heap.h,             *)
(* heap_utilities.cpp and find_first_fit_strategy.cpp.                     *)
(*                                                                         *)
(* Addresses are counted in blocks: address p stands for the block_size    *)
(* bytes from p * BlockSize, so the 32-bit address space has AddrBlocks of *)
(* them and HEAP_ADDRESS is block HeapBlock.  Sizes stay in bytes and      *)
(* wrap as size_t does.                                                    *)
(***************************************************************************)
EXTENDS Integers, FiniteSetsExt

CONSTANTS
  TotalEntries,  \* heap_table.total_entries = HEAP_SIZE_BYTES / HEAP_BLOCK_SIZE
  BlockSize,     \* HEAP_BLOCK_SIZE
  AddrBlocks,    \* 2^32 / HEAP_BLOCK_SIZE
  HeapBlock,     \* HEAP_ADDRESS / HEAP_BLOCK_SIZE
  ENOMEM         \* the errno value of status.h

(* What config.h guarantees: the heap lies inside the address space, and   *)
(* block -ENOMEM of the heap is still an address above zero.               *)
ASSUME ConfigAssumption ==
  /\ TotalEntries \in Nat \ {0}
  /\ BlockSize \in Nat \ {0}
  /\ AddrBlocks \in Nat \ {0}
  /\ ENOMEM \in Nat \ {0}
  /\ HeapBlock \in Nat
  /\ ENOMEM <= HeapBlock
  /\ HeapBlock + TotalEntries <= AddrBlocks

Blocks == 0 .. (TotalEntries - 1)

(* A table entry is a byte; it is the set of the flags that are on.        *)
TAKEN    == "TAKEN"     \* HEAP_BLOCK_TABLE_ENTRY_TAKEN, the low nibble
HAS_NEXT == "HAS_NEXT"  \* HEAP_BLOCK_HAS_NEXT
IS_FIRST == "IS_FIRST"  \* HEAP_BLOCK_IS_FIRST
FREE     == {}          \* HEAP_BLOCK_TABLE_ENTRY_FREE

Entry == SUBSET {TAKEN, HAS_NEXT, IS_FIRST}
Table == [Blocks -> Entry]

get_entry_type(entry) == entry \cap {TAKEN}

IsFree(t, b) == get_entry_type(t[b]) = FREE

----------------------------------------------------------------------------
(* Arithmetic of heap_utilities.cpp.                                       *)

SIZE_MOD == BlockSize * AddrBlocks

size_t(x) == x % SIZE_MOD

\* A mutant rounds down, so the last partial block is not reserved.
align_to_upper_down(size) == size_t(size - (size % BlockSize))

align_to_upper(size) ==
  LET remainder == size % BlockSize
      leftover  == BlockSize - remainder
  IN  size_t(size + leftover)

num_blocks(size) == align_to_upper(size) \div BlockSize

block_idx_2_block_address(idx) == (HeapBlock + idx) % AddrBlocks

block_address_2_block_idx(addr) == (addr - HeapBlock) % AddrBlocks

nullptr == 0

----------------------------------------------------------------------------
(* find_first_fit_start_block.  The outer loop looks only at block 0 and   *)
(* at the blocks that follow a taken one: after an unsuccessful run that   *)
(* stopped at idx_range it continues at idx_range + 1.                     *)

scan_starts(t) == {0} \cup {b + 1 : b \in {c \in Blocks : ~IsFree(t, c)}}

\* The run of free blocks that starts at idx holds at least size bytes.
HasContiguous(t, idx, size) ==
  \E count \in 0 .. (TotalEntries - idx) :
    /\ count * BlockSize >= size
    /\ \A b \in idx .. (idx + count - 1) : IsFree(t, b)

Candidates(t, size) ==
  {idx \in scan_starts(t) \cap Blocks : HasContiguous(t, idx, size)}

\* Mutants: the run is too short by one block; the last run is taken; the
\* index after the run is returned.
find_first_fit_start_block_end(t, size) ==
  LET found == Candidates(t, size)
  IN  IF found = {} THEN -ENOMEM
      ELSE Min({b \in Min(found) .. TotalEntries : b \in Blocks => ~IsFree(t, b)})

find_first_fit_start_block_short(t, size) ==
  LET found == Candidates(t, size - BlockSize)
  IN  IF found = {} THEN -ENOMEM ELSE Min(found)

find_first_fit_start_block_last(t, size) ==
  LET found == Candidates(t, size)
  IN  IF found = {} THEN -ENOMEM ELSE Max(found)

find_first_fit_start_block(t, size) ==
  LET found == Candidates(t, size)
  IN  IF found = {} THEN -ENOMEM ELSE Min(found)

\* What the search is for: n blocks from i on are free and in the heap.
FitsAt(t, i, n) ==
  /\ i + n <= TotalEntries
  /\ \A b \in i .. (i + n - 1) : IsFree(t, b)

----------------------------------------------------------------------------
(* heap_malloc after the search.  first may be -ENOMEM: the result of the  *)
(* search is not tested.  The loop index is a size_t, the last index wraps *)
(* with it, and a last index of SIZE_MAX makes the loop endless.           *)

Endless(first, num) == size_t(first + num - 1) = SIZE_MOD - 1

Marked(first, num) ==
  IF size_t(first) <= size_t(first + num - 1)
  THEN first .. (first + num - 1)
  ELSE {}

\* Mutants: every block is marked as the last one, or as one with a next.
MarkTaken_NoNext(t, first, num) ==
  [b \in Blocks |-> IF b \in Marked(first, num) THEN {TAKEN} ELSE t[b]]

MarkTaken_AllNext(t, first, num) ==
  [b \in Blocks |->
     IF b \in Marked(first, num) THEN {TAKEN, HAS_NEXT} ELSE t[b]]

\* The loop overwrites the IS_FIRST that the first entry is given before it.
MarkTaken(t, first, num) ==
  [b \in Blocks |->
     IF Endless(first, num) THEN {TAKEN, HAS_NEXT}
     ELSE IF b \in Marked(first, num)
          THEN IF b = first + num - 1 THEN {TAKEN} ELSE {TAKEN, HAS_NEXT}
          ELSE IF b = first THEN {IS_FIRST} ELSE t[b]]

----------------------------------------------------------------------------
(* heap_free: clear entries from the block of addr up to and including the *)
(* first one without HAS_NEXT, never past the end of the table.            *)

Chain(t, idx) ==
  {b \in Blocks : idx <= b /\ \A c \in idx .. (b - 1) : HAS_NEXT \in t[c]}

\* Mutants: only the first block is cleared; the walk goes one too far.
heap_free_one(t, addr) ==
  LET idx == block_address_2_block_idx(addr)
  IN  [b \in Blocks |-> IF b = idx THEN FREE ELSE t[b]]

heap_free_far(t, addr) ==
  LET idx == block_address_2_block_idx(addr)
  IN  [b \in Blocks |->
         IF b \in Chain(t, idx) \/ b - 1 \in Chain(t, idx) THEN FREE ELSE t[b]]

heap_free(t, addr) ==
  LET idx == block_address_2_block_idx(addr)
  IN  [b \in Blocks |-> IF b \in Chain(t, idx) THEN FREE ELSE t[b]]

============================================================================
