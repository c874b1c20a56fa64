---------------------------- MODULE KHeapProofs ----------------------------
(***************************************************************************)
(* The heap's table describes exactly what is held, and no two allocations *)
(* overlap, for every size of the heap, every request and every order of   *)
(* calls.  At the end, the loops of the search: what HeapTable writes as   *)
(* one expression is what they compute.                                    *)
(***************************************************************************)
EXTENDS KHeap, FirstFitLoop, Numbers, FiniteSetTheorems

----------------------------------------------------------------------------
(* The operators on tables.                                                *)

(* The search fails, or returns the first block of a free run that is      *)
(* large enough.                                                           *)
LEMMA SearchResult ==
  ASSUME NEW t, NEW size,
         NEW first, first = find_first_fit_start_block(t, size)
  PROVE  \/ first = -ENOMEM /\ Candidates(t, size) = {}
         \/ first \in Blocks /\ HasContiguous(t, first, size)
<1>1. Candidates(t, size) \in SUBSET Nat
  BY ConfigAssumption DEF Candidates, Blocks
<1>2. CASE Candidates(t, size) = {}
  BY <1>2 DEF find_first_fit_start_block
<1>3. CASE Candidates(t, size) # {}
  <2>1. first = Min(Candidates(t, size))
    BY <1>3 DEF find_first_fit_start_block
  <2>2. first \in Candidates(t, size)
    BY <1>1, <1>3, <2>1, MinOfNats
  <2>3. QED
    BY <2>2 DEF Candidates
<1>4. QED
  BY <1>2, <1>3

----------------------------------------------------------------------------
(* Arithmetic.                                                             *)

LEMMA SizeMod ==
  /\ SIZE_MOD \in Nat \ {0}
  /\ AddrBlocks <= SIZE_MOD
  /\ SIZE_MOD = AddrBlocks * BlockSize
<1>1. AddrBlocks * 1 <= AddrBlocks * BlockSize
  BY ConfigAssumption, MulMono
<1>2. QED
  BY ConfigAssumption, <1>1 DEF SIZE_MOD

(* align_to_upper is a whole number of blocks, at least one and fewer than *)
(* the address space has, or it has wrapped to zero.                       *)
LEMMA AlignedBlocks ==
  ASSUME NEW size \in 0 .. (SIZE_MOD - 1)
  PROVE  /\ num_blocks(size) \in 0 .. (AddrBlocks - 1)
         /\ align_to_upper(size) = num_blocks(size) * BlockSize
         /\ num_blocks(size) > 0 => size < num_blocks(size) * BlockSize
<1> USE ConfigAssumption
<1> DEFINE q == size \div BlockSize
           r == size % BlockSize
<1>1. q \in Nat /\ r \in 0 .. (BlockSize - 1) /\ size = q * BlockSize + r
  OBVIOUS
<1>2. size + (BlockSize - r) = (q + 1) * BlockSize
  BY <1>1
<1>3. q < AddrBlocks
  <2>1. CASE AddrBlocks <= q
    <3>1. AddrBlocks * BlockSize <= q * BlockSize
      BY <1>1, <2>1, MulMono
    <3>2. QED
      BY <1>1, <3>1, SizeMod
  <2>2. QED
    BY <1>1, <2>1
<1>4. align_to_upper(size) = ((q + 1) * BlockSize) % SIZE_MOD
  BY <1>2 DEF align_to_upper, size_t
<1> HIDE DEF q, r
<1>5. CASE q + 1 = AddrBlocks
  <2>1. (AddrBlocks * BlockSize) % (AddrBlocks * BlockSize) = 0
    <3>1. \A m \in Nat \ {0} : m % m = 0
      OBVIOUS
    <3>2. QED
      BY <3>1, SizeMod
  <2>2. align_to_upper(size) = 0
    BY <1>4, <1>5, <2>1, SizeMod
  <2>3. num_blocks(size) = 0
    BY <2>2 DEF num_blocks
  <2>4. QED
    BY <2>2, <2>3
<1>6. CASE q + 1 < AddrBlocks
  <2>1. (q + 1) * BlockSize < SIZE_MOD
    <3>1. (q + 2) * BlockSize <= AddrBlocks * BlockSize
      BY <1>1, <1>6, MulMono
    <3>2. (q + 2) * BlockSize = (q + 1) * BlockSize + BlockSize
      BY <1>1
    <3>3. QED
      BY <1>1, <3>1, <3>2, SizeMod
  <2>2. (q + 1) * BlockSize \in Nat
    BY <1>1
  <2>3. align_to_upper(size) = (q + 1) * BlockSize
    BY <1>4, <2>1, <2>2, SizeMod, ModSmall
  <2>4. num_blocks(size) = q + 1
    BY <1>1, <2>3, DivMul DEF num_blocks
  <2>5. size < (q + 1) * BlockSize
    BY <1>1, <1>2
  <2>6. QED
    BY <1>1, <1>6, <2>3, <2>4, <2>5
<1>7. QED
  BY <1>1, <1>3, <1>5, <1>6

----------------------------------------------------------------------------
(* Allocation.                                                             *)

(* An empty request is met at block 0, and the marking of it never ends.   *)
LEMMA EmptyRequestHangs ==
  ASSUME NEW t
  PROVE  find_first_fit_start_block(t, 0) = 0 /\ Endless(0, 0)
<1> USE ConfigAssumption
<1> DEFINE C == Candidates(t, 0)
<1>1. HasContiguous(t, 0, 0)
  <2>1. 0 \in 0 .. (TotalEntries - 0) /\ 0 * BlockSize >= 0 /\ 0 .. (0 + 0 - 1) = {}
    OBVIOUS
  <2>2. QED
    BY <2>1 DEF HasContiguous
<1>2. 0 \in C
  BY <1>1 DEF Candidates, scan_starts, Blocks
<1>3. C \in SUBSET Nat
  BY DEF Candidates, Blocks
<1>4. Min(C) = 0
  <2> HIDE DEF C
  <2>1. Min(C) \in C /\ \A y \in C : Min(C) <= y
    BY <1>2, <1>3, MinOfNats
  <2>2. Min(C) \in Nat /\ Min(C) <= 0
    BY <1>2, <1>3, <2>1
  <2>3. QED
    BY <2>2
<1>5. find_first_fit_start_block(t, 0) = 0
  BY <1>2, <1>4 DEF find_first_fit_start_block
<1>6. Endless(0, 0)
  BY SizeMod, ModNegative DEF Endless, size_t
<1>7. QED
  BY <1>5, <1>6

(* A run of enough bytes is a run of as many blocks inside the heap.       *)
LEMMA ContiguousRun ==
  ASSUME NEW t, NEW first \in Blocks, NEW num \in Nat,
         HasContiguous(t, first, num * BlockSize)
  PROVE  /\ first + num <= TotalEntries
         /\ \A b \in first .. (first + num - 1) : IsFree(t, b)
<1> USE ConfigAssumption
<1>1. PICK count \in 0 .. (TotalEntries - first) :
        /\ count * BlockSize >= num * BlockSize
        /\ \A b \in first .. (first + count - 1) : IsFree(t, b)
  BY DEF HasContiguous
<1>2. count \in Nat
  BY <1>1 DEF Blocks
<1>3. count >= num
  <2>1. CASE count + 1 <= num
    <3>1. (count + 1) * BlockSize <= num * BlockSize
      BY <1>2, <2>1, MulMono
    <3>2. (count + 1) * BlockSize = count * BlockSize + BlockSize
      BY <1>2
    <3>3. count * BlockSize \in Nat /\ num * BlockSize \in Nat
      BY <1>2
    <3>4. QED
      BY <1>1, <3>1, <3>2, <3>3
  <2>2. QED
    BY <1>2, <2>1
<1>4. QED
  BY <1>1, <1>2, <1>3 DEF Blocks

(* What heap_malloc has found when it comes to mark the blocks: nothing,   *)
(* or a free run of at least one block that lies inside the heap.          *)
LEMMA FoundRun ==
  ASSUME NEW t, NEW size \in 0 .. (SIZE_MOD - 1),
         NEW num, num = num_blocks(size),
         NEW first, first = find_first_fit_start_block(t, align_to_upper(size)),
         ~Endless(first, num)
  PROVE  /\ num > 0
         /\ \/ first = -ENOMEM
            \/ /\ first \in Blocks
               /\ first + num <= TotalEntries
               /\ \A b \in first .. (first + num - 1) : IsFree(t, b)
<1>1. num \in Nat /\ align_to_upper(size) = num * BlockSize
  BY AlignedBlocks
<1>2. num > 0
  <2>1. CASE num = 0
    <3>1. align_to_upper(size) = 0
      BY <1>1, <2>1, ConfigAssumption
    <3>2. first = 0
      BY <3>1, EmptyRequestHangs
    <3>3. QED
      BY <2>1, <3>2, EmptyRequestHangs
  <2>2. QED
    BY <1>1, <2>1
<1>3. QED
  BY <1>1, <1>2, SearchResult, ContiguousRun

(* Where the marking of heap_malloc never ends, the run it would mark lies *)
(* below the heap or is empty.                                             *)
LEMMA EndlessBelowHeap ==
  ASSUME NEW t, NEW size \in 0 .. (SIZE_MOD - 1),
         NEW num, num = num_blocks(size),
         NEW first, first = find_first_fit_start_block(t, align_to_upper(size)),
         Endless(first, num)
  PROVE  first + num <= 0
<1> USE ConfigAssumption
<1>1. num \in 0 .. (AddrBlocks - 1) /\ align_to_upper(size) = num * BlockSize
  BY AlignedBlocks
<1>2. first \in Int /\ first + num - 1 <= SIZE_MOD - 2
  <2>1. CASE first = -ENOMEM
    BY <1>1, <2>1, SizeMod
  <2>2. CASE first \in Blocks /\ HasContiguous(t, first, num * BlockSize)
    <3>1. num \in Nat
      BY <1>1
    <3>2. first + num <= TotalEntries
      BY <2>2, <3>1, ContiguousRun
    <3>3. QED
      BY <2>2, <3>1, <3>2, SizeMod DEF Blocks
  <2>3. QED
    BY <1>1, <2>1, <2>2, SearchResult
<1>3. CASE first + num - 1 >= 0
  <2>1. first + num - 1 \in 0 .. (SIZE_MOD - 1)
    BY <1>1, <1>2, <1>3, SizeMod
  <2>2. size_t(first + num - 1) = first + num - 1
    BY <2>1, SizeMod, ModSmall DEF size_t
  <2>3. QED
    BY <1>1, <1>2, <2>2, SizeMod DEF Endless
<1>4. QED
  BY <1>1, <1>2, <1>3

(* The scan of the first-fit search misses nothing although it skips start *)
(* positions: wherever a request fits, it finds a place, and none behind.  *)
LEMMA SearchMissesNothing ==
  ASSUME NEW t, NEW i \in Blocks, NEW n \in Nat, FitsAt(t, i, n),
         NEW first, first = find_first_fit_start_block(t, n * BlockSize)
  PROVE  first \in Blocks /\ first <= i
<1> USE ConfigAssumption
<1> DEFINE size   == n * BlockSize
           Starts == {k \in 0 .. i : \A b \in k .. (i - 1) : IsFree(t, b)}
           c      == Min(Starts)
<1>1. i \in Starts /\ Starts \in SUBSET Nat
  BY DEF Blocks
<1>2. c \in Starts /\ \A k \in Starts : c <= k
  BY <1>1, MinOfNats
<1> HIDE DEF c
<1>3. c \in 0 .. i /\ \A b \in c .. (i - 1) : IsFree(t, b)
  BY <1>2
<1>4. c \in scan_starts(t) \cap Blocks
  <2>1. CASE c > 0
    <3>1. c - 1 \in Blocks /\ c - 1 \in 0 .. i
      BY <1>3, <2>1 DEF Blocks
    <3>2. c - 1 \notin Starts
      BY <1>2, <1>3
    <3>3. ~IsFree(t, c - 1)
      <4>1. \A b \in (c - 1) .. (i - 1) : b = c - 1 \/ b \in c .. (i - 1)
        BY <1>3 DEF Blocks
      <4>2. QED
        BY <1>3, <3>1, <3>2, <4>1
    <3>4. c = (c - 1) + 1
      BY <1>3
    <3>5. QED
      BY <1>3, <3>1, <3>3, <3>4 DEF scan_starts, Blocks
  <2>2. CASE c = 0
    BY <2>2 DEF scan_starts, Blocks
  <2>3. QED
    BY <1>3, <2>1, <2>2
<1>5. HasContiguous(t, c, size)
  <2> DEFINE count == i - c + n
  <2>1. count \in 0 .. (TotalEntries - c) /\ count \in Nat /\ n <= count
    BY <1>3 DEF FitsAt, Blocks
  <2>2. count * BlockSize >= size
    <3>1. n * BlockSize <= count * BlockSize
      BY <2>1, MulMono
    <3>2. n * BlockSize \in Nat /\ count * BlockSize \in Nat
      BY <2>1
    <3>3. QED
      BY <3>1, <3>2
  <2>3. \A b \in c .. (c + count - 1) : b \in c .. (i - 1) \/ b \in i .. (i + n - 1)
    BY <1>3 DEF Blocks
  <2>4. \A b \in c .. (c + count - 1) : IsFree(t, b)
    BY <1>3, <2>3 DEF FitsAt
  <2> HIDE DEF count
  <2>5. QED
    BY <2>1, <2>2, <2>4 DEF HasContiguous
<1>6. c \in Candidates(t, size) /\ Candidates(t, size) \in SUBSET Nat
  BY <1>4, <1>5 DEF Candidates, Blocks
<1>7. first = Min(Candidates(t, size))
  BY <1>6 DEF find_first_fit_start_block
<1>8. first \in Candidates(t, size) /\ first <= c
  BY <1>6, <1>7, MinOfNats
<1>9. QED
  BY <1>3, <1>8 DEF Candidates, Blocks

\* The table with one more chain.
WithChain(t, first, num) ==
  [b \in Blocks |->
     IF b \in first .. (first + num - 1)
     THEN IF b = first + num - 1 THEN {TAKEN} ELSE {TAKEN, HAS_NEXT}
     ELSE t[b]]

(* Marking a run inside the heap writes one chain and nothing else.        *)
LEMMA MarkRun ==
  ASSUME NEW t, NEW first \in Blocks, NEW num \in Nat, num > 0,
         first + num <= TotalEntries
  PROVE  MarkTaken(t, first, num) = WithChain(t, first, num)
<1> USE ConfigAssumption
<1>1. first \in 0 .. (SIZE_MOD - 1) /\ first + num - 1 \in 0 .. (SIZE_MOD - 2)
  BY SizeMod DEF Blocks
<1>2. size_t(first) = first /\ size_t(first + num - 1) = first + num - 1
  BY <1>1, SizeMod, ModSmall DEF size_t
<1>3. ~Endless(first, num)
  BY <1>1, <1>2, SizeMod DEF Endless
<1>4. Marked(first, num) = first .. (first + num - 1)
  BY <1>1, <1>2 DEF Marked, Blocks
<1>5. \A b \in Blocks : b \notin first .. (first + num - 1) => b # first
  BY DEF Blocks
<1>6. QED
  BY <1>3, <1>4, <1>5 DEF MarkTaken, WithChain

(* Marking after a failed search writes outside the table or not at all.   *)
LEMMA MarkNothing ==
  ASSUME NEW t \in Table, NEW num \in 0 .. (AddrBlocks - 1), ~Endless(-ENOMEM, num)
  PROVE  MarkTaken(t, -ENOMEM, num) = t
<1> USE ConfigAssumption
<1>1. size_t(-ENOMEM) = SIZE_MOD - ENOMEM
  <2>1. -ENOMEM \in (-SIZE_MOD) .. (-1)
    BY SizeMod
  <2>2. (-ENOMEM) % SIZE_MOD = -ENOMEM + SIZE_MOD
    BY <2>1, SizeMod, ModNegative
  <2>3. QED
    BY <2>2, SizeMod DEF size_t
<1>2. \A b \in Blocks : b \notin Marked(-ENOMEM, num)
  <2>1. CASE num <= ENOMEM
    BY <2>1 DEF Marked, Blocks
  <2>2. CASE num > ENOMEM
    <3>1. -ENOMEM + num - 1 \in 0 .. (SIZE_MOD - 1)
      BY <2>2, SizeMod
    <3>2. size_t(-ENOMEM + num - 1) = -ENOMEM + num - 1
      BY <3>1, SizeMod, ModSmall DEF size_t
    <3>3. ~(size_t(-ENOMEM) <= size_t(-ENOMEM + num - 1))
      BY <1>1, <3>2, SizeMod
    <3>4. QED
      BY <3>3 DEF Marked
  <2>3. QED
    BY <2>1, <2>2
<1>3. \A b \in Blocks : b # -ENOMEM
  BY DEF Blocks
<1>4. QED
  BY <1>2, <1>3 DEF MarkTaken, Table

----------------------------------------------------------------------------
(* Release.                                                                *)

(* The index of the address of a block is the block; that of a failed      *)
(* allocation and that of null lie beyond the table.                       *)
LEMMA IndexOfAddress ==
  /\ \A b \in Blocks : block_address_2_block_idx(block_idx_2_block_address(b)) = b
  /\ block_address_2_block_idx(block_idx_2_block_address(-ENOMEM)) >= TotalEntries
  /\ block_address_2_block_idx(nullptr) >= TotalEntries
<1> USE ConfigAssumption
<1>1. ASSUME NEW b \in Blocks
      PROVE  block_address_2_block_idx(block_idx_2_block_address(b)) = b
  <2>1. b \in 0 .. (AddrBlocks - 1) /\ HeapBlock + b \in 0 .. (AddrBlocks - 1)
    BY DEF Blocks
  <2>2. block_idx_2_block_address(b) = HeapBlock + b
    BY <2>1, ModSmall DEF block_idx_2_block_address
  <2>3. HeapBlock + b - HeapBlock = b
    BY <2>1
  <2>4. QED
    BY <2>1, <2>2, <2>3, ModSmall DEF block_address_2_block_idx
<1>2. block_address_2_block_idx(block_idx_2_block_address(-ENOMEM)) = AddrBlocks - ENOMEM
  <2>1. HeapBlock + (-ENOMEM) \in 0 .. (AddrBlocks - 1)
    OBVIOUS
  <2>2. block_idx_2_block_address(-ENOMEM) = HeapBlock + (-ENOMEM)
    BY <2>1, ModSmall DEF block_idx_2_block_address
  <2>3. HeapBlock + (-ENOMEM) - HeapBlock = -ENOMEM /\ -ENOMEM \in (-AddrBlocks) .. (-1)
    OBVIOUS
  <2>4. QED
    BY <2>2, <2>3, ModNegative DEF block_address_2_block_idx
<1>3. block_address_2_block_idx(nullptr) = AddrBlocks - HeapBlock
  <2>1. 0 - HeapBlock \in (-AddrBlocks) .. (-1)
    OBVIOUS
  <2>2. QED
    BY <2>1, ModNegative DEF block_address_2_block_idx, nullptr
<1>4. QED
  BY <1>1, <1>2, <1>3

(* Freeing an address beyond the table, or a block that is free, changes   *)
(* nothing.                                                                *)
LEMMA FreeNothing ==
  ASSUME NEW t \in Table, NEW addr,
         NEW k \in Int, k = block_address_2_block_idx(addr),
         k >= TotalEntries \/ (k \in Blocks /\ t[k] = FREE)
  PROVE  heap_free(t, addr) = t
<1> USE ConfigAssumption
<1>1. \A b \in Chain(t, k) : k \in Blocks /\ b = k
  <2>1. SUFFICES ASSUME NEW b \in Blocks, k <= b,
                        \A c \in k .. (b - 1) : HAS_NEXT \in t[c]
                 PROVE  k \in Blocks /\ b = k
    BY DEF Chain
  <2>2. k \in Blocks /\ t[k] = FREE
    BY <2>1 DEF Blocks
  <2>3. CASE k < b
    BY <2>1, <2>2, <2>3 DEF Blocks, FREE
  <2>4. QED
    BY <2>1, <2>2, <2>3 DEF Blocks
<1>2. \A b \in Blocks : b \in Chain(t, k) => t[b] = FREE
  BY <1>1 DEF Blocks
<1>3. QED
  BY <1>2 DEF heap_free, Table

----------------------------------------------------------------------------
(* The heap.                                                               *)

\* A taken block of the heap is not free, so the search passes over it.
LEMMA HeldNotFree ==
  ASSUME LiveChained, NEW a \in HeapLive, NEW b \in Extent(a)
  PROVE  ~IsFree(table, b)
BY DEF LiveChained, ChainEntry, IsFree, get_entry_type, FREE, TAKEN, HAS_NEXT

LEMMA InitIInv == Init => IInv
<1> SUFFICES ASSUME Init PROVE IInv
  OBVIOUS
<1>1. table \in Table
  BY SizesAssumption DEF Init, Table
<1>2. TypeOK
  BY <1>1 DEF Init, TypeOK, Tags
<1>3. QED
  BY <1>2 DEF Init, IInv, TableMirrorsLive, Running, LiveDisjoint, HeapLive

(* The configuration passes the checks of default_heap_create, so it       *)
(* clears the table.                                                       *)
LEMMA BootClears ==
  default_heap_create(HeapBlock * BlockSize, (HeapBlock + TotalEntries) * BlockSize)
    = [b \in Blocks |-> FREE]
<1> USE ConfigAssumption
<1>1. /\ validate_alignment(HeapBlock * BlockSize)
      /\ validate_alignment((HeapBlock + TotalEntries) * BlockSize)
  BY DivMul DEF validate_alignment
<1>2. validate_heap_table(HeapBlock * BlockSize, (HeapBlock + TotalEntries) * BlockSize)
  <2>1. (HeapBlock + TotalEntries) * BlockSize - HeapBlock * BlockSize
          = TotalEntries * BlockSize
    OBVIOUS
  <2>2. QED
    BY <2>1, DivMul DEF validate_heap_table
<1>3. QED
  BY <1>1, <1>2 DEF default_heap_create

LEMMA InitStep == IInv /\ kheap_init => IInv'
<1> SUFFICES ASSUME IInv, kheap_init PROVE IInv'
  OBVIOUS
<1>1. table' = [b \in Blocks |-> FREE] /\ live' = {} /\ booted'
  BY BootClears DEF kheap_init, IInv
<1>2. TypeOK'
  BY <1>1 DEF IInv, TypeOK, kheap_init, Table, Entry, FREE
<1>3. HeapLive' = {}
  BY <1>1 DEF HeapLive
<1>4. QED
  BY <1>1, <1>2, <1>3
     DEF IInv, TableMirrorsLive, LiveInHeap, LiveChained, RestFree, LiveDisjoint

(* An allocation that succeeded adds one chain of blocks that were free.   *)
LEMMA MallocStep ==
  ASSUME IInv, NEW size \in Sizes, kmalloc(size)
  PROVE  IInv'
<1> USE ConfigAssumption
<1> DEFINE num   == num_blocks(size)
           first == find_first_fit_start_block(table, align_to_upper(size))
           new   == [first |-> first, len |-> num, size |-> size, written |-> FALSE]
<1>1. size \in 0 .. (SIZE_MOD - 1)
  BY SizesAssumption
<1>2. num \in 0 .. (AddrBlocks - 1) /\ first \in Blocks \cup {-ENOMEM}
  BY <1>1, AlignedBlocks, SearchResult
<1>3. /\ Running
      /\ table' = MarkTaken(table, first, num)
      /\ contents' = ZeroBlocks(first, num)
      /\ hung' = Endless(first, num)
      /\ live' = IF Endless(first, num) THEN live ELSE live \cup {new}
      /\ booted' = booted
  BY DEF kmalloc
<1>4. new \in Allocation
  BY <1>2 DEF Allocation
<1>5. TypeOK'
  <2>1. table' \in Table
    BY <1>3 DEF IInv, TypeOK, MarkTaken, Table, Entry, TAKEN, HAS_NEXT, IS_FIRST
  <2>2. contents' \in [Blocks -> Tags]
    BY <1>3 DEF IInv, TypeOK, ZeroBlocks, Tags
  <2>3. hung' \in BOOLEAN
    BY <1>3 DEF Endless
  <2>4. live' \subseteq Allocation
    BY <1>3, <1>4 DEF IInv, TypeOK
  <2>5. QED
    BY <1>3, <2>1, <2>2, <2>3, <2>4 DEF IInv, TypeOK
<1> HIDE DEF num, first
<1>6. CASE Endless(first, num)
  BY <1>3, <1>5, <1>6
     DEF IInv, TableMirrorsLive, Running, LiveDisjoint, HeapLive, InHeap, Extent
<1>7. CASE ~Endless(first, num) /\ first = -ENOMEM
  <2>1. table' = table
    BY <1>2, <1>3, <1>7, MarkNothing DEF IInv, TypeOK
  <2>2. HeapLive' = HeapLive
    BY <1>3, <1>7 DEF HeapLive, InHeap
  <2>3. QED
    BY <1>3, <1>5, <2>1, <2>2
       DEF IInv, TableMirrorsLive, Running, LiveInHeap, LiveChained, RestFree,
           LiveDisjoint, ChainEntry, Extent
<1>8. CASE ~Endless(first, num) /\ first # -ENOMEM
  <2>1. /\ first \in Blocks
        /\ num > 0
        /\ first + num <= TotalEntries
        /\ \A b \in first .. (first + num - 1) : IsFree(table, b)
    BY <1>1, <1>8, FoundRun DEF num, first
  <2>2. HeapLive' = HeapLive \cup {new}
    BY <1>3, <1>8, <2>1 DEF HeapLive, InHeap, Blocks
  <2>3. Extent(new) = first .. (first + num - 1)
    BY DEF Extent
  <2>4. table' = [b \in Blocks |-> IF b \in Extent(new)
                                   THEN ChainEntry(new, b) ELSE table[b]]
    <3>1. table' = WithChain(table, first, num)
      BY <1>2, <1>3, <2>1, MarkRun
    <3>2. \A b \in Blocks : ChainEntry(new, b) =
            IF b = first + num - 1 THEN {TAKEN} ELSE {TAKEN, HAS_NEXT}
      BY DEF ChainEntry
    <3>3. QED
      BY <2>3, <3>1, <3>2 DEF WithChain
  <2>5. \A a \in HeapLive : Extent(a) \cap Extent(new) = {}
    BY <1>3, <2>1, <2>3, HeldNotFree DEF IInv, TableMirrorsLive
  <2> HIDE DEF new
  <2>6. LiveInHeap'
    <3>1. new.len > 0 /\ Extent(new) \subseteq Blocks
      BY <1>2, <2>1, <2>3 DEF Blocks, new
    <3>2. QED
      BY <1>3, <2>2, <3>1 DEF IInv, TableMirrorsLive, LiveInHeap, Extent
  <2>7. LiveChained'
    BY <1>3, <2>2, <2>4, <2>5, <2>6
       DEF IInv, TableMirrorsLive, LiveInHeap, LiveChained, ChainEntry, Extent
  <2>8. RestFree'
    BY <1>3, <2>2, <2>4 DEF IInv, TableMirrorsLive, RestFree, Extent
  <2>9. LiveDisjoint'
    BY <2>2, <2>5 DEF IInv, LiveDisjoint, Extent
  <2>10. QED
    BY <1>3, <1>5, <2>6, <2>7, <2>8, <2>9 DEF IInv, TableMirrorsLive, Running
<1>9. QED
  BY <1>6, <1>7, <1>8

(* A holder's write changes only the mark on its own record.               *)
LEMMA WriteStep ==
  ASSUME IInv, NEW a \in live, Write(a)
  PROVE  IInv'
<1> DEFINE aw == [a EXCEPT !.written = TRUE]
<1>1. /\ a \in Allocation
      /\ Running /\ booted' = booted /\ hung' = hung /\ table' = table
      /\ live' = (live \ {a}) \cup {aw}
  BY DEF Write, IInv, TypeOK
<1>2. /\ aw \in Allocation
      /\ aw.first = a.first /\ aw.len = a.len
  BY <1>1 DEF Allocation
<1>3. TypeOK'
  <2>1. Tag(a) \in Tags
    BY <1>1 DEF Tag, Tags, Allocation
  <2>2. contents' \in [Blocks -> Tags]
    BY <2>1 DEF Write, IInv, TypeOK
  <2>3. QED
    BY <1>1, <1>2, <2>2 DEF IInv, TypeOK
<1>4. Extent(aw) = Extent(a) /\ (InHeap(aw) <=> InHeap(a))
  BY <1>2 DEF Extent, InHeap
<1>5. \A b : ChainEntry(aw, b) = ChainEntry(a, b)
  BY <1>2 DEF ChainEntry
<1> HIDE DEF aw
<1>6. HeapLive' = IF InHeap(a) THEN (HeapLive \ {a}) \cup {aw} ELSE HeapLive
  BY <1>1, <1>4 DEF HeapLive, InHeap
<1>7. InHeap(a) => a \in HeapLive
  BY DEF HeapLive
<1>8. LiveInHeap'
  BY <1>1, <1>2, <1>4, <1>6, <1>7 DEF IInv, TableMirrorsLive, LiveInHeap, Extent
<1>9. LiveChained'
  BY <1>1, <1>4, <1>5, <1>6, <1>7
     DEF IInv, TableMirrorsLive, LiveChained, Extent, ChainEntry
<1>10. RestFree'
  BY <1>1, <1>4, <1>6, <1>7 DEF IInv, TableMirrorsLive, RestFree, Extent
<1>11. LiveDisjoint'
  BY <1>4, <1>6, <1>7 DEF IInv, LiveDisjoint, Extent
<1>12. QED
  BY <1>1, <1>3, <1>8, <1>9, <1>10, <1>11 DEF IInv, TableMirrorsLive, Running

(* A free that leaves the table alone leaves the invariant.                *)
LEMMA NoFreeStep ==
  ASSUME IInv, Running, table' = table, UNCHANGED <<booted, contents, hung>>,
         live' \subseteq live, HeapLive' = HeapLive
  PROVE  IInv'
BY DEF IInv, TypeOK, TableMirrorsLive, Running, LiveInHeap, LiveChained, RestFree,
       LiveDisjoint, ChainEntry, Extent

(* The walk of heap_free clears exactly the blocks of the allocation.      *)
LEMMA ChainIsExtent ==
  ASSUME IInv, Running, NEW a \in HeapLive
  PROVE  Chain(table, a.first) = Extent(a)
<1> USE ConfigAssumption
<1>1. /\ a.first \in Blocks /\ a.len \in Nat /\ a.len > 0
      /\ Extent(a) \subseteq Blocks
      /\ \A b \in Extent(a) : table[b] = ChainEntry(a, b)
  BY DEF IInv, TypeOK, TableMirrorsLive, LiveInHeap, LiveChained, HeapLive, InHeap,
         Allocation
<1> DEFINE last == a.first + a.len - 1
<1>2. last \in Extent(a) /\ HAS_NEXT \notin table[last]
  BY <1>1 DEF Extent, ChainEntry, Blocks, TAKEN, HAS_NEXT
<1>3. ASSUME NEW b \in Extent(a) PROVE b \in Chain(table, a.first)
  <2>1. \A c \in a.first .. (b - 1) : c \in Extent(a) /\ c # last
    BY <1>1, <1>3 DEF Extent, Blocks
  <2>2. \A c \in a.first .. (b - 1) : HAS_NEXT \in table[c]
    BY <1>1, <2>1 DEF ChainEntry
  <2>3. QED
    BY <1>1, <1>3, <2>2 DEF Chain, Extent
<1>4. ASSUME NEW b \in Chain(table, a.first) PROVE b \in Extent(a)
  <2>1. b \in Blocks /\ a.first <= b
        /\ \A c \in a.first .. (b - 1) : HAS_NEXT \in table[c]
    BY <1>4 DEF Chain
  <2>2. ~(last <= b - 1)
    BY <1>1, <1>2, <2>1 DEF Blocks
  <2>3. QED
    BY <1>1, <2>1, <2>2 DEF Extent, Blocks
<1>5. QED
  BY <1>3, <1>4

(* Freeing what is held removes its chain and no other.                    *)
LEMMA FreeHeldStep ==
  ASSUME IInv, NEW a \in live, FreeHeld(a)
  PROVE  IInv'
<1> USE ConfigAssumption
<1>1. /\ Running /\ UNCHANGED <<booted, contents, hung>>
      /\ table' = heap_free(table, block_idx_2_block_address(a.first))
      /\ live' = live \ {a}
      /\ table \in Table /\ a \in Allocation
  BY DEF FreeHeld, kfree, IInv, TypeOK
<1>2. CASE ~InHeap(a)
  <2>1. a.first = -ENOMEM
    BY <1>1, <1>2 DEF Allocation, InHeap, Blocks
  <2>2. block_address_2_block_idx(block_idx_2_block_address(a.first)) \in Int
    BY <2>1 DEF block_address_2_block_idx, block_idx_2_block_address
  <2>3. table' = table
    BY <1>1, <2>1, <2>2, IndexOfAddress, FreeNothing
  <2>4. HeapLive' = HeapLive
    BY <1>1, <1>2 DEF HeapLive, InHeap
  <2>5. QED
    BY <1>1, <2>3, <2>4, NoFreeStep
<1>3. CASE InHeap(a)
  <2>1. a \in HeapLive /\ HeapLive' = HeapLive \ {a}
    BY <1>1, <1>3 DEF HeapLive, InHeap
  <2>2. a.first \in Blocks
    BY <1>1, <1>3 DEF Allocation, InHeap, Blocks
  <2>3. table' = [b \in Blocks |-> IF b \in Extent(a) THEN FREE ELSE table[b]]
    BY <1>1, <2>1, <2>2, IndexOfAddress, ChainIsExtent DEF heap_free
  <2>4. TypeOK'
    <3>1. table' \in Table
      BY <1>1, <2>3 DEF Table, Entry, FREE
    <3>2. QED
      BY <1>1, <3>1 DEF IInv, TypeOK
  <2>5. \A c \in HeapLive' : c \in HeapLive /\ Extent(c) \cap Extent(a) = {}
    BY <2>1 DEF IInv, LiveDisjoint
  <2>6. LiveInHeap'
    BY <1>1, <2>5 DEF IInv, TableMirrorsLive, LiveInHeap, Extent
  <2>7. LiveChained'
    BY <1>1, <2>3, <2>5, <2>6
       DEF IInv, TableMirrorsLive, LiveInHeap, LiveChained, ChainEntry, Extent
  <2>8. RestFree'
    BY <1>1, <2>1, <2>3 DEF IInv, TableMirrorsLive, RestFree, Extent
  <2>9. LiveDisjoint'
    BY <2>5 DEF IInv, LiveDisjoint, Extent
  <2>10. QED
    BY <1>1, <2>4, <2>6, <2>7, <2>8, <2>9 DEF IInv, TableMirrorsLive, Running
<1>4. QED
  BY <1>2, <1>3

LEMMA FreeNullStep == IInv /\ FreeNull => IInv'
<1> SUFFICES ASSUME IInv, FreeNull PROVE IInv'
  OBVIOUS
<1>1. block_address_2_block_idx(nullptr) \in Int
  BY ConfigAssumption DEF block_address_2_block_idx, nullptr
<1>2. table' = table
  BY <1>1, IndexOfAddress, FreeNothing DEF FreeNull, kfree, IInv, TypeOK
<1>3. HeapLive' = HeapLive
  BY DEF FreeNull, HeapLive, InHeap
<1>4. QED
  BY <1>2, <1>3, NoFreeStep DEF FreeNull, kfree

LEMMA FreeAgainStep ==
  ASSUME IInv, NEW b \in Blocks, FreeAgain(b)
  PROVE  IInv'
<1>1. block_address_2_block_idx(block_idx_2_block_address(b)) = b
  BY IndexOfAddress
<1>2. b \in Int
  BY ConfigAssumption DEF Blocks
<1>3. table' = table
  BY <1>1, <1>2, FreeNothing DEF FreeAgain, kfree, IInv, TypeOK
<1>4. HeapLive' = HeapLive
  BY DEF FreeAgain, HeapLive, InHeap
<1>5. QED
  BY <1>3, <1>4, NoFreeStep DEF FreeAgain, kfree

LEMMA NextIInv == IInv /\ [Next]_vars => IInv'
<1> SUFFICES ASSUME IInv, [Next]_vars PROVE IInv'
  OBVIOUS
<1>1. CASE kheap_init
  BY <1>1, InitStep
<1>2. ASSUME NEW size \in Sizes, kmalloc(size) \/ kzalloc(size) PROVE IInv'
  BY <1>2, MallocStep DEF kzalloc
<1>3. ASSUME NEW a \in live, Write(a) \/ FreeHeld(a) PROVE IInv'
  BY <1>3, WriteStep, FreeHeldStep
<1>4. CASE FreeNull
  BY <1>4, FreeNullStep
<1>5. ASSUME NEW b \in Blocks, FreeAgain(b) PROVE IInv'
  BY <1>5, FreeAgainStep
<1>6. CASE UNCHANGED vars
  BY <1>6 DEF vars, IInv, TypeOK, TableMirrorsLive, Running, LiveInHeap, LiveChained,
              RestFree, LiveDisjoint, HeapLive, InHeap, ChainEntry, Extent
<1>7. QED
  BY <1>1, <1>2, <1>3, <1>4, <1>5, <1>6 DEF Next

(* The inductive invariant holds in every reachable state.                 *)
THEOREM HeapInvariant == Spec => []IInv
BY InitIInv, NextIInv, PTL DEF Spec

(* The types of the heap's state.                                          *)
THEOREM HeapTypes == Spec => []TypeOK
<1>1. IInv => TypeOK
  BY DEF IInv
<1>2. QED
  BY HeapInvariant, <1>1, PTL

(* The table describes exactly what callers hold, whatever heap_malloc and *)
(* heap_free did before.                                                   *)
THEOREM HeapTableMirrorsLive == Spec => []TableMirrorsLive
<1>1. IInv => TableMirrorsLive
  BY DEF IInv
<1>2. QED
  BY HeapInvariant, <1>1, PTL

(* heap_malloc never hands out a block that somebody holds.                *)
THEOREM HeapLiveDisjoint == Spec => []LiveDisjoint
<1>1. IInv => LiveDisjoint
  BY DEF IInv
<1>2. QED
  BY HeapInvariant, <1>1, PTL

----------------------------------------------------------------------------
(* What one call does, and what it leaves alone.                           *)

\* The allocation that a request of size bytes is given.
NewAllocation(size) ==
  [first   |-> find_first_fit_start_block(table, align_to_upper(size)),
   len     |-> num_blocks(size),
   size    |-> size,
   written |-> FALSE]

(* The ways in which heap_malloc goes on after its search: it hangs, it    *)
(* hands out what lies below the heap, or a run of free blocks.  It zeroes *)
(* blocks of the heap that somebody may hold only in the second case, and  *)
(* only for more than ENOMEM of them.                                      *)
LEMMA MallocCases ==
  ASSUME IInv, NEW size \in Sizes, kmalloc(size),
         NEW a, a = NewAllocation(size)
  PROVE  /\ a \in Allocation
         /\ booted' = booted /\ Running
         /\ \/ /\ hung'
               /\ live' = live
               /\ \A b \in Blocks : contents'[b] = contents[b]
            \/ /\ ~hung'
               /\ a.first = -ENOMEM /\ a.len > 0
               /\ live' = live \cup {a}
               /\ table' = table
               /\ a.len <= ENOMEM => \A b \in Blocks : contents'[b] = contents[b]
               /\ \A b \in Extent(a) \cap Blocks : contents'[b] = Zero
            \/ /\ ~hung'
               /\ a.first \in Blocks /\ a.len > 0
               /\ FitsAt(table, a.first, a.len)
               /\ live' = live \cup {a}
               /\ \A b \in Blocks :
                    contents'[b] = IF b \in Extent(a) THEN Zero ELSE contents[b]
<1> USE ConfigAssumption
<1> DEFINE num   == num_blocks(size)
           first == find_first_fit_start_block(table, align_to_upper(size))
<1>1. size \in 0 .. (SIZE_MOD - 1)
  BY SizesAssumption
<1>2. num \in 0 .. (AddrBlocks - 1) /\ first \in Blocks \cup {-ENOMEM}
  BY <1>1, AlignedBlocks, SearchResult
<1>3. /\ Running
      /\ table' = MarkTaken(table, first, num)
      /\ contents' = ZeroBlocks(first, num)
      /\ hung' = Endless(first, num)
      /\ live' = IF Endless(first, num) THEN live ELSE live \cup {a}
      /\ booted' = booted
  BY DEF kmalloc, NewAllocation
<1>4. /\ a \in Allocation /\ a.first = first /\ a.len = num
      /\ Extent(a) = first .. (first + num - 1)
  BY <1>2 DEF Allocation, NewAllocation, Extent
<1>5. \A b \in Blocks :
        contents'[b] = IF b \in first .. (first + num - 1) THEN Zero ELSE contents[b]
  BY <1>3 DEF ZeroBlocks
<1>6. CASE Endless(first, num)
  <2>1. first + num <= 0
    BY <1>1, <1>6, EndlessBelowHeap
  <2> HIDE DEF num, first
  <2>2. \A b \in Blocks : b \notin first .. (first + num - 1)
    BY <1>2, <2>1 DEF Blocks
  <2>3. QED
    BY <1>3, <1>4, <1>5, <1>6, <2>2
<1>7. CASE ~Endless(first, num)
  <2>1. /\ num > 0
        /\ \/ first = -ENOMEM
           \/ /\ first \in Blocks
              /\ first + num <= TotalEntries
              /\ \A b \in first .. (first + num - 1) : IsFree(table, b)
    BY <1>1, <1>7, FoundRun
  <2> HIDE DEF num, first
  <2>2. CASE first = -ENOMEM
    <3>1. table' = table
      BY <1>2, <1>3, <1>7, <2>2, MarkNothing DEF IInv, TypeOK
    <3>2. num <= ENOMEM => \A b \in Blocks : b \notin first .. (first + num - 1)
      BY <1>2, <2>2 DEF Blocks
    <3>3. QED
      BY <1>3, <1>4, <1>5, <1>7, <2>1, <2>2, <3>1, <3>2
  <2>3. CASE first \in Blocks /\ FitsAt(table, first, num)
    BY <1>3, <1>4, <1>5, <1>7, <2>1, <2>3
  <2>4. QED
    BY <2>1, <2>2, <2>3 DEF FitsAt
<1>8. QED
  BY <1>6, <1>7

(* What the steps other than an allocation and a write leave alone.        *)
LEMMA OtherSteps ==
  ASSUME IInv, [Next]_vars,
         \A size \in Sizes : ~kmalloc(size),
         \A a \in live : ~Write(a)
  PROVE  live' \subseteq live /\ contents' = contents
BY DEF Next, vars, kheap_init, kzalloc, FreeHeld, FreeNull, FreeAgain, kfree

(* A caller never holds fewer bytes than it asked for: the request whose   *)
(* rounded size wraps to 0 is one that heap_malloc does not return from.   *)
THEOREM HeapRoomForRequest == Spec => []RoomForRequest
<1>1. Init => RoomForRequest
  BY DEF Init, RoomForRequest
<1>2. IInv /\ RoomForRequest /\ [Next]_vars => RoomForRequest'
  <2> SUFFICES ASSUME IInv, RoomForRequest, [Next]_vars PROVE RoomForRequest'
    OBVIOUS
  <2>1. ASSUME NEW size \in Sizes, kmalloc(size) PROVE RoomForRequest'
    <3> DEFINE a == NewAllocation(size)
    <3>1. live' = live \/ (live' = live \cup {a} /\ a.len > 0)
      BY <2>1, MallocCases
    <3>2. a.len = num_blocks(size) /\ a.size = size
      BY DEF NewAllocation
    <3>3. a.len > 0 => a.len * BlockSize >= a.size
      <4>1. size \in 0 .. (SIZE_MOD - 1) /\ SIZE_MOD \in Nat
        BY <2>1, SizesAssumption, SizeMod
      <4>2. num_blocks(size) \in Nat /\ BlockSize \in Nat
        BY <4>1, AlignedBlocks, ConfigAssumption
      <4>3. num_blocks(size) > 0 => size < num_blocks(size) * BlockSize
        BY <4>1, AlignedBlocks
      <4>4. QED
        BY <3>2, <4>1, <4>2, <4>3
    <3> HIDE DEF a
    <3>4. QED
      BY <3>1, <3>3 DEF RoomForRequest
  <2>2. ASSUME NEW a \in live, Write(a) PROVE RoomForRequest'
    <3> DEFINE aw == [a EXCEPT !.written = TRUE]
    <3>1. a \in Allocation /\ live' = (live \ {a}) \cup {aw}
      BY <2>2 DEF Write, IInv, TypeOK
    <3>2. aw.len = a.len /\ aw.size = a.size
      BY <3>1 DEF Allocation
    <3> HIDE DEF aw
    <3>3. QED
      BY <3>1, <3>2 DEF RoomForRequest
  <2>3. QED
    BY <2>1, <2>2, OtherSteps DEF RoomForRequest
<1>3. QED
  BY <1>1, <1>2, HeapInvariant, PTL DEF Spec

(* heap_malloc is first fit: of all places in the table where a request    *)
(* fits it takes the lowest, and it fails only where there is none.        *)
THEOREM HeapFirstFitLowest == Spec => FirstFitLowest
<1> DEFINE Lowest(a) ==
             /\ InHeap(a) => FitsAt(table, a.first, a.len)
             /\ \A i \in Blocks :
                  (InHeap(a) => i < a.first) => ~FitsAt(table, i, a.len)
<1>1. ASSUME IInv, [Next]_vars, NEW a \in live' \ live, ~a.written
      PROVE  Lowest(a)
  <2> USE ConfigAssumption
  <2>1. ASSUME NEW size \in Sizes, kmalloc(size) PROVE Lowest(a)
    <3>1. a = NewAllocation(size)
      BY <1>1, <2>1, MallocCases
    <3>2. /\ a.len > 0 /\ a.len \in Nat
          /\ a.first = -ENOMEM \/ (a.first \in Blocks /\ FitsAt(table, a.first, a.len))
      BY <1>1, <2>1, <3>1, MallocCases DEF Allocation
    <3>3. a.first = find_first_fit_start_block(table, a.len * BlockSize)
      <4>1. size \in 0 .. (SIZE_MOD - 1)
        BY SizesAssumption
      <4>2. QED
        BY <3>1, <4>1, AlignedBlocks DEF NewAllocation
    <3>4. \A i \in Blocks : FitsAt(table, i, a.len) => a.first \in Blocks /\ a.first <= i
      BY <3>2, <3>3, SearchMissesNothing
    <3>5. InHeap(a) <=> a.first \in Blocks
      BY <3>2 DEF InHeap, Blocks
    <3>6. QED
      BY <3>2, <3>4, <3>5 DEF Blocks
  <2>2. ASSUME NEW c \in live, Write(c) PROVE FALSE
    <3>1. c \in Allocation /\ live' = (live \ {c}) \cup {[c EXCEPT !.written = TRUE]}
      BY <1>1, <2>2 DEF Write, IInv, TypeOK
    <3>2. a = [c EXCEPT !.written = TRUE]
      BY <1>1, <3>1
    <3>3. QED
      BY <1>1, <3>1, <3>2 DEF Allocation
  <2>3. QED
    BY <1>1, <2>1, <2>2, OtherSteps
<1>2. IInv /\ [Next]_vars => [\A a \in live' \ live : ~a.written => Lowest(a)]_vars
  BY <1>1
<1>3. QED
  BY <1>2, HeapInvariant, PTL DEF Spec, FirstFitLowest

\* An allocation below the heap reaches none of its blocks unless it overruns.
LEMMA BelowHeap ==
  ASSUME NEW a \in Allocation, ~InHeap(a), ~Overruns(a)
  PROVE  Extent(a) \cap Blocks = {}
<1>1. a.first = -ENOMEM /\ a.len \in Nat /\ a.len <= ENOMEM
  BY ConfigAssumption DEF Allocation, InHeap, Overruns, Blocks
<1>2. QED
  BY <1>1, ConfigAssumption DEF Extent, Blocks

\* What is held in the heap occupies blocks, and shares none.
LEMMA HeldExtents ==
  ASSUME IInv, Running, NEW a \in HeapLive
  PROVE  /\ a \in Allocation /\ a.first \in Extent(a) /\ a.first \in Blocks
         /\ a.len \in Nat /\ a.len > 0 /\ Extent(a) \subseteq Blocks
         /\ \A c \in HeapLive : a # c => Extent(a) \cap Extent(c) = {}
<1>1. a \in Allocation /\ a.len > 0 /\ Extent(a) \subseteq Blocks /\ InHeap(a)
  BY DEF IInv, TypeOK, TableMirrorsLive, LiveInHeap, HeapLive
<1>2. a.first \in Extent(a)
  BY <1>1, ConfigAssumption DEF Allocation, Extent, Blocks
<1>3. QED
  BY <1>1, <1>2 DEF IInv, LiveDisjoint, Allocation

(* No call of the heap touches the data of what somebody holds, and a new  *)
(* allocation reads as zeroes; only a failed request of more than ENOMEM   *)
(* blocks is excepted.                                                     *)
THEOREM HeapLiveDataIntact == Spec => LiveDataIntact
<1> DEFINE Kept  == \A a \in HeapLive \cap live' : \A b \in Extent(a) :
                      contents'[b] = contents[b] \/ (a.written /\ contents'[b] = Tag(a))
           Fresh == \A a \in live' \ live : \A b \in Extent(a) \cap Blocks :
                      contents'[b] = IF a.written THEN Tag(a) ELSE Zero
<1>1. ASSUME IInv, [Next]_vars, \A c \in live' : ~Overruns(c)
      PROVE  Kept /\ Fresh
  <2>1. ASSUME NEW size \in Sizes, kmalloc(size) PROVE Kept /\ Fresh
    <3> DEFINE n == NewAllocation(size)
    <3>1. n \in Allocation /\ Running /\ ~n.written
      BY <1>1, <2>1, MallocCases DEF NewAllocation
    <3>2. CASE hung'
      <4>1. live' = live /\ \A b \in Blocks : contents'[b] = contents[b]
        BY <1>1, <2>1, <3>2, MallocCases
      <4>2. QED
        BY <1>1, <3>1, <4>1, HeldExtents
    <3>3. CASE ~hung' /\ n.first = -ENOMEM
      <4>1. /\ live' = live \cup {n}
            /\ n.len <= ENOMEM => \A b \in Blocks : contents'[b] = contents[b]
            /\ \A b \in Extent(n) \cap Blocks : contents'[b] = Zero
        BY <1>1, <2>1, <3>3, MallocCases, ConfigAssumption DEF Blocks
      <4>2. n.len <= ENOMEM
        BY <1>1, <3>1, <3>3, <4>1, ConfigAssumption DEF Overruns, InHeap, Allocation
      <4> HIDE DEF n
      <4>3. QED
        BY <1>1, <3>1, <4>1, <4>2, HeldExtents
    <3>4. CASE ~hung' /\ n.first # -ENOMEM
      <4>1. /\ live' = live \cup {n}
            /\ FitsAt(table, n.first, n.len)
            /\ \A b \in Blocks : contents'[b] = IF b \in Extent(n) THEN Zero ELSE contents[b]
        BY <1>1, <2>1, <3>4, MallocCases
      <4> HIDE DEF n
      <4>2. \A b \in Extent(n) : IsFree(table, b)
        BY <4>1 DEF FitsAt, Extent
      <4>3. \A a \in HeapLive : Extent(a) \cap Extent(n) = {}
        BY <1>1, <3>1, <4>2, HeldNotFree DEF IInv, TableMirrorsLive
      <4>4. QED
        BY <1>1, <3>1, <4>1, <4>3, HeldExtents
    <3>5. QED
      BY <3>2, <3>3, <3>4
  <2>2. ASSUME NEW w \in live, Write(w) PROVE Kept /\ Fresh
    <3> DEFINE ww == [w EXCEPT !.written = TRUE]
    <3>1. /\ w \in Allocation /\ Running
          /\ live' = (live \ {w}) \cup {ww}
          /\ \A b \in Blocks : contents'[b] = IF b \in Extent(w) THEN Tag(w) ELSE contents[b]
      BY <1>1, <2>2 DEF Write, IInv, TypeOK
    <3>2. /\ ww \in Allocation /\ ww.written /\ ww.first = w.first /\ ww.len = w.len
          /\ Extent(ww) = Extent(w) /\ Tag(ww) = Tag(w) /\ (InHeap(ww) <=> InHeap(w))
      BY <3>1 DEF Allocation, Extent, Tag, InHeap
    <3>3. ~Overruns(w)
      BY <1>1, <3>1, <3>2 DEF Overruns
    <3> HIDE DEF ww
    <3>4. ASSUME NEW a \in HeapLive \cap live'
          PROVE  a = ww \/ (Extent(a) \cap Extent(w)) \cap Blocks = {}
      <4>1. CASE InHeap(w)
        <5>1. w \in HeapLive
          BY <4>1 DEF HeapLive
        <5>2. a # w \/ a = ww
          BY <3>1, <3>4
        <5>3. QED
          BY <1>1, <3>1, <3>4, <5>1, <5>2, HeldExtents
      <4>2. CASE ~InHeap(w)
        BY <3>1, <3>3, <4>2, BelowHeap
      <4>3. QED
        BY <4>1, <4>2
    <3>5. Kept
      BY <1>1, <3>1, <3>2, <3>4, HeldExtents
    <3>6. Fresh
      BY <3>1, <3>2
    <3>7. QED
      BY <3>5, <3>6
  <2>3. QED
    BY <1>1, <2>1, <2>2, OtherSteps
<1>2. IInv /\ [Next]_vars => [(\A c \in live' : ~Overruns(c)) => Kept /\ Fresh]_vars
  BY <1>1
<1>3. QED
  BY <1>2, HeapInvariant, PTL DEF Spec, LiveDataIntact

----------------------------------------------------------------------------
(* The heap implements HeapAbs.                                            *)

\* The run of blocks of an allocation, and the runs that callers hold.
RunOf(a) == [first |-> a.first, len |-> a.len]

HeldRuns == {RunOf(a) : a \in HeapLive}

\* A run starts in the table exactly at the first block of an allocation.
LEMMA StartsAreFirsts ==
  ASSUME IInv, Running
  PROVE  RunStarts = {a.first : a \in HeapLive}
<1> USE ConfigAssumption
<1>1. /\ \A a \in HeapLive : \A b \in Extent(a) : table[b] = ChainEntry(a, b)
      /\ \A b \in Blocks : table[b] # FREE => \E a \in HeapLive : b \in Extent(a)
  BY DEF IInv, TableMirrorsLive, LiveChained, RestFree
<1>2. ASSUME NEW s \in RunStarts PROVE \E a \in HeapLive : s = a.first
  <2>1. s \in Blocks /\ TAKEN \in table[s]
        /\ ~(s - 1 \in Blocks /\ HAS_NEXT \in table[s - 1])
    BY <1>2 DEF RunStarts
  <2>2. PICK a \in HeapLive : s \in Extent(a)
    BY <1>1, <2>1 DEF FREE
  <2>3. a.first \in Blocks /\ a.len \in Nat /\ Extent(a) \subseteq Blocks
    BY HeldExtents
  <2>4. CASE s # a.first
    <3>1. s - 1 \in Extent(a) /\ s - 1 # a.first + a.len - 1
      BY <2>1, <2>2, <2>3, <2>4 DEF Extent, Blocks
    <3>2. HAS_NEXT \in table[s - 1]
      BY <1>1, <3>1 DEF ChainEntry
    <3>3. QED
      BY <2>1, <2>3, <3>1, <3>2
  <2>5. QED
    BY <2>4
<1>3. ASSUME NEW a \in HeapLive PROVE a.first \in RunStarts
  <2>1. a.first \in Extent(a) /\ a.first \in Blocks
    BY HeldExtents
  <2>2. TAKEN \in table[a.first]
    BY <1>1, <2>1 DEF ChainEntry
  <2>3. ASSUME a.first - 1 \in Blocks, HAS_NEXT \in table[a.first - 1] PROVE FALSE
    <3>1. PICK c \in HeapLive : a.first - 1 \in Extent(c)
      BY <1>1, <2>3 DEF FREE
    <3>2. a.first - 1 # c.first + c.len - 1
      BY <1>1, <2>3, <3>1 DEF ChainEntry, TAKEN, HAS_NEXT
    <3>3. c.first \in Blocks /\ c.len \in Nat
      BY HeldExtents
    <3>4. a.first \in Extent(c)
      BY <2>1, <3>1, <3>2, <3>3 DEF Extent, Blocks
    <3>5. a = c
      BY <2>1, <3>4, HeldExtents
    <3>6. QED
      BY <2>1, <3>1, <3>5 DEF Extent, Blocks
  <2>4. QED
    BY <2>1, <2>2, <2>3 DEF RunStarts
<1>4. QED
  BY <1>2, <1>3

(* The table alone shows the runs that callers hold.                       *)
LEMMA TableShowsHeld == IInv /\ Running => TableRuns = HeldRuns
<1> SUFFICES ASSUME IInv, Running PROVE TableRuns = HeldRuns
  OBVIOUS
<1>1. ASSUME NEW a \in HeapLive PROVE Cardinality(Chain(table, a.first)) = a.len
  <2>1. Chain(table, a.first) = a.first .. (a.first + a.len - 1)
    BY ChainIsExtent DEF Extent
  <2>2. a.first \in Int /\ a.len \in Nat /\ a.len > 0
    BY HeldExtents, ConfigAssumption DEF Blocks
  <2> DEFINE lo == a.first
             hi == a.first + a.len - 1
  <2>3. lo \in Int /\ hi \in Int /\ ~(lo > hi) /\ hi - lo + 1 = a.len
    BY <2>2
  <2>4. Chain(table, a.first) = lo .. hi
    BY <2>1
  <2> HIDE DEF lo, hi
  <2>5. Cardinality(lo .. hi) = IF lo > hi THEN 0 ELSE hi - lo + 1
    BY <2>3, FS_Interval
  <2>6. QED
    BY <2>3, <2>4, <2>5
<1>2. TableRuns = {[first |-> a.first, len |-> Cardinality(Chain(table, a.first))] : a \in HeapLive}
  BY StartsAreFirsts DEF TableRuns
<1>3. QED
  BY <1>1, <1>2 DEF HeldRuns, RunOf

\* Two allocations in the heap have different runs.
LEMMA RunsDiffer ==
  ASSUME IInv, Running, NEW a \in HeapLive, NEW c \in HeapLive, RunOf(a) = RunOf(c)
  PROVE  a = c
<1>1. a.first \in Extent(a) /\ c.first \in Extent(c)
  BY HeldExtents
<1>2. a.first = c.first
  BY DEF RunOf
<1>3. QED
  BY <1>1, <1>2, HeldExtents

\* The abstract state of the heap.
AbsHeld == IF Running THEN HeldRuns ELSE {}

LEMMA AbsView == IInv => (IF Running THEN TableRuns ELSE {}) = AbsHeld
BY TableShowsHeld DEF AbsHeld

(* A call of kmalloc halts the abstract heap, changes nothing, or adds a   *)
(* run that is disjoint from all runs in use.                              *)
LEMMA MallocRefines ==
  ASSUME IInv, IInv', NEW size \in Sizes, kmalloc(size)
  PROVE  \/ ~hung /\ hung' = TRUE /\ AbsHeld' = {}
         \/ hung' = hung /\ AbsHeld' = AbsHeld
         \/ /\ ~hung /\ hung' = hung
            /\ \E r \in Abs!Runs :
                 /\ \A h \in AbsHeld : Abs!BlocksOf(h) \cap Abs!BlocksOf(r) = {}
                 /\ AbsHeld' = AbsHeld \cup {r}
<1> USE ConfigAssumption
<1> DEFINE n == NewAllocation(size)
<1>1. n \in Allocation /\ booted' = booted /\ Running
  BY MallocCases
<1>2. hung = FALSE /\ hung' \in BOOLEAN
  BY <1>1 DEF Running, IInv, TypeOK
<1>3. CASE hung'
  BY <1>2, <1>3 DEF AbsHeld, Running
<1>4. CASE ~hung' /\ n.first = -ENOMEM
  <2>1. live' = live \cup {n} /\ ~InHeap(n)
    BY <1>4, MallocCases DEF Blocks, InHeap
  <2>2. HeapLive' = HeapLive
    BY <2>1 DEF HeapLive, InHeap
  <2>3. QED
    BY <1>1, <1>2, <1>4, <2>2 DEF AbsHeld, HeldRuns, Running
<1>5. CASE ~hung' /\ n.first # -ENOMEM
  <2>1. /\ live' = live \cup {n} /\ n.first \in Blocks /\ n.len > 0
        /\ FitsAt(table, n.first, n.len)
    BY <1>5, MallocCases
  <2> HIDE DEF n
  <2>2. HeapLive' = HeapLive \cup {n}
    BY <2>1 DEF HeapLive, InHeap, Blocks
  <2>3. HeldRuns' = HeldRuns \cup {RunOf(n)}
    BY <2>2 DEF HeldRuns
  <2>4. RunOf(n) \in Abs!Runs
    <3>1. n.len \in 1 .. TotalEntries /\ n.first + n.len <= TotalEntries
      BY <1>1, <2>1 DEF Allocation, FitsAt, Blocks
    <3>2. QED
      BY <2>1, <3>1 DEF Abs!Runs, RunOf, Blocks
  <2>5. \A a : Abs!BlocksOf(RunOf(a)) = Extent(a)
    BY DEF Abs!BlocksOf, RunOf, Extent
  <2>6. \A a \in HeapLive : Extent(a) \cap Extent(n) = {}
    <3>1. \A b \in Extent(n) : IsFree(table, b)
      BY <2>1 DEF FitsAt, Extent
    <3>2. QED
      BY <1>1, <3>1, HeldNotFree DEF IInv, TableMirrorsLive
  <2>7. \A h \in HeldRuns : Abs!BlocksOf(h) \cap Abs!BlocksOf(RunOf(n)) = {}
    BY <2>5, <2>6 DEF HeldRuns
  <2>8. QED
    BY <1>1, <1>2, <1>5, <2>3, <2>4, <2>7 DEF AbsHeld, Running
<1>6. QED
  BY <1>3, <1>4, <1>5

(* A call of kfree with a pointer into the heap removes its run.           *)
LEMMA FreeHeldRefines ==
  ASSUME IInv, NEW a \in live, FreeHeld(a)
  PROVE  /\ ~hung /\ hung' = hung
         /\ \/ AbsHeld' = AbsHeld
            \/ \E r \in AbsHeld : AbsHeld' = AbsHeld \ {r}
<1>1. Running /\ booted' = booted /\ hung' = hung /\ live' = live \ {a}
  BY DEF FreeHeld, kfree
<1>2. CASE ~InHeap(a)
  <2>1. HeapLive' = HeapLive
    BY <1>1, <1>2 DEF HeapLive, InHeap
  <2>2. QED
    BY <1>1, <2>1 DEF AbsHeld, HeldRuns, Running
<1>3. CASE InHeap(a)
  <2>1. a \in HeapLive /\ HeapLive' = HeapLive \ {a}
    BY <1>1, <1>3 DEF HeapLive, InHeap
  <2>2. HeldRuns' = {RunOf(c) : c \in HeapLive \ {a}}
    BY <2>1 DEF HeldRuns
  <2>3. \A c \in HeapLive : RunOf(c) = RunOf(a) => c = a
    BY <1>1, <2>1, RunsDiffer
  <2>4. HeldRuns' = HeldRuns \ {RunOf(a)} /\ RunOf(a) \in HeldRuns
    BY <2>1, <2>2, <2>3 DEF HeldRuns
  <2>5. QED
    BY <1>1, <2>4 DEF AbsHeld, Running
<1>4. QED
  BY <1>2, <1>3

\* A write changes no run.
LEMMA WriteRefines ==
  ASSUME IInv, NEW a \in live, Write(a)
  PROVE  AbsHeld' = AbsHeld /\ hung' = hung
<1> DEFINE aw == [a EXCEPT !.written = TRUE]
<1>1. a \in Allocation /\ live' = (live \ {a}) \cup {aw} /\ UNCHANGED <<booted, hung>>
  BY DEF Write, IInv, TypeOK
<1>2. RunOf(aw) = RunOf(a) /\ (InHeap(aw) <=> InHeap(a))
  BY <1>1 DEF Allocation, RunOf, InHeap
<1> HIDE DEF aw
<1>3. HeapLive' = IF InHeap(a) THEN (HeapLive \ {a}) \cup {aw} ELSE HeapLive
  BY <1>1, <1>2 DEF HeapLive, InHeap
<1>4. InHeap(a) => a \in HeapLive
  BY DEF HeapLive
<1>5. HeldRuns' = HeldRuns
  BY <1>2, <1>3, <1>4 DEF HeldRuns
<1>6. QED
  BY <1>1, <1>5 DEF AbsHeld, Running

(* Every step of the heap is a step of HeapAbs or leaves its state.        *)
LEMMA StepRefines == IInv /\ IInv' /\ [Next]_vars => [Abs!Next]_(Abs!vars)
<1> SUFFICES ASSUME IInv, IInv', [Next]_vars PROVE [Abs!Next]_(Abs!vars)
  OBVIOUS
<1>1. (IF Running THEN TableRuns ELSE {}) = AbsHeld
  BY AbsView
<1>2. (IF Running THEN TableRuns ELSE {})' = AbsHeld'
  <2>1. (IInv => (IF Running THEN TableRuns ELSE {}) = AbsHeld)'
    BY AbsView, PTL
  <2>2. QED
    BY <2>1
<1> DEFINE Abstract == \/ ~hung /\ hung' = TRUE /\ AbsHeld' = {}
                       \/ hung' = hung /\ AbsHeld' = AbsHeld
                       \/ /\ ~hung /\ hung' = hung
                          /\ \E r \in Abs!Runs :
                               /\ \A h \in AbsHeld : Abs!BlocksOf(h) \cap Abs!BlocksOf(r) = {}
                               /\ AbsHeld' = AbsHeld \cup {r}
                       \/ /\ ~hung /\ hung' = hung
                          /\ \E r \in AbsHeld : AbsHeld' = AbsHeld \ {r}
<1>3. Abstract => [Abs!Next]_(Abs!vars)
  BY <1>1, <1>2 DEF Abs!Next, Abs!vars, Abs!Alloc, Abs!Release, Abs!Halt
<1>4. CASE kheap_init
  <2>1. live' = {} /\ live = {} /\ hung' = hung
    BY <1>4 DEF kheap_init, IInv
  <2>2. HeldRuns = {} /\ HeldRuns' = {}
    BY <2>1 DEF HeldRuns, HeapLive
  <2>3. QED
    BY <1>3, <2>1, <2>2 DEF AbsHeld
<1>5. ASSUME NEW size \in Sizes, kmalloc(size) PROVE Abstract
  BY <1>5, MallocRefines
<1>6. ASSUME NEW a \in live, Write(a) \/ FreeHeld(a) PROVE Abstract
  BY <1>6, WriteRefines, FreeHeldRefines
<1>7. CASE UNCHANGED <<booted, live, hung>>
  <2>1. AbsHeld' = AbsHeld
    BY <1>7 DEF AbsHeld, HeldRuns, HeapLive, Running, InHeap
  <2>2. QED
    BY <1>3, <1>7, <2>1
<1>8. CASE FreeNull \/ \E b \in Blocks : FreeAgain(b)
  BY <1>7, <1>8 DEF FreeNull, FreeAgain, kfree
<1>9. CASE UNCHANGED vars
  BY <1>7, <1>9 DEF vars
<1> HIDE DEF Abstract
<1>10. QED
  BY <1>3, <1>4, <1>5, <1>6, <1>8, <1>9 DEF Next, kzalloc

(* The kernel heap, seen through its table, implements HeapAbs, the heap   *)
(* as a set of disjoint runs.                                              *)
THEOREM HeapImplementsAbs == Spec => ImplementsHeapAbs
<1>1. Init => Abs!Init
  BY DEF Init, Abs!Init, Running
<1>2. QED
  BY <1>1, StepRefines, HeapInvariant, PTL DEF Spec, ImplementsHeapAbs, Abs!Spec

----------------------------------------------------------------------------
(* The search loops of find_first_fit_start_block, for every size of the   *)
(* heap, every table and every request.                                    *)

\* The run counted so far.
RunInv ==
  pc = "inner" =>
    /\ idx < TotalEntries
    /\ idx <= idx_range
    /\ contiguous_block_count = idx_range - idx
    /\ \A b \in idx .. (idx_range - 1) : IsFree(tbl, b)

\* The outer loop stands where the scan may start, behind all it has refused.
ScanInv ==
  pc # "done" =>
    /\ idx = 0 \/ (idx - 1 \in Blocks /\ ~IsFree(tbl, idx - 1)) \/ idx = TotalEntries + 1
    /\ \A i \in Blocks : i < idx => ~Fits(i)

ResultInv ==
  pc = "done" /\ result \in Blocks => result \in scan_starts(tbl)

SearchInv == SearchTypeOK /\ RunInv /\ ScanInv /\ ResultInv /\ LowestFit

(* A run that is too small when it is given up refutes every start in it.  *)
LEMMA RunRefused ==
  ASSUME SearchTypeOK, RunInv, pc = "inner", ~RunContinues, ~BigEnough,
         NEW i \in Blocks, i >= idx, i <= idx_range
  PROVE  ~Fits(i)
<1>1. SUFFICES ASSUME NEW n \in 0 .. (TotalEntries - i),
                      n * BlockSize >= block_size,
                      \A b \in i .. (i + n - 1) : IsFree(tbl, b)
               PROVE  FALSE
  BY DEF Fits
<1> USE ConfigAssumption
<1>2. i \in Nat /\ n \in Nat /\ i + n <= TotalEntries
  BY <1>1 DEF Blocks
<1>3. i + n <= idx_range
  BY <1>1, <1>2 DEF SearchTypeOK, RunContinues
<1>4. n <= contiguous_block_count
  BY <1>2, <1>3 DEF SearchTypeOK, RunInv
<1>5. n * BlockSize <= contiguous_block_count * BlockSize
  BY <1>2, <1>4, MulMono DEF SearchTypeOK
<1>6. QED
  BY <1>1, <1>2, <1>5 DEF SearchTypeOK, BigEnough

LEMMA SearchInitInv == SearchInit => SearchInv
BY ConfigAssumption, SearchAssumption
   DEF SearchInit, SearchInv, SearchTypeOK, RunInv, ScanInv, ResultInv, LowestFit, Blocks

LEMMA SearchNextInv == SearchInv /\ [SearchNext]_search_vars => SearchInv'
<1> SUFFICES ASSUME SearchInv, [SearchNext]_search_vars PROVE SearchInv'
  OBVIOUS
<1> USE ConfigAssumption
<1>1. CASE EnterRun
  <2>1. SearchTypeOK'
    BY <1>1 DEF SearchInv, EnterRun, args, SearchTypeOK
  <2>2. RunInv'
    BY <1>1 DEF SearchInv, EnterRun, args, SearchTypeOK, RunInv
  <2>3. ScanInv'
    BY <1>1 DEF SearchInv, EnterRun, args, ScanInv, Fits
  <2>4. QED
    BY <1>1, <2>1, <2>2, <2>3 DEF SearchInv, EnterRun, ResultInv, LowestFit
<1>2. CASE NoRunLeft
  <2>1. SearchTypeOK'
    BY <1>2 DEF SearchInv, NoRunLeft, args, SearchTypeOK
  <2>2. -ENOMEM \notin Blocks
    BY DEF Blocks
  <2>3. LowestFit'
    <3>1. \A i \in Blocks : ~Fits(i)
      BY <1>2 DEF SearchInv, NoRunLeft, SearchTypeOK, ScanInv, Blocks
    <3>2. tbl' = tbl /\ block_size' = block_size /\ result' = -ENOMEM
      BY <1>2 DEF NoRunLeft, args
    <3>3. \A i \in Blocks : ~Fits(i)'
      BY <3>1, <3>2 DEF Fits
    <3>4. QED
      BY <2>2, <3>2, <3>3 DEF LowestFit
  <2>4. QED
    BY <1>2, <2>1, <2>2, <2>3 DEF SearchInv, NoRunLeft, RunInv, ScanInv, ResultInv
<1>3. CASE CountBlock
  <2>1. SearchTypeOK' /\ RunInv'
    BY <1>3 DEF SearchInv, CountBlock, RunContinues, args, SearchTypeOK, RunInv
  <2>2. ScanInv'
    BY <1>3 DEF SearchInv, CountBlock, args, ScanInv, Fits
  <2>3. QED
    BY <1>3, <2>1, <2>2 DEF SearchInv, CountBlock, ResultInv, LowestFit
<1>4. CASE ReturnRun
  <2>1. idx \in Blocks
    BY <1>4 DEF SearchInv, ReturnRun, SearchTypeOK, RunInv, Blocks
  <2>2. SearchTypeOK'
    BY <1>4, <2>1 DEF SearchInv, ReturnRun, args, SearchTypeOK
  <2>3. Fits(idx)
    <3>1. contiguous_block_count \in 0 .. (TotalEntries - idx)
      BY <1>4 DEF SearchInv, ReturnRun, SearchTypeOK, RunInv
    <3>2. idx + contiguous_block_count - 1 = idx_range - 1
      BY <1>4 DEF SearchInv, ReturnRun, SearchTypeOK, RunInv
    <3>3. QED
      BY <1>4, <3>1, <3>2 DEF SearchInv, ReturnRun, BigEnough, RunInv, Fits
  <2>4. LowestFit'
    BY <1>4, <2>1, <2>3 DEF SearchInv, ReturnRun, args, ScanInv, LowestFit, Fits
  <2>5. idx \in scan_starts(tbl)
    BY <1>4, <2>1 DEF SearchInv, ReturnRun, ScanInv, scan_starts, Blocks
  <2>6. QED
    BY <1>4, <2>2, <2>4, <2>5 DEF SearchInv, ReturnRun, args, RunInv, ScanInv, ResultInv
<1>5. CASE SkipRun
  <2>1. SearchTypeOK'
    BY <1>5 DEF SearchInv, SkipRun, args, SearchTypeOK
  <2>2. ASSUME NEW i \in Blocks, i < idx_range + 1 PROVE ~Fits(i)
    <3>1. CASE i < idx
      BY <1>5, <3>1 DEF SearchInv, SkipRun, ScanInv
    <3>2. CASE i >= idx
      BY <1>5, <2>2, <3>2, RunRefused DEF SearchInv, SkipRun, SearchTypeOK, Blocks
    <3>3. QED
      BY <3>1, <3>2 DEF SearchInv, SearchTypeOK, Blocks
  <2>3. \/ idx_range \in Blocks /\ ~IsFree(tbl, idx_range)
        \/ idx_range = TotalEntries
    BY <1>5 DEF SearchInv, SkipRun, RunContinues, SearchTypeOK, Blocks
  <2>4. ScanInv'
    BY <1>5, <2>2, <2>3 DEF SearchInv, SkipRun, args, SearchTypeOK, ScanInv, Fits
  <2>5. QED
    BY <1>5, <2>1, <2>4 DEF SearchInv, SkipRun, RunInv, ResultInv, LowestFit
<1>6. CASE UNCHANGED search_vars
  BY <1>6 DEF SearchInv, search_vars, SearchTypeOK, RunInv, ScanInv, ResultInv, LowestFit, Fits
<1>7. QED
  BY <1>1, <1>2, <1>3, <1>4, <1>5, <1>6 DEF SearchNext

(* The loops return the lowest block from which the request is free, and   *)
(* -ENOMEM only if there is none.                                          *)
THEOREM SearchLowestFit == SearchSpec => []LowestFit
<1>1. SearchInv => LowestFit
  BY DEF SearchInv
<1>2. QED
  BY SearchInitInv, SearchNextInv, <1>1, PTL DEF SearchSpec

(* The loops compute the expression of HeapTable, which KHeap uses.        *)
THEOREM SearchComputesFirstFit == SearchSpec => []ComputesFirstFit
<1>1. SearchInv => ComputesFirstFit
  <2> SUFFICES ASSUME SearchInv, pc = "done"
               PROVE  result = find_first_fit_start_block(tbl, block_size)
    BY DEF ComputesFirstFit
  <2> USE ConfigAssumption
  <2> DEFINE C == Candidates(tbl, block_size)
  <2>1. \A i \in Blocks : HasContiguous(tbl, i, block_size) <=> Fits(i)
    BY DEF HasContiguous, Fits
  <2>2. CASE result \in Blocks
    <3>1. result \in C
      BY <2>1, <2>2 DEF SearchInv, ResultInv, LowestFit, Candidates
    <3>2. \A i \in C : result <= i
      BY <2>1, <2>2 DEF SearchInv, LowestFit, Candidates, Blocks
    <3>3. C \in SUBSET Nat /\ C # {}
      BY <3>1 DEF Candidates, Blocks
    <3>4. Min(C) \in C /\ \A y \in C : Min(C) <= y
      BY <3>3, MinOfNats
    <3>5. result = Min(C)
      <4> HIDE DEF C
      <4>1. result <= Min(C) /\ Min(C) <= result
        BY <3>1, <3>2, <3>4
      <4>2. result \in Nat /\ Min(C) \in Nat
        BY <3>1, <3>3, <3>4
      <4>3. QED
        BY <4>1, <4>2
    <3>6. QED
      BY <3>3, <3>5 DEF find_first_fit_start_block
  <2>3. CASE result \notin Blocks
    <3>1. C = {}
      BY <2>1, <2>3 DEF SearchInv, LowestFit, Candidates
    <3>2. QED
      BY <2>3, <3>1 DEF SearchInv, SearchTypeOK, find_first_fit_start_block
  <2>4. QED
    BY <2>2, <2>3
<1>2. QED
  BY SearchInitInv, SearchNextInv, <1>1, PTL DEF SearchSpec

============================================================================
