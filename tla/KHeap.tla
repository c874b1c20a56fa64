------------------------------- MODULE KHeap -------------------------------
(***************************************************************************)
(* The kernel heap: kernel/mm/heap/kheap.cpp and heap.cpp over the table   *)
(* algorithms of HeapTable.  The kernel runs on one CPU and no interrupt   *)
(* handler touches the heap, so a call is one step.                        *)
(*                                                                         *)
(* The callers are the environment: they write into what they hold, free   *)
(* each allocation, free null, and free a block again after it was freed   *)
(* (directory_free in fat16.cpp does so for every item after the first).   *)
(***************************************************************************)
EXTENDS HeapTable

CONSTANTS
  Sizes,    \* the sizes in bytes that callers ask for
  Garbage   \* the entries the table memory may hold before kheap_init

ASSUME SizesAssumption ==
  /\ Sizes \subseteq 0 .. (SIZE_MOD - 1)
  /\ Garbage \subseteq Entry

VARIABLES
  booted,    \* kheap_init has run
  table,     \* kernel_heap_table.entries
  contents,  \* for every heap block the tag of who wrote it last
  live,      \* what callers hold: history of the pointers handed out
  hung       \* heap_malloc is in an endless loop

vars == <<booted, table, contents, live, hung>>

(* A tag is << >> for zeroes, <<f>> for the holder of the allocation that  *)
(* starts at block f, and <<0, 0>> for whatever was there at boot.         *)
Zero    == << >>
Unknown == <<0, 0>>
Tag(a)  == <<a.first>>

Extent(a) == a.first .. (a.first + a.len - 1)

(* The allocations that really are blocks of the heap; the others are the  *)
(* ones that kmalloc handed out after its search had failed.               *)
InHeap(a) == a.first >= 0

HeapLive == {a \in live : InHeap(a)}

----------------------------------------------------------------------------
Init ==
  /\ booted = FALSE
  /\ table \in [Blocks -> Garbage]
  /\ contents = [b \in Blocks |-> Unknown]
  /\ live = {}
  /\ hung = FALSE

Running == booted /\ ~hung

validate_alignment(addr) == addr % BlockSize = 0

validate_heap_table(start_ptr, end_ptr) ==
  (end_ptr - start_ptr) \div BlockSize = TotalEntries

\* A mutant leaves the table memory as it was.
default_heap_create_noinit(start_ptr, end_ptr) == table

default_heap_create(start_ptr, end_ptr) ==
  IF /\ validate_alignment(start_ptr)
     /\ validate_alignment(end_ptr)
     /\ validate_heap_table(start_ptr, end_ptr)
  THEN [b \in Blocks |-> FREE]
  ELSE table

kheap_init ==
  /\ ~booted
  /\ booted' = TRUE
  /\ table' = default_heap_create(HeapBlock * BlockSize,
                                  (HeapBlock + TotalEntries) * BlockSize)
  /\ UNCHANGED <<contents, live, hung>>

\* A mutant does not zero the blocks.
ZeroBlocks_none(first, num) == contents

ZeroBlocks(first, num) ==
  [b \in Blocks |->
     IF b \in first .. (first + num - 1) THEN Zero ELSE contents[b]]

kmalloc(size) ==
  LET aligned_size == align_to_upper(size)
      num          == num_blocks(size)
      first        == find_first_fit_start_block(table, aligned_size)
  IN  /\ Running
      /\ table' = MarkTaken(table, first, num)
      /\ contents' = ZeroBlocks(first, num)
      /\ hung' = Endless(first, num)
      /\ live' = IF Endless(first, num)
                 THEN live
                 ELSE live \cup {[first   |-> first,
                                  len     |-> num,
                                  size    |-> size,
                                  written |-> FALSE]}
      /\ UNCHANGED booted

\* The memset of size bytes in kzalloc covers a prefix of the blocks that
\* heap_malloc has just zeroed.
kzalloc(size) == kmalloc(size)

kfree(addr) ==
  /\ Running
  /\ table' = heap_free(table, addr)
  /\ UNCHANGED <<booted, contents, hung>>

----------------------------------------------------------------------------
(* The callers.                                                            *)

Write(a) ==
  /\ Running
  /\ a \in live
  /\ contents' = [b \in Blocks |->
                    IF b \in Extent(a) THEN Tag(a) ELSE contents[b]]
  /\ live' = (live \ {a}) \cup {[a EXCEPT !.written = TRUE]}
  /\ UNCHANGED <<booted, table, hung>>

FreeHeld(a) ==
  /\ a \in live
  /\ kfree(block_idx_2_block_address(a.first))
  /\ live' = live \ {a}

FreeNull == kfree(nullptr) /\ UNCHANGED live

\* A second free of a block that nobody has been given since the first.
FreeAgain(b) ==
  /\ table[b] = FREE
  /\ kfree(block_idx_2_block_address(b))
  /\ UNCHANGED live

Next ==
  \/ kheap_init
  \/ \E size \in Sizes : kmalloc(size) \/ kzalloc(size)
  \/ \E a \in live : Write(a) \/ FreeHeld(a)
  \/ FreeNull
  \/ \E b \in Blocks : FreeAgain(b)

Spec == Init /\ [][Next]_vars

----------------------------------------------------------------------------
(* Properties.                                                             *)

Allocation == [first : Blocks \cup {-ENOMEM}, len : Nat, size : Sizes,
               written : BOOLEAN]

Tags == {Zero, Unknown} \cup {<<f>> : f \in Blocks \cup {-ENOMEM}}

(* Type invariant of the heap's table, of the memory it manages and of the *)
(* history of what was handed out.                                         *)
TypeOK ==
  /\ booted \in BOOLEAN
  /\ table \in Table
  /\ contents \in [Blocks -> Tags]
  /\ live \subseteq Allocation
  /\ hung \in BOOLEAN

\* The entries of an allocation: HAS_NEXT on all but the last.
ChainEntry(a, b) ==
  IF b = a.first + a.len - 1 THEN {TAKEN} ELSE {TAKEN, HAS_NEXT}

\* Every allocation is a non-empty run of blocks of the heap.
LiveInHeap == \A a \in HeapLive : a.len > 0 /\ Extent(a) \subseteq Blocks

\* Its entries form one chain that ends at its last block.
LiveChained == \A a \in HeapLive : \A b \in Extent(a) : table[b] = ChainEntry(a, b)

\* Nothing else is taken.
RestFree ==
  \A b \in Blocks : (\A a \in HeapLive : b \notin Extent(a)) => table[b] = FREE

(* The table of heap.h describes exactly what callers hold, through every  *)
(* order of heap_malloc and heap_free: no block is leaked, no chain runs   *)
(* into the next allocation.                                               *)
TableMirrorsLive == Running => LiveInHeap /\ LiveChained /\ RestFree

(* heap_malloc never hands out a block that somebody holds.                *)
LiveDisjoint ==
  \A a, c \in HeapLive : a # c => Extent(a) \cap Extent(c) = {}

\* What a failed request was given reaches up into the heap.
Overruns(a) == ~InHeap(a) /\ a.len > ENOMEM

(* No call of the heap touches the data of an allocation that is held, and *)
(* a new allocation reads as zeroes.  A failed request of more than ENOMEM *)
(* blocks is excepted: heap_malloc zeroes the heap from its first block on.*)
LiveDataIntact ==
  [][(\A c \in live' : ~Overruns(c)) =>
       /\ \A a \in HeapLive \cap live' : \A b \in Extent(a) :
            contents'[b] = contents[b] \/ (a.written /\ contents'[b] = Tag(a))
       /\ \A a \in live' \ live : \A b \in Extent(a) \cap Blocks :
            contents'[b] = IF a.written THEN Tag(a) ELSE Zero]_vars

(* align_to_upper never yields less than was asked for: where size_t wraps *)
(* heap_malloc does not return.                                            *)
RoomForRequest == \A a \in live : a.len * BlockSize >= a.size

(* The strategy is first fit although the scan skips start positions: a    *)
(* successful heap_malloc takes the lowest place in the whole table where  *)
(* the request fits, and it fails only if there is no such place.          *)
FirstFitLowest ==
  [][\A a \in live' \ live : ~a.written =>
       /\ InHeap(a) => FitsAt(table, a.first, a.len)
       /\ \A i \in Blocks :
            (InHeap(a) => i < a.first) => ~FitsAt(table, i, a.len)]_vars

(* The runs of blocks in use as the table alone shows them: one starts at  *)
(* every taken block that no HAS_NEXT points to.                           *)
RunStarts ==
  {b \in Blocks : TAKEN \in table[b] /\ ~(b - 1 \in Blocks /\ HAS_NEXT \in table[b - 1])}

TableRuns == {[first |-> s, len |-> Cardinality(Chain(table, s))] : s \in RunStarts}

Abs == INSTANCE HeapAbs WITH
  HeapSize <- TotalEntries,
  held     <- IF Running THEN TableRuns ELSE {},
  halted   <- hung

(* Read through its table, the heap implements HeapAbs: every kmalloc that *)
(* returns heap memory adds a run that is disjoint from those in use,      *)
(* every kfree removes one whole run, and nothing else changes any.        *)
ImplementsHeapAbs == Abs!Spec

(* What makes TableMirrorsLive and LiveDisjoint inductive.                 *)
IInv ==
  /\ TypeOK
  /\ ~booted => live = {}
  /\ TableMirrorsLive
  /\ LiveDisjoint

(* kheap.h: kmalloc returns "address of memory allocated"; every caller    *)
(* takes a null pointer, and only that, for a failure.                     *)
ReturnsHeapMemory ==
  \A a \in live : InHeap(a) \/ block_idx_2_block_address(a.first) = nullptr

============================================================================
