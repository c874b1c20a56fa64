# N00bOS in TLA+

N00bOS is a 32-bit x86 hobby kernel (`src/kernel`, C++ and assembly). It boots,
sets up descriptor tables, a heap, paging and a FAT16 file system on an ATA
disk, reads two files and waits for interrupts. This directory holds TLA+ models of the parts
with logic of their own, the TLC configurations that check them on small
instances, and TLAPS proofs for instances of any size. Every invariant and every
action property that a passing run checks is also a theorem, and so are the two
refinements; liveness is model-checked only.

## 1. The system

The kernel runs on one CPU. Interrupts are enabled by the last statement of
`kernel_main`, and no interrupt handler touches the heap, the disk or the file
layer. Calls of those parts are therefore not interrupted by one another; what
runs beside the CPU is the disk drive, and in the idle loop the timer and the
keyboard. The difficulties of this code are long
sequences of legal calls, exhausted resources, boundaries, steps that fail half
way, and loops that have to end.

| component | state | operations | talks to |
|---|---|---|---|
| first-fit strategy (`mm/heap/find_first_fit_strategy.cpp`, `heap_utilities.cpp`) | block table: one byte per 4 KiB block | `heap_malloc`, `heap_free` | |
| kernel heap (`mm/heap/kheap.cpp`, `heap.cpp`) | the table at 0x7E00, the heap at 0x1000000 | `kheap_init`, `kmalloc`, `kzalloc`, `kfree` | strategy, by function pointers |
| ATA driver (`drivers/ata/ata.cpp`) | drive registers | `read_sector` | the drive, by port I/O and polling |
| disk, streamer (`disk/`) | one disk; per stream a byte position | `search_and_initialize`, `get`, `read_block`; `new_stream`, `seek`, `read`, `close` | ATA driver, heap, file layer |
| path parser (`fs/path_parser.cpp`) | linked list of parts on the heap | `parse`, `free` | heap |
| file layer (`fs/file.cpp`) | file systems, 512 descriptors | `init`, `fopen`, `fread`, `fseek`, `fstat`, `fclose`, `resolve` | path parser, disk, file system by function pointers |
| FAT16 (`fs/fat/fat16.cpp`) | root directory, three streams, open items | `fat16_resolve`, `_open`, `_read`, `_seek`, `_stat`, `_close` | streamer, heap, libc |
| libc (`libc/`) | none | strings, memory, numbers | |
| paging (`arch/i386/paging`) | page directories and tables on the heap | `paging_new`, `_free`, `_set`, `_map`, `_align`, `_switch` | heap |
| tasks, processes (`arch/i386/task`) | doubly linked list of tasks; process per pid | `new_task`, `free_task`, `get_next_task`; `load_process`, `free_process`, `get_process` | heap, paging, file layer |
| GDT and TSS (`arch/i386/gdt`, `task/tss.*`) | six descriptors, task register | `structured_gdt_to_gdt`, `gdt_load`, `tss_load` | |
| IDT and handlers (`arch/i386/idt`) | gates; the interrupt flag; the PIC's lines in service | `idt_init`, `int21h`, `no_interrupt`, `idt_zero`, `enable_interrupts` | terminal, PIC |
| terminal (`arch/i386/tty.cpp`) | cursor, colour, screen | `terminal_initialise`, `_write_char`, `_write`, `_set_colour` | |
| `kernel_main`, boot loader, port I/O | | run once, in a fixed order; single instructions | everything |

What makes each part correct:

* heap: live allocations never overlap, their contents survive other calls, the
  table says exactly what is live, a free gives back all of one allocation, an
  allocation is as large as its request, a full heap is reported;
* driver and streamer: the bytes asked for, in order, whatever the alignment and
  however long the drive takes; the position moves by what was read; the call
  returns;
* path parser: the components of the path; everything can be freed; it returns;
* file layer and FAT16: a descriptor refers to the file its path names; an open
  fails only if there is no such file; nothing is leaked or freed twice; reads
  deliver the file's bytes along the cluster chain;
* tasks and processes: the list stays linked in both directions and keeps its
  order, every exit of a load leaves heap, list and page directories consistent,
  user code can write only to its own program;
* kernel: the screen shows what was written, selectors lead to the segments
  meant, an interrupt leaves stack, flag and controller as they were, and every
  interrupt is served.

The hazards, each at its line, are listed in `PROJECT.json`.

## 2. Modules

| module | models | kind |
|---|---|---|
| `HeapTable` | the block table: rounding, search, marking, clearing, addresses | operators |
| `FirstFitLoop` | the two nested loops of the search, one step per iteration | state machine |
| `KHeap` | the kernel heap and its callers | state machine over `HeapTable` |
| `HeapAbs` | what a heap promises: disjoint runs of blocks, handed out and given back | abstract specification |
| `Ata` | the driver against an asynchronous drive | steps, composed by `DiskStreamer` |
| `DiskStreamer` | byte streams, on top of `Ata` | state machine |
| `PathParser` | `parse` and `free` | state machine |
| `Fat16Dir` | directories and the search for a name, with `strcasecmp` | operators |
| `FileTable` | the file layer and open FAT16 files, over `Fat16Dir` | state machine |
| `Fat16Read` | a read through the cluster chain | state machine |
| `Paging` | page directories: indices, setting, mapping, aligning | operators |
| `TaskList` | the doubly linked list of tasks | operators |
| `TaskQueue` | what that list promises | abstract specification |
| `Process` | `load_process` and `free_process`, over `HeapTable`, `Paging` and `TaskList` | state machine |
| `Terminal` | cursor and screen | operators |
| `Gdt` | encoding of segment descriptors | operators |
| `LibC` | `itoa`, `atoi`, `strlen` | operators |
| `KernelMain` | the boot sequence and the interrupts, over `Terminal`, `Gdt` and `LibC` | state machine |
| `KHeapProofs` (with the search), `DiskStreamerProofs`, `PathParserProofs`, `FileTableProofs`, `Fat16ReadProofs`, `ProcessProofs`, `KernelMainProofs` | lemmas and theorems | proofs |
| `Numbers` | quotients, least numbers, induction, functions defined by a first value and a step | lemmas |
| `MC*` | volumes, tables and paths for TLC | instances |

Definitions have the names of the functions they model; `PROJECT.json` maps each
to its lines. A definition whose name ends in a suffix after the original's name
(`heap_free_one`) and whose comment calls it a mutant is a deliberately broken
version that shows that a property notices; no specification uses it.

### The heap

`table` is a function from blocks to entries; an entry is the set of its bits.
`contents` names who wrote a block last, `live` is what callers hold. Both are
history: no code reads them. An address is its block number modulo 2^32 /
`HEAP_BLOCK_SIZE` (`AddrBlocks`), since every address the heap computes is a
multiple of the block size, and sizes are taken modulo `SIZE_MOD`. Callers
(marked external) write to what they hold, free it, free a null pointer, or free
again a block that nobody was given since.

A failed search is modelled as the code has it: `-ENOMEM` is used as a block
index. The caller gets an allocation whose first block is `-ENOMEM`. If the
request has exactly `ENOMEM` blocks the loop bound wraps and the loop is endless
(`hung`); the table is then all taken, and nothing follows. A request so large
that the rounding wraps to 0 bytes is endless too.

`HeapTable!find_first_fit_start_block` is one expression. `FirstFitLoop` runs the
loops; it is checked and proved to compute that expression.

### Driver and streamer

The drive (external) accepts a command, prepares a sector in its own time, raises
DRQ and lowers it when the last word has been taken. A word is named by its
place, so a property can say which words arrived. The driver writes the LBA
split over the registers and the number of sectors in one of its own, polls, and
copies. The count register holds a number below `CountBase` (256); 0 stands for
`CountBase` sectors. A command for more than that would leave the driver waiting for
sectors that the drive never sends; no caller gives one, so `MaxTotal` is at most
`CountBase`. `DiskStreamer` adds the loop of
`read`, and callers that ask `read_block` for several sectors at once; one stream
is enough because streams share nothing but the disk.
The branch of `read` for a negative `read_block` cannot be taken: the stream's
disk is always the primary one and `read_sector` returns 0.

### Paths and files

`PathParser` runs `parse` over all paths up to a length. The heap is counted in
allocations; when it is exhausted, requests return one and the same pointer, as
`KHeap` shows, and the list stops growing.

`FileTable` counts heap objects per kind and, in `lost`, those whose last pointer
has gone out of scope (for instance the parsed path, which `fopen` never frees).
A lookup is one step per path component. A failed lookup with components left
reads the type of a null item: the root directory's items are stored from
address 0 on (its `item` pointer is never set), so what is read is part of the
first root entry's name, which is not the type of a directory. Callers use an
index that is open or was never handed out. `fstat` leaves the flags of a file that is
not read-only as the caller had them: any value.

A subdirectory is described twice. `SubDirs` gives its entries along its chain of
clusters, which is what a path means (`Resolve`). `Raw` gives the entries that follow
each other on the disk from its first cluster on, up to the first without a name:
`get_directory_total_items` counts there, and does not follow the chain. In the first
cluster, of `EntriesPerCluster` entries, the two agree. `load_directory` then reads as
many entries as it has counted, through `read_internal`, whose passes all start at
the first cluster and write to the same place: entries behind the first cluster
stay zero (`Zeroed`). `directory_free` gives the array of items to `kfree` once per item,
so the array of an empty directory is never freed (`Dropped`).

`Fat16Read` follows the chain entry by entry and repeats the passes of
`read_internal_from_stream`; a byte is its position on the disk. One call of the
streamer is one step that delivers a slice, which is what `DiskStreamer` is
checked to do. A file without contents has first cluster 0 (`Starts`), which the code
reads like any other, so entry 0 of the FAT matters: it is 0 on the image that the
Makefile puts together, and the media type, a mark for an end, on a formatted volume
(`FirstEntries`). Cluster 0 lies two clusters before the data area; with the layout of
`boot.asm` that is on the disk.

### Processes, tasks and page directories

`Process` has one step for each stage of `load_process`: the structure, the
program, the stack, the task with its page directory, the mapping, and the exit.
The heap is what `KHeap` is shown to be, a set of disjoint runs taken at the
lowest place; addresses and rounding are those of `HeapTable`, so memory that is
freed is handed out again at once and a stale pointer would meet a new owner.
`lost` names the blocks that the code drops, at the two places where it does: the
buffer of a failed `fread`, and everything that the first load holds, because
`new_task` returns a null pointer for the first task. `held` is what callers have
got; they free it in any order.

What `fread` returns is up to the mounted file system, behind a function pointer.
`load_binary` takes 1 for success; FAT16 returns 0. The model starts with either
value: with 0 no load gets past the read, with 1 the rest of the code is reached.
A directory or a missing file fails in `fclose` as well, which decides the result.

`list` holds `head`, `tail`, `current` and the links of all tasks. The sequence
from `head` on implements `TaskQueue`. The first task is never freed, as no process
points to it; `current` is never set, so `get_next_task` is reached only from the
branch of `remove_task` for the current task, which is not taken.

A page table entry is a page number and the set of its flags. A page is a block;
the directory and its tables fill a page each. The tables map everything to
itself, readable for user code; only `paging_map` makes pages writable for it.

### Boot and interrupts

`KernelMain` runs `kernel_main` statement by statement, with what each prints. The
calls into heap, paging, disk and files do what the other modules say; here only
what `kernel_main` finds matters: which files the volume has, the size of the first
and whether a cluster has a size at all. A volume with zero sectors per cluster
makes `get_cluster` divide by zero, at the first read of a file and already inside
`fopen` where a subdirectory with entries is loaded (`Divides`). `idt_zero` is entered
by an interrupt gate but returns with `ret`, so two of the three pushed words stay and
the division is next again. The build keeps no frame pointer, so the function finds
its locals by `esp`, which has moved: the division fails again, or the code goes on
with a stack that is not its own. The model allows either, says nothing of what
follows the second (`Astray`), and no property depends on it. `esp` counts the words
that interrupts have pushed and stops at `MaxStack`.

Timer, keyboard and drive raise their lines at any moment (external); the master
PIC (external) offers the line of the highest priority if none of that or a higher
priority is in service; the CPU accepts it if the flag is set. A handler is three
steps: `cli` and `pushad`, the C function with the end-of-interrupt command, and
`popad`, `sti`, `iret`. The last two are one step because `sti` takes effect after
the instruction that follows. The command goes to the master only: the slave's
line 14, the drive's, is never free again. Nothing waits for it.

Numbers of the descriptors are written in digits of a small base, `Nibble`, in
place of 16; the code's masks and shifts are powers of it. Texts are shortened to
a few characters. The buffers of `itoa` are memory with unknown former contents;
a NUL byte follows behind them.

## 3. Runs

Passing runs:

| run | checks | bounds |
|---|---|---|
| `heap` | table mirrors live allocations, no overlap, data intact, room for the request, lowest fit, refinement of `HeapAbs` | 4 blocks, `ENOMEM` 2: requests of 1, 2 and 3 blocks, so below, at and above `ENOMEM`, and one whose rounding wraps; the table memory may hold anything of the chosen garbage before `kheap_init`. Holes of every size and full heaps occur. Deadlock is allowed, the endless loop is one |
| `first_fit_loop` | lowest fit, same result as `HeapTable`, the loops end | all tables of 6 entries, requests of 0 to 7 blocks |
| `disk_streamer` | words in order, complete transfers, the disk's bytes at any alignment, position, buffer given back, reads return | 5 sectors of 4 bytes, commands for up to 3 sectors, stream reads of up to 9 bytes from every position; LBA registers of one bit, so that several matter, and a count register that writes 3 as 0 |
| `path_parser` | components, all freed, parse returns | all short paths over a digit, a letter, colon and slash without an empty component |
| `file_table` | heap accounting, right file, failures justified, `fopen` returns | 2 descriptors, 3 opens; nested directories, an empty one and one that fills its cluster of 4 entries, so that the count runs on behind it, missing parts, files in the middle of a path, unused entries, other drives and modes, unmountable disks |
| `fat16_read` | reads inside a cluster, reads across consecutive clusters, errors, reads return | every FAT of 3 clusters, cyclic and crossed chains included, files with and without clusters, positions in and before the file |
| `process` | list linked both ways, a queue, heap accounting, user code writes its own program only | 3 loads, 2 pids, so that a task is removed between two others and memory is reused; missing, empty, unaligned and four-page programs; pages of 24 bytes, tables of 12 entries. Deadlock is allowed: after `MaxLoads` loads callers may stop |
| `kernel_main` | screen, selectors, clean idle loop, printed size, interrupts served | a screen of 5 rows of 2, so that texts wrap and clear; five volumes, with the division by zero in a read and in an `fopen`; `Nibble` 4 with two places of the TSS; unset flags and stack bytes of two values |

Bounds are small because the code treats blocks, sectors, entries and components
alike: what matters is to have two of a kind, one beside another, one hole
between two, and a limit that is reached.

Runs that show a disagreement between the code and what a comment or header says
(`findings` in `PROJECT.json` quotes the line):

| run | shows |
|---|---|
| `heap_exhausted` | a full heap hands out an address below the heap instead of failing |
| `path_empty_part` | `0://` makes `parse` loop and use up the heap |
| `file_same_length` | with names of equal length another file is opened |
| `fat16_cross_cluster` | reads across clusters deliver foreign bytes |

The models contain further oddities of the code that have no run of their own:
`HEAP_BLOCK_IS_FIRST` is overwritten as soon as it is set (`MarkTaken`), a multiple
of the block size is rounded up by a block (`align_to_upper`), a failed request of
more than `ENOMEM` blocks zeroes the first blocks of the heap (`ZeroBlocks`), an
unused entry in front hides the last entry of a subdirectory, and the entries behind
the first cluster of a subdirectory are counted but not loaded, so that `fopen` fails
on files that are there (`load_directory`),
mode `w` is taken for `r` (`str_2_filemode`), a read of an empty file delivers bytes from
before the data area and succeeds (`Starts`), the array of an empty directory is never
freed (`Dropped`), a table entry is never given back by `fclose`, and a root directory that ends inside
a sector shifts all clusters (`sector_pos_end`). In the modules around processes:
no process loads from FAT16 (`fread_results`); a region of `n` pages is mapped for
`n` / 4 of them (`pages_between`); a program that ends inside a page is not mapped,
although `paging.h` says of `paging_align` "Aligns an input address up to a page
boundary" (`paging_align`); the stack of a process is not mapped; `processes[pid]`
keeps a process that was freed, so the pid is refused from then on. In the
kernel: 1024 tables of two blocks each fill the heap after about twelve tasks;
the colour is reset whenever the screen is cleared; `itoa` does not terminate a
zero and does not reverse a negative number; `tss_t` lacks `ss1`, so the fields
behind it are four bytes early and the limit is below the processor's minimum for
a task switch; the third byte written to the PIC, meant for x86 mode, comes where
a cascaded PIC expects the place of its slave; the keyboard's handler does not
read the key, so a real controller sends no second one (the model lets keys come
again). The passing runs stay away from
the lookup bugs: names of one directory differ in length, and subdirectories have
one cluster in which unused entries come last. `LiveDataIntact` excepts the failed
large request, `FailsBeforeStart` the empty file.

Fairness. A call that has begun goes on: weak fairness of the steps of the
search, of `parse`, of `fopen` and of the reads, because one CPU executes them
and nothing interrupts them. The drive answers a command it has accepted: weak
fairness of the drive. In `KernelMain` the CPU goes on while it can, and a tick
comes only after the handler of the tick before has ended, 55 ms being far longer
than the handler. A key has a lower priority than a tick; strong fairness says that
it is taken if it could be taken again and again, between ticks. The driver's poll has no timeout and no error test, so
without this assumption it would spin. Calls by users of a component are never
assumed to happen.

## 4. Proofs

Each proof module has an inductive invariant (`IInv` in `KHeapProofs`, with
`SearchInv` for the search; `Inv` in the others, with `WalkInv` for the walk of a
path and `ScreenInv` for the screen), a lemma that it holds at first, one that
every step keeps it, and the theorems that follow. The constants are any that
satisfy the named assumptions below. A hypothesis is not an assumption of the
module but part of the theorems it is named for; TLC evaluates it on the instance
of the run.

| module | theorems | assumptions on the constants, hypotheses |
|---|---|---|
| `KHeapProofs` | `HeapInvariant`, `HeapTypes`, `HeapTableMirrorsLive`, `HeapLiveDisjoint`, `HeapRoomForRequest`, `HeapFirstFitLowest`, `HeapLiveDataIntact`, `HeapImplementsAbs` | `ConfigAssumption`: the heap lies in the address space, with at least `ENOMEM` blocks below it; `SizesAssumption` |
| `KHeapProofs` | `SearchLowestFit`, `SearchComputesFirstFit` | `ConfigAssumption`, `SearchAssumption` |
| `DiskStreamerProofs` | `StreamTypes`, `DriverStoresSectors`, `DriverTransferComplete`, `StreamReadsSlice`, `StreamHeapBalanced`, `StreamPositionFollowsRead` | `AtaAssumption`, `StreamerAssumption`: sizes are numbers |
| `PathParserProofs` | `ParserTypes`, `ParserPartsAreComponents`, `ParserFreeReleasesAll` | `PathAssumption`: paths are strings over any characters, the heap holds at least one allocation |
| `FileTableProofs` | `FileTypes`, `FileHeapAccounted` | `FileAssumption`: sizes are numbers, paths and directories have lengths, a cluster holds an entry |
| `FileTableProofs` | `FileOpensWhatPathNames`, `FileFailsOnlyIfAbsent` | `FileAssumption`; hypothesis `VolumeReadable` |
| `Fat16ReadProofs` | `ReadTypes`, `ReadOneCluster`, `ReadContiguous`, `ReadFailsBeforeStart` | `ReadAssumption`; `VolumeAssumption`: no cluster number is an end mark, FAT entries lead to clusters of the volume or end the chain, the root directory ends at a sector |
| `ProcessProofs` | `ProcessInvariant`, `ProcessListLinked`, `ProcessHeapIsAccounted`, `ProcessUserWritesOwnImage`, `ProcessImplementsTaskQueue` | `ConfigAssumption`; `PagingAssumption`: a table fills a page; `BlockIsPage`: a heap block is a page; `LoadsFit`: no size wraps when rounded up, and `MaxLoads` loads fit the heap |
| `KernelMainProofs` | `BootSelectorsDecode`, `BootIdleIsClean` | `NibbleAssumption`: the base of digits is above 1; `BootAssumption`: the TSS lies in the address space and its size fits 16 bits, the model's stack has room for one interrupt, memory holds numbers |
| `KernelMainProofs` | `BootScreenShowsText`, `BootPrintedSizeReadsBack` | the same; hypothesis `StatFits` |

**Search.** The invariant says that no start below the current run fits: a start
inside a run that was given up would need the block that ended it.

**Heap.** Disjointness is not inductive: a free walks HAS_NEXT bits, and what it
clears depends on the whole table. `IInv` adds `TableMirrorsLive`: every
allocation is a chain that ends at its last block, and all else is free. Then a
search finds only blocks that nobody holds (`FoundRun`), marking writes one chain
and leaves the rest (`MarkRun`, `WithChain`), a free of an allocation clears
exactly its chain, and a second free clears a free entry. A failed request either
marks nothing in the heap (`MarkNothing`) or never returns; the case split over
its size uses the modular arithmetic of `ModSmall`, `ModNegative`, `SizeMod` and
`AlignedBlocks`, and `EmptyRequestHangs` covers the request whose rounding wraps
to 0. The refinement reads the runs off the table (`KHeap!TableRuns`): by the
invariant they are the live allocations in the heap, so a successful `heap_malloc`
adds a run of free blocks, a free removes one, and the rest stutters.

**Driver and streamer.** Two levels in one invariant. `AtaInv` ties the driver's
loop indices to the drive's sector and word, so that the number of words stored
is at any moment the number handed over, and the LBA put together from the
registers is the one asked for. `Calls` says where `read` stands between two calls
of the driver: the sector commanded is the one that holds the next byte. Both
need unique quotients and remainders (`Numbers!DivModUnique`), because the code
divides by the sector size where the property counts bytes.

**Paths.** Either the parser has met an empty component, at which it stays for
ever; or the path was a bare drive; or the list holds exactly the components that
start before the pointer, numbered by their rank (`PartsUpTo`). A component that
is added has the rank of the next (`NextComponent`), and when the pointer is at
the terminator all have been added (`ComponentsAre`). For `free`, the number held
is the length of the list and the number of its names, until a request meets a
full heap. The proof needs a heap with room for one allocation: with none, `free`
would give back a root that was never allocated.

**Files.** The accounts are inductive together with the shape of descriptors and
of the call in progress. An entry that changes, changes the sum over the table by
what it refers to (`SumOfUpdate`). That nothing is freed too often is not proved
step by step: it follows from the accounts, since what is held and what was
dropped are numbers.

**Lookups.** `Resolve`, which says what a path names, walks the directories as they
are on the volume and compares whole names. The code's walk differs in three ways:
`strcasecmp` returns a difference only where a character of the entry is smaller,
`InUse` copies the entries in use and `load_directory` reads as many as it has
counted along the disk, in the first cluster only. `VolumeReadable` says where that
makes no difference: directories exist, subdirectories have one cluster in which the
unused entries come last, and if unused entries fill it up, none in use follows on the
disk (`DirectoriesLoad`), names are not empty, and an entry that is as long as a name
looked for is that name or has a smaller character somewhere. On such a volume
`strcasecmp` returns 0 exactly for equal names (`EqualForStrcasecmp`,
`SameNameIsEqual`), the first hit among the copied entries is the first hit among
all (`InUseKeepsFirst`, `LoadKeepsFirst`), and so every step of the walk holds the
entry that the parts walked so far name (`WalkInv`, `WalkStep`). Once a part is
absent the rest of the path names nothing (`AbsentStays`). The run
`file_same_length` shows that the names need it. That the single cluster is needed
follows from `load_directory`: with more, the entry in the second cluster is looked for
among zeroed items. A
subdirectory that fills its cluster is allowed: what the count meets behind it adds
zeroed items, whose name is no name that is looked for.

**Reads.** While `get_cluster` walks, `cluster` is entry `idx` of the chain (`Walk`),
and a chain that has ended stays ended, so a failed walk means that no cluster
exists at the place asked for. The first cluster is not tested, so a read in the first
`ClusterBytes` bytes of an empty file succeeds; `ReadFailsBeforeStart` excepts these
reads and no other, and `ReadOneCluster` is about files that have clusters. A read of at most a cluster takes one pass of the
loop (`OnePass`), which is why it may run on into the next cluster on the disk.

**Processes.** Neither the two directions of the list nor the accounts are inductive.
The list: some sequence of distinct tasks is chained along `next` from `head` and
along `prev` from `tail` (`Holds`), and `Forward` is that sequence as long as it is
shorter than the walk (`WalksOfList`); `new_task` appends to it and `remove_task`
takes one element out, first, last or between two. This also gives the refinement.
The heap: every run has exactly one owner, a process in use, a task on the list or
`lost` (`Accounted`), and owners do not share; so what `free_process` gives to `kfree`
is what its process and task own and nobody else. That a new run is disjoint from
all others needs the search to succeed, for which each load stays within its share
of the heap (`Share`, `Below`, `HeapInv`): the runs lie below the sum of the shares,
because the lowest fit is taken. Page directories: they begin as the identity
without write access. `paging_map` writes entries only if the program ends at a page
boundary, since an unaligned end stays unaligned through `paging_align`, and then for
no more pages than the program has, since `pages_between` counts too few. The
property is inductive together with the accounts: tasks do not share a directory.

**Boot.** Descriptors: bytes of a sum of shifted digits are the digits, by the
uniqueness of quotients, for every base. Interrupts: handlers do not nest, because
the gate clears the flag and only the last step of a handler sets it; the
invariant lists what is on the stack and in service at each step (`InHandler`).

**Screen and numbers.** From the cursor on the screen is blank, and the characters
before it are the text (`Screens`); a character that is put at the cursor extends
both by one (`PutShows`), a new line passes only blanks, and clearing empties both.
`terminal_write` keeps that for texts of any length (`WriteScreen`). What `itoa`
prints is proved for values of one and two digits, digit by digit (`LeftOf`,
`DigitsOf`, `ItoaOf`, `AtoiOf`): `kernel_main` prints into three bytes, so that
`StatFits`, two digits and a size that is not zero, is what the code has room for.

Recursive definitions (`ChainFrom`, `TableSum`, `InUse`, `new_tables`, `terminal_write`,
`OnScreen`, `left` and others) are recursive functions. What they
compute is proved by induction on a set of numbers (`Numbers!SetInduction`), which
rests on the well-foundedness of the order of the naturals; that such functions
exist at all is `Numbers!IterationExists`.

Only model-checked is liveness: `SearchEnds`, `ReadReturns` of streams and of FAT16,
`ParseReturns`, `OpenReturns` and `IrqServed`. It needs fairness and ENABLED, which the
prover does not handle. The properties of the four runs that show a disagreement
are false there; `OpensWhatPathNames` is a theorem under `VolumeReadable`, the other three have no theorem. `OpenReturns` takes the scan of
`get_directory_total_items` as one operator on a finite `Raw`: that the scan meets an
entry without a name is a fact about the disk. `SearchTypeOK` is part of the proved invariant of the
search; the types of `ProcessProofs` and `KernelMainProofs` are part of theirs.

## 5. Not modelled

The boot loader is 16-bit assembly that runs once before the kernel and leaves no
state behind but the loaded image and the cleared interrupt flag, where
`KernelMain` starts. Port I/O is single instructions; `Ata` and `KernelMain` model
what they reach. Of libc, `memset` and `memcpy` are part of their callers; `strncpy`
fills the name of a process, which nothing reads; `memcmp`, `memmove` and `strcpy`
are library code whose result no modelled decision depends on. The layout of IDT
gates is abstracted to the handler. The registers saved in a task, user mode and
task switching are not modelled: the kernel has no code that enters a task.
The layout of the FAT header and of 8.3 names is abstracted
to records and names. The bare path `0:/`, whose only part has no name, is covered
by `PathParser` but not opened in `FileTable`. Use of a descriptor after `fclose`
is left out: what it reads is whatever the heap holds by then. An error answer of
the drive is left out; the driver does not look at it.

## 6. Plan

Done, in this order: `HeapTable`, `FirstFitLoop`, `KHeap`, `HeapAbs`, the heap
proofs, `Ata`, `DiskStreamer`, `PathParser`, `Fat16Dir`, `FileTable`, `Fat16Read`,
`Paging`, `TaskList`, `TaskQueue`, `Process`, `Terminal`, `Gdt`, `LibC`, `KernelMain`.

The proofs, in the order of section 4.

Left: liveness for every instance, for which a proof system with fairness would be
needed; `itoa` for numbers of more digits than `kernel_main` has room for.
