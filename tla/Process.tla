------------------------------ MODULE Process ------------------------------
(***************************************************************************)
(* Processes: kernel/arch/i386/task/process.cpp over the task list, page   *)
(* directories and the kernel heap.                                        *)
(*                                                                         *)
(* Pointers are heap addresses in blocks, as in HeapTable; a heap block is *)
(* a page.  kmalloc never returns null (KHeap), so the branches of process *)
(* and task that test for it are not taken.  The objects of the file layer *)
(* are the subject of FileTable.                                           *)
(*                                                                         *)
(* load_binary takes the value 1 for a successful fread.  What fread       *)
(* returns is what the read function of the mounted file system returns;   *)
(* for FAT16 that is 0.                                                    *)
(***************************************************************************)
EXTENDS HeapTable, Paging, TaskList

CONSTANTS
  Files,          \* what names lead to: [kind, size]
  ReadSuccess,    \* the values a file system may return for a successful read
  EIO,
  MAX_PROCESSES,
  PROGRAM_VIRTUAL_ADDRESS,
  PROGRAM_USER_PROGRAM_STACK_SIZE,
  MaxLoads        \* bound on the calls of load_process

ASSUME BlockIsPage ==
  /\ BlockSize = PAGING_PAGE_SIZE
  /\ SIZE_MOD = AddrSpace

VARIABLES
  fread_ok,        \* what the mounted file system returns for a read
  heap,            \* the allocations: [first, len] in blocks
  lost,            \* allocations without a pointer left
  list,            \* head, tail, current and the links of the tasks
  page_directory,  \* of every live task its paging_chunk
  chunks,          \* every live chunk: directory, tables, entries
  procs,           \* the live process structures
  processes,       \* per pid null or a process
  held,            \* processes that a caller got from load_process
  call,            \* the load_process in progress
  ret,             \* what the last one returned
  loads

vars == <<fread_ok, heap, lost, list, page_directory, chunks, procs,
          processes, held, call, ret, loads>>

Addrs == 0 .. (AddrBlocks - 1)
pids  == 0 .. (MAX_PROCESSES - 1)

NoCall == [pc |-> "idle", pid |-> 0, file |-> [kind |-> "missing", size |-> 0],
           proc |-> null, result |-> 0]

Init ==
  /\ fread_ok \in ReadSuccess
  /\ heap = {}
  /\ lost = {}
  /\ list = EmptyList(Addrs)
  /\ page_directory = << >>
  /\ chunks = << >>
  /\ procs = << >>
  /\ processes = [pid \in pids |-> null]
  /\ held = {}
  /\ call = NoCall
  /\ ret = 0
  /\ loads = 0

----------------------------------------------------------------------------
(* The heap as KHeap is shown to be: a set of disjoint runs of blocks that  *)
(* grows at the lowest place that is large enough.  A free of an address   *)
(* where no run starts does nothing.  Within MaxLoads the heap is never    *)
(* full, which LoadsFit says of the constants.                             *)

Fits(h, first, num) ==
  /\ first + num <= TotalEntries
  /\ \A r \in h : r.first + r.len <= first \/ first + num <= r.first

kzalloc(h, size) ==
  LET num   == num_blocks(size)
      first == Min({b \in {0} \cup {r.first + r.len : r \in h} : Fits(h, b, num)})
  IN  [heap |-> h \cup {[first |-> first, len |-> num]},
       addr |-> block_idx_2_block_address(first)]

kfree(h, addr) == {r \in h : r.first # block_address_2_block_idx(addr)}

\* A process, with its array of allocations, is larger than a page; a task
\* and a paging_chunk are smaller.
sizeof_process == PAGING_PAGE_SIZE + 1
sizeof_struct  == 1
sizeof_table   == EntrySize * PAGING_TOTAL_ENTRIES_PER_TABLE

\* The blocks that one load_process asks for.
load_blocks(file) ==
  num_blocks(sizeof_process) + num_blocks(file.size)
    + num_blocks(PROGRAM_USER_PROGRAM_STACK_SIZE) + 2 * num_blocks(sizeof_struct)
    + (PAGING_TOTAL_ENTRIES_PER_TABLE + 1) * num_blocks(sizeof_table)

RequestSizes ==
  {sizeof_process, sizeof_struct, sizeof_table, PROGRAM_USER_PROGRAM_STACK_SIZE}
    \cup {file.size : file \in Files}

(* No size wraps when it is rounded up, and the heap has room for MaxLoads *)
(* calls of load_process of which nothing is given back.                   *)
ASSUME LoadsFit ==
  /\ MaxLoads \in Nat \ {0}
  /\ EINVAL \in Nat \ {0} /\ EIO \in Nat \ {0}
  /\ PROGRAM_VIRTUAL_ADDRESS \in Nat
  /\ \A size \in RequestSizes : size \in Nat /\ size + BlockSize < SIZE_MOD
  /\ \A file \in Files : MaxLoads * load_blocks(file) <= TotalEntries

\* The calls of kfree for addrs, one after the other.  Each takes away the run
\* that starts there and no other, so their order makes no difference.
kfree_all(h, addrs) ==
  {r \in h : \A addr \in addrs : r.first # block_address_2_block_idx(addr)}

\* Memory with one object more, and with one less.
With(f, a, v) == [x \in DOMAIN f \cup {a} |-> IF x = a THEN v ELSE f[x]]
Drop(f, a)    == [x \in DOMAIN f \ {a} |-> f[x]]

\* The loop of paging_new: filled[i] is what i turns of it leave.
new_tables(h) ==
  LET filled[i \in 0 .. PAGING_TOTAL_ENTRIES_PER_TABLE] ==
        IF i = 0 THEN [heap |-> h, tables |-> << >>]
        ELSE LET before == filled[i - 1]
                 new    == kzalloc(before.heap, sizeof_table)
             IN  [heap |-> new.heap, tables |-> Append(before.tables, new.addr)]
  IN  filled[PAGING_TOTAL_ENTRIES_PER_TABLE]

paging_new(h, flags) ==
  LET directory == kzalloc(h, sizeof_table)
      filled    == new_tables(directory.heap)
      chunk     == kzalloc(filled.heap, sizeof_struct)
  IN  [heap  |-> chunk.heap,
       addr  |-> chunk.addr,
       chunk |-> [directory |-> directory.addr,
                  tables    |-> filled.tables,
                  entries   |-> identity(flags)]]

\* A mutant frees the tables but not the directory.
paging_free_tables(chunk) == ToSet(chunks[chunk].tables) \cup {chunk}

\* What paging_free gives to kfree.
paging_free(chunk) == ToSet(chunks[chunk].tables) \cup {chunks[chunk].directory, chunk}

----------------------------------------------------------------------------
(* load_process.                                                           *)

get_process(pid) == IF pid \in pids THEN processes[pid] ELSE -EINVAL

init_process == [pid |-> 0, task |-> null, phys_mem |-> null, size |-> 0, stack |-> null]

MayLoad == call.pc = "idle" /\ loads < MaxLoads

load_refused(pid) ==
  /\ MayLoad
  /\ get_process(pid) # null
  /\ ret' = -EINVAL
  /\ loads' = loads + 1
  /\ UNCHANGED <<fread_ok, heap, lost, list, page_directory, chunks, procs,
                 processes, held, call>>

load_process(pid, file) ==
  /\ MayLoad
  /\ get_process(pid) = null
  /\ LET new == kzalloc(heap, sizeof_process)
     IN  /\ heap' = new.heap
         /\ procs' = With(procs, new.addr, init_process)
         /\ call' = [pc |-> "load", pid |-> pid, file |-> file,
                     proc |-> new.addr, result |-> 0]
  /\ loads' = loads + 1
  /\ UNCHANGED <<fread_ok, lost, list, page_directory, chunks, processes, held, ret>>

Finish(result) == call' = [call EXCEPT !.pc = "out", !.result = result]

\* fopen or fstat fails, and so does fclose: the index is negative, or it is
\* that of a directory.
load_binary_unusable ==
  /\ call.pc = "load"
  /\ call.file.kind # "file"
  /\ Finish(-EINVAL)
  /\ UNCHANGED <<fread_ok, heap, lost, list, page_directory, chunks, procs,
                 processes, held, ret, loads>>

\* An empty file is a read of no blocks.
fread_results == IF call.file.size = 0 THEN {-EINVAL} ELSE {fread_ok, -EIO}

\* A failed read leaves load_binary without giving the buffer back.
load_binary(read) ==
  /\ call.pc = "load"
  /\ call.file.kind = "file"
  /\ LET data == kzalloc(heap, call.file.size)
     IN  /\ heap' = data.heap
         /\ IF read = 1
            THEN /\ procs' = [procs EXCEPT ![call.proc].phys_mem = data.addr,
                                           ![call.proc].size = call.file.size]
                 /\ call' = [call EXCEPT !.pc = "stack"]
                 /\ UNCHANGED lost
            ELSE /\ Finish(-EIO)
                 /\ lost' = lost \cup {data.addr}
                 /\ UNCHANGED procs
  /\ UNCHANGED <<fread_ok, list, page_directory, chunks, processes, held, ret, loads>>

AllocStack ==
  /\ call.pc = "stack"
  /\ LET new == kzalloc(heap, PROGRAM_USER_PROGRAM_STACK_SIZE)
     IN  /\ heap' = new.heap
         /\ procs' = [procs EXCEPT ![call.proc].stack = new.addr,
                                   ![call.proc].pid = call.pid]
  /\ call' = [call EXCEPT !.pc = "task"]
  /\ UNCHANGED <<fread_ok, lost, list, page_directory, chunks, processes, held, ret, loads>>

\* The first task is linked but not returned: load_process takes the null
\* pointer for a result of 0.
new_task ==
  /\ call.pc = "task"
  /\ LET task == kzalloc(heap, sizeof_struct)
         new  == paging_new(task.heap, {PAGING_IS_PRESENT, PAGING_ACCESS_FROM_ALL})
     IN  /\ heap' = new.heap
         /\ chunks' = With(chunks, new.addr, new.chunk)
         /\ page_directory' = With(page_directory, task.addr, new.addr)
         /\ list' = link_task(list, task.addr)
         /\ procs' = [procs EXCEPT ![call.proc].task = linked_task(list, task.addr)]
         /\ IF linked_task(list, task.addr) = null
            THEN Finish(0)
            ELSE call' = [call EXCEPT !.pc = "map"]
  /\ UNCHANGED <<fread_ok, lost, processes, held, ret, loads>>

mmap_binary(proc) ==
  LET phys == proc.phys_mem * BlockSize
  IN  paging_map(chunks[page_directory[proc.task]].entries, PROGRAM_VIRTUAL_ADDRESS,
                 phys, paging_align(phys + proc.size),
                 {PAGING_IS_PRESENT, PAGING_ACCESS_FROM_ALL, PAGING_IS_WRITABLE})

\* The process is registered whether or not it could be mapped.
mmap_process ==
  /\ call.pc = "map"
  /\ LET proc   == procs[call.proc]
         mapped == mmap_binary(proc)
     IN  /\ chunks' = [chunks EXCEPT ![page_directory[proc.task]].entries = mapped.entries]
         /\ Finish(mapped.result)
  /\ processes' = [processes EXCEPT ![call.pid] = call.proc]
  /\ UNCHANGED <<fread_ok, heap, lost, list, page_directory, procs, held, ret, loads>>

\* The allocations that a process structure points to, itself included.
OwnBlocks(p) == {procs[p].phys_mem, procs[p].stack, p} \ {null}

\* What free_task gives to kfree.
free_task(task) == paging_free(page_directory[task]) \cup {task}

\* Nothing ever puts an address into proc->allocations.
free_process(p) ==
  LET task == procs[p].task
  IN  /\ IF task = null
         THEN /\ heap' = kfree_all(heap, OwnBlocks(p))
              /\ UNCHANGED <<list, page_directory, chunks>>
         ELSE /\ heap' = kfree_all(heap, free_task(task) \cup OwnBlocks(p))
              /\ list' = remove_task(list, task)
              /\ chunks' = Drop(chunks, page_directory[task])
              /\ page_directory' = Drop(page_directory, task)
      /\ procs' = Drop(procs, p)

LoadFailed ==
  /\ call.pc = "out"
  /\ call.result < 0
  /\ free_process(call.proc)
  /\ ret' = call.result
  /\ call' = NoCall
  /\ UNCHANGED <<fread_ok, lost, processes, held, loads>>

\* Without a task in the structure it was never registered, and the only
\* pointer to it goes out of scope.
LoadReturned ==
  /\ call.pc = "out"
  /\ call.result >= 0
  /\ IF procs[call.proc].task = null
     THEN lost' = lost \cup OwnBlocks(call.proc) /\ UNCHANGED held
     ELSE held' = held \cup {call.proc} /\ UNCHANGED lost
  /\ ret' = call.result
  /\ call' = NoCall
  /\ UNCHANGED <<fread_ok, heap, list, page_directory, chunks, procs, processes, loads>>

\* A caller gives a process back; processes keeps its address.
ReleaseProcess(p) ==
  /\ call.pc = "idle"
  /\ p \in held
  /\ free_process(p)
  /\ held' = held \ {p}
  /\ UNCHANGED <<fread_ok, lost, processes, call, ret, loads>>

Next ==
  \/ \E pid \in pids \cup {MAX_PROCESSES} :
       load_refused(pid) \/ \E file \in Files : load_process(pid, file)
  \/ load_binary_unusable
  \/ \E read \in fread_results : load_binary(read)
  \/ AllocStack
  \/ new_task
  \/ mmap_process
  \/ LoadFailed
  \/ LoadReturned
  \/ \E p \in held : ReleaseProcess(p)

Spec == Init /\ [][Next]_vars

----------------------------------------------------------------------------
(* Properties.                                                             *)

Forward  == Walk(list.head, list.next, MaxLoads + 1)
Backward == Walk(list.tail, list.prev, MaxLoads + 1)

(* remove_task and new_task keep both directions of the list: the way back *)
(* from tail meets the tasks of the way from head in the opposite order.   *)
ListLinked == Backward = Reverse(Forward)

(* The pointers of the task list are a queue: a new task becomes its last  *)
(* element, a freed one leaves it, and no other task moves or is lost.     *)
Queue == INSTANCE TaskQueue WITH Task <- Addrs, queue <- Forward
ImplementsTaskQueue == Queue!Spec

\* What is reachable: from the processes somebody holds, and from the list.
LiveProcs == held \cup IF call.proc = null THEN {} ELSE {call.proc}

OfTask(t) ==
  {t, page_directory[t], chunks[page_directory[t]].directory}
    \cup ToSet(chunks[page_directory[t]].tables)

Reachable ==
  UNION ({OwnBlocks(p) : p \in LiveProcs} \cup {OfTask(t) : t \in ToSet(Forward)})

Allocated == {block_idx_2_block_address(r.first) : r \in heap}

(* Through every way out of load_process, and free_process: what is on the *)
(* heap is what a process, a task or a page directory in use points to, or *)
(* was dropped where load_binary and the first new_task drop it.  Nothing  *)
(* in use has been freed, and the list leads to no freed task.             *)
ProcessHeapAccounted ==
  /\ Allocated = Reachable \cup lost
  /\ Reachable \cap lost = {}

UserWritable == {PAGING_IS_PRESENT, PAGING_ACCESS_FROM_ALL, PAGING_IS_WRITABLE}

\* The page holds bytes of the program that was loaded for p.
InImage(p, page) ==
  /\ procs[p].phys_mem <= page
  /\ page * BlockSize < procs[p].phys_mem * BlockSize + procs[p].size

(* The page directory of a task lets user code write only to pages that    *)
(* hold the program that was loaded for it, never to another process, a    *)
(* page table or the kernel.                                               *)
UserWritesOwnImage ==
  \A t \in ToSet(Forward) : \A d \in Idx, i \in Idx :
    LET entry == chunks[page_directory[t]].entries[d][i]
    IN  UserWritable \subseteq entry.flags =>
          \E p \in LiveProcs : procs[p].task = t /\ InImage(p, entry.page)

============================================================================
