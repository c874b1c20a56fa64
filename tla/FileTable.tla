----------------------------- MODULE FileTable -----------------------------
(***************************************************************************)
(* The file layer: kernel/fs/file.cpp over fat16_open, fat16_seek,         *)
(* fat16_stat, fat16_close and fat16_resolve of kernel/fs/fat/fat16.cpp.   *)
(* Paths are parsed (PathParser); the contents that fread delivers are the *)
(* subject of Fat16Read.                                                   *)
(*                                                                         *)
(* The kernel heap is counted by the kind of what was allocated.  lost     *)
(* counts the objects to which the code has dropped its last pointer; it   *)
(* changes only where a pointer goes out of scope.                         *)
(***************************************************************************)
EXTENDS Fat16Dir

CONSTANTS
  FS_MAX_FILE_DESCRIPTORS,
  OpenPaths,  \* the paths that callers open
  Drives,     \* the drive numbers in them; only drive 0 is a disk
  Modes,      \* first characters of the mode strings
  Offsets,    \* offsets that callers seek to
  PosMod,     \* 2^32: pos is a uint32_t
  MaxOpens    \* bound on the calls of fopen

\* The table has a size, a path is a sequence of names, a directory one of
\* entries, a cluster holds some, and pos counts modulo the size of its type.
ASSUME FileAssumption ==
  /\ FS_MAX_FILE_DESCRIPTORS \in Nat
  /\ \A path \in OpenPaths : Len(path) \in Nat
  /\ Len(RootEntries) \in Nat
  /\ EntriesPerCluster \in Nat \ {0}
  /\ Offsets \subseteq Int
  /\ PosMod \in Nat \ {0}

VARIABLES
  has_signature,     \* the disk carries the FAT16 signature
  mounted,           \* "no", then "fat16" or "none" after search_and_initialize
  file_descriptors,  \* per index null or the descriptor
  call,              \* the fopen in progress
  ret,               \* what the last call returned, with its out-parameter
  heap, lost,        \* allocations held, and those without a pointer, per kind
  opens              \* calls of fopen so far

vars == <<has_signature, mounted, file_descriptors, call, ret, heap, lost, opens>>

EINVAL == 22
EIO    == 5
EROFS  == 30
ENOMEM == 12

Kinds == {"private", "stream", "path", "desc", "item", "clone", "dir", "items", "fd"}

None == [k \in Kinds |-> 0]
One(ks) == [k \in Kinds |-> IF k \in ks THEN 1 ELSE 0]
Times(n, kind) == [k \in Kinds |-> IF k = kind THEN n ELSE 0]
Plus(f, g)  == [k \in Kinds |-> f[k] + g[k]]
Minus(f, g) == [k \in Kinds |-> f[k] - g[k]]

fds == 0 .. (FS_MAX_FILE_DESCRIPTORS - 1)

\* The flags of a file_stat that the caller has not initialised.
READ_ONLY == 1
AnyFlags == {0, READ_ONLY}

NoStat == [filesize |-> 0, flags |-> 0]
Returns(value) == [value |-> value, stat |-> NoStat]

\* A descriptor: what it was opened for, the item found, the position, and
\* whether fclose has freed what it points to.  fclose clears neither the
\* table entry nor the descriptor.
Null == [path |-> << >>, item |-> NoItem, pos |-> 0, state |-> "null"]

NoCall == [pc |-> "idle", path |-> << >>, part |-> 0, current |-> NoItem]

Init ==
  /\ has_signature \in BOOLEAN
  /\ mounted = "no"
  /\ file_descriptors = [fd \in fds |-> Null]
  /\ call = NoCall
  /\ ret = Returns(0)
  /\ heap = None
  /\ lost = None
  /\ opens = 0

----------------------------------------------------------------------------
(* fat16_resolve.  The private data and its three streams stay if the      *)
(* volume is FAT16; every root item is copied from a clone that is then    *)
(* dropped.  Otherwise all is given back.                                  *)

MountObjects == Plus(One({"private"}), Times(3, "stream"))

RootClones == Times(get_directory_total_items(RootEntries), "clone")

\* A mutant leaves the streams open when the volume is refused.
fat16_resolve_streams ==
  IF has_signature THEN Plus(MountObjects, RootClones) ELSE Times(3, "stream")

fat16_resolve ==
  IF has_signature THEN Plus(MountObjects, RootClones) ELSE None

search_and_initialize ==
  /\ mounted = "no"
  /\ mounted' = IF has_signature THEN "fat16" ELSE "none"
  /\ heap' = Plus(heap, fat16_resolve)
  /\ lost' = IF has_signature THEN Plus(lost, RootClones) ELSE lost
  /\ UNCHANGED <<has_signature, file_descriptors, call, ret, opens>>

----------------------------------------------------------------------------
(* fopen.                                                                  *)

\* strncmp takes any greater character for equal.
str_2_filemode(c) ==
  CASE strncmp1(c, 114) = 0 -> "READ"
    [] strncmp1(c, 114) # 0 /\ strncmp1(c, 119) = 0 -> "WRITE"
    [] strncmp1(c, 114) # 0 /\ strncmp1(c, 119) # 0 /\ strncmp1(c, 97) = 0 -> "APPEND"
    [] OTHER -> "INVALID"

\* The path_root and, per part, the node and its name.  fopen never frees them.
PathObjects(path) == Times(1 + 2 * Len(path), "path")

HasDisk(drive) == drive = 0 /\ mounted = "fat16"

OpenError(drive, mode) ==
  CASE ~HasDisk(drive) -> -EIO
    [] HasDisk(drive) /\ str_2_filemode(mode) = "INVALID" -> -EINVAL
    [] HasDisk(drive) /\ str_2_filemode(mode) \in {"WRITE", "APPEND"} -> -EROFS
    [] OTHER -> 0

MayOpen == call.pc = "idle" /\ mounted # "no" /\ opens < MaxOpens

\* A filename that parse rejects: nothing has been allocated yet.
fopen_invalid ==
  /\ MayOpen
  /\ ret' = Returns(-EINVAL)
  /\ opens' = opens + 1
  /\ UNCHANGED <<has_signature, mounted, file_descriptors, call, heap, lost>>

fopen_refused(drive, path, mode) ==
  /\ MayOpen
  /\ OpenError(drive, mode) < 0
  /\ ret' = Returns(OpenError(drive, mode))
  /\ heap' = Plus(heap, PathObjects(path))
  /\ lost' = Plus(lost, PathObjects(path))
  /\ opens' = opens + 1
  /\ UNCHANGED <<has_signature, mounted, file_descriptors, call>>

\* fat16_open begins with the descriptor.
fopen(drive, path, mode) ==
  /\ MayOpen
  /\ OpenError(drive, mode) = 0
  /\ heap' = Plus(heap, Plus(PathObjects(path), One({"desc"})))
  /\ call' = [pc |-> "walk", path |-> path, part |-> 1, current |-> NoItem]
  /\ opens' = opens + 1
  /\ UNCHANGED <<has_signature, mounted, file_descriptors, ret, lost>>

\* A directory in which get_directory_total_items counts nothing.
LoadsEmpty(e) == e.attr = "dir" /\ get_directory_total_items(Raw[e.cluster]) = 0

\* A mutant of item_free forgets the loaded items.
item_free_noitems(e) ==
  CASE e.attr = "dir" -> One({"item", "dir"})
    [] e.attr = "file" -> One({"item", "clone"})
    [] OTHER -> None

\* What new_item allocates for an entry; kzalloc gives a block even for no items.
new_item(e) ==
  CASE e.attr = "dir" -> One({"item", "dir", "items"})
    [] e.attr = "file" -> One({"item", "clone"})
    [] OTHER -> None

\* directory_free frees the array of items once for every item in it: only the
\* first time has an effect, and without items the array stays.
item_free(e) == IF LoadsEmpty(e) THEN One({"item", "dir"}) ELSE new_item(e)

\* Nothing points to that array once the directory is freed.
Dropped(e) == IF LoadsEmpty(e) THEN One({"items"}) ELSE None

\* The items among which the next part is looked for.
SearchedItems ==
  IF call.part = 1 THEN root_directory ELSE load_directory(call.current.cluster)

CanDescend == call.part = 1 \/ call.current.attr = "dir"

\* A mutant does not move on to the next part.
get_item_same ==
  /\ call.pc = "walk"
  /\ call.part <= Len(call.path)
  /\ CanDescend
  /\ \E next \in {find_item_in_directory(SearchedItems, call.path[call.part])} :
      /\ heap' = Minus(Plus(heap, new_item(next)), item_free(call.current))
      /\ lost' = Plus(lost, Dropped(call.current))
      /\ call' = [call EXCEPT !.current = next,
                              !.pc = IF next = NoItem THEN "fail" ELSE "walk"]
      /\ UNCHANGED <<has_signature, mounted, file_descriptors, ret, opens>>

\* One lookup of get_item: the item of the part replaces the current one.
\* Where it is missing and parts remain, the code looks at the type of a null
\* item: that reads the name of the first root entry, which is stored from
\* address 0 on, and is not the type of a directory.  So a missing part ends
\* the walk like a file does.
get_item ==
  /\ call.pc = "walk"
  /\ call.part <= Len(call.path)
  /\ CanDescend
  /\ \E next \in {find_item_in_directory(SearchedItems, call.path[call.part])} :
      /\ heap' = Minus(Plus(heap, new_item(next)), item_free(call.current))
      /\ lost' = Plus(lost, Dropped(call.current))
      /\ call' = [call EXCEPT !.part    = @ + 1,
                              !.current = next,
                              !.pc = IF next = NoItem THEN "fail" ELSE "walk"]
      /\ UNCHANGED <<has_signature, mounted, file_descriptors, ret, opens>>

\* The walk met a file with parts left: get_item drops it.
NotADirectory ==
  /\ call.pc = "walk"
  /\ call.part <= Len(call.path)
  /\ ~CanDescend
  /\ lost' = Plus(lost, new_item(call.current))
  /\ call' = [call EXCEPT !.pc = "fail"]
  /\ UNCHANGED <<has_signature, mounted, file_descriptors, ret, heap, opens>>

\* fat16_open drops its descriptor, and fopen the path.
OpenFailed ==
  /\ call.pc = "fail"
  /\ ret' = Returns(-EIO)
  /\ lost' = Plus(lost, Plus(PathObjects(call.path), One({"desc"})))
  /\ call' = NoCall
  /\ UNCHANGED <<has_signature, mounted, file_descriptors, heap, opens>>

FreeSlots == {fd \in fds : file_descriptors[fd].state = "null"}

WalkDone == call.pc = "walk" /\ call.part > Len(call.path)

new_file_descriptor ==
  /\ WalkDone
  /\ FreeSlots # {}
  /\ LET fd == Min(FreeSlots)
     IN  /\ file_descriptors' = [file_descriptors EXCEPT ![fd] =
                [path |-> call.path, item |-> call.current, pos |-> 0, state |-> "open"]]
         /\ ret' = Returns(fd)
  /\ heap' = Plus(heap, One({"fd"}))
  /\ lost' = Plus(lost, PathObjects(call.path))
  /\ call' = NoCall
  /\ UNCHANGED <<has_signature, mounted, opens>>

\* No index is left: what fat16_open returned is dropped.
TableFull ==
  /\ WalkDone
  /\ FreeSlots = {}
  /\ ret' = Returns(-ENOMEM)
  /\ lost' = Plus(lost, Plus(PathObjects(call.path),
                             Plus(One({"desc"}), new_item(call.current))))
  /\ call' = NoCall
  /\ UNCHANGED <<has_signature, mounted, file_descriptors, heap, opens>>

----------------------------------------------------------------------------
(* Calls on a descriptor.  Callers use an index that is open, or one that  *)
(* was never handed out; none uses one it has closed.                      *)

Usable(fd) == call.pc = "idle" /\ (fd \in fds => file_descriptors[fd].state # "closed")

IsFile(fd) == file_descriptors[fd].item.attr = "file"

HasFile(fd) == fd \in fds /\ file_descriptors[fd].state = "open" /\ IsFile(fd)

\* get_file_descriptor finds nothing, or the item is a directory.
RefuseFd(fd) ==
  /\ Usable(fd)
  /\ ~HasFile(fd)
  /\ ret' = Returns(-EINVAL)
  /\ UNCHANGED <<has_signature, mounted, file_descriptors, call, heap, lost, opens>>

\* The data is the subject of Fat16Read; the position stays where it is.
fread(fd, total) ==
  /\ Usable(fd)
  /\ HasFile(fd)
  /\ \E value \in IF total = 0 THEN {-EINVAL} ELSE {0, -EIO} : ret' = Returns(value)
  /\ UNCHANGED <<has_signature, mounted, file_descriptors, call, heap, lost, opens>>

fseek(fd, offset, whence) ==
  /\ Usable(fd)
  /\ HasFile(fd)
  /\ LET pos == CASE whence = "SEEK_SET" -> offset % PosMod
                  [] whence = "SEEK_CURRENT" -> (file_descriptors[fd].pos + offset) % PosMod
                  [] OTHER -> file_descriptors[fd].pos
     IN  file_descriptors' = [file_descriptors EXCEPT ![fd].pos = pos]
  /\ ret' = Returns(IF whence = "SEEK_END" THEN -EINVAL ELSE 0)
  /\ UNCHANGED <<has_signature, mounted, call, heap, lost, opens>>

\* fat16_stat sets the flags of a read-only file and leaves the caller's
\* flags, which no caller initialises, for any other file.
fstat(fd) ==
  /\ Usable(fd)
  /\ HasFile(fd)
  /\ LET item == file_descriptors[fd].item
     IN  \E flags \in IF item.ro THEN {READ_ONLY} ELSE AnyFlags :
           ret' = [value |-> 0, stat |-> [filesize |-> item.filesize, flags |-> flags]]
  /\ UNCHANGED <<has_signature, mounted, file_descriptors, call, heap, lost, opens>>

\* A mutant of fclose leaves the descriptor open to a second close.
fclose_open(fd) ==
  /\ Usable(fd)
  /\ HasFile(fd)
  /\ heap' = Minus(heap, Plus(One({"desc"}), item_free(file_descriptors[fd].item)))
  /\ ret' = Returns(0)
  /\ UNCHANGED <<has_signature, mounted, file_descriptors, call, lost, opens>>

\* A mutant of fclose frees the descriptor but not the item.
fclose_desc(fd) ==
  /\ Usable(fd)
  /\ HasFile(fd)
  /\ heap' = Minus(heap, One({"desc"}))
  /\ file_descriptors' = [file_descriptors EXCEPT ![fd].state = "closed"]
  /\ ret' = Returns(0)
  /\ UNCHANGED <<has_signature, mounted, call, lost, opens>>

fclose(fd) ==
  /\ Usable(fd)
  /\ HasFile(fd)
  /\ heap' = Minus(heap, Plus(One({"desc"}), item_free(file_descriptors[fd].item)))
  /\ file_descriptors' = [file_descriptors EXCEPT ![fd].state = "closed"]
  /\ ret' = Returns(0)
  /\ UNCHANGED <<has_signature, mounted, call, lost, opens>>

----------------------------------------------------------------------------
Opening == get_item \/ NotADirectory \/ OpenFailed \/ new_file_descriptor \/ TableFull

OnDescriptor ==
  \E fd \in fds \cup {-1} :
    \/ RefuseFd(fd)
    \/ \E total \in {0, 1} : fread(fd, total)
    \/ fstat(fd)
    \/ \E offset \in Offsets, whence \in {"SEEK_SET", "SEEK_CURRENT", "SEEK_END"} :
         fseek(fd, offset, whence)
    \/ fclose(fd)

Next ==
  \/ search_and_initialize
  \/ fopen_invalid
  \/ \E drive \in Drives, path \in OpenPaths, mode \in Modes :
       fopen(drive, path, mode) \/ fopen_refused(drive, path, mode)
  \/ Opening
  \/ OnDescriptor

Spec == Init /\ [][Next]_vars

\* Nothing interrupts fopen; each of its steps changes call.
FairSpec == Spec /\ WF_call(Opening)

----------------------------------------------------------------------------
(* Type invariant; no kind of object is ever freed more often than it was  *)
(* allocated.                                                              *)
TypeOK ==
  /\ mounted \in {"no", "fat16", "none"}
  /\ \A fd \in fds : /\ file_descriptors[fd].pos \in 0 .. (PosMod - 1)
                     /\ file_descriptors[fd].state \in {"null", "open", "closed"}
  /\ call.pc \in {"idle", "walk", "fail"}
  /\ heap \in [Kinds -> Nat]
  /\ lost \in [Kinds -> Nat]

\* The objects that the code still has a pointer to, by what refers to them.
HeldBy(d) ==
  CASE d.state = "open" -> Plus(One({"fd", "desc"}), new_item(d.item))
    [] d.state = "closed" -> One({"fd"})
    [] OTHER -> None

\* The sum of a function over the indices of the table.
TableSum(f) ==
  LET sum[i \in 0 .. FS_MAX_FILE_DESCRIPTORS] ==
        IF i = 0 THEN 0 ELSE sum[i - 1] + f[i - 1]
  IN  sum[FS_MAX_FILE_DESCRIPTORS]

HeldByMount == IF mounted = "fat16" THEN MountObjects ELSE None

HeldByCall ==
  CASE call.pc = "walk" -> Plus(Plus(PathObjects(call.path), One({"desc"})),
                                new_item(call.current))
    [] call.pc = "fail" -> Plus(PathObjects(call.path), One({"desc"}))
    [] OTHER -> None

(* Every allocation is either reachable or was dropped by one of the       *)
(* returns that drop a pointer: no other path through open, lookup, close  *)
(* and mount leaks, and nothing reachable has been freed.                  *)
HeapAccounted ==
  \A k \in Kinds :
    heap[k] = lost[k] + HeldByMount[k] + HeldByCall[k]
              + TableSum([fd \in fds |-> HeldBy(file_descriptors[fd])[k]])

\* A volume on which the walk of get_item is right: subdirectories that
\* load_directory loads whole, and names that strcasecmp tells apart from
\* every name that is looked for.
VolumeReadable ==
  /\ IsVolume
  /\ DirectoriesLoad
  /\ \A path \in OpenPaths :
       /\ path \in Seq(Seq(Int) \ {<< >>}) \ {<< >>}
       /\ \A k \in 1 .. Len(path) :
            /\ TellsApart(RootEntries, path[k])
            /\ \A c \in DOMAIN SubDirs : TellsApart(SubDirs[c], path[k])

(* An open descriptor refers to the entry its path names on the volume.    *)
OpensWhatPathNames ==
  \A fd \in fds :
    file_descriptors[fd].state = "open" =>
      file_descriptors[fd].item = Resolve(file_descriptors[fd].path)

(* get_item gives up only on a path that names nothing on the volume.      *)
FailsOnlyIfAbsent == call.pc = "fail" => Resolve(call.path) = NoItem

(* fopen returns.                                                          *)
OpenReturns == []<>(call.pc = "idle")

============================================================================
