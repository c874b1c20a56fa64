------------------------------ MODULE Fat16Dir ------------------------------
(***************************************************************************)
(* Directories of a FAT16 volume and the search for a name in them:        *)
(* kernel/fs/fat/fat16.cpp, with the string functions of libc it uses.     *)
(*                                                                         *)
(* A name is the sequence of the character codes that get_filename puts    *)
(* together from filename and ext.  A directory is the sequence of its raw *)
(* entries up to the first one without a name.  Those of a subdirectory    *)
(* lie along its chain of clusters; the code counts entries on the disk    *)
(* from its first cluster on, whatever the clusters that follow hold.      *)
(***************************************************************************)
EXTENDS Integers, Sequences, FiniteSetsExt

CONSTANTS
  RootEntries,   \* raw entries of the root directory
  SubDirs,       \* for every first cluster of a subdirectory its raw entries
  Raw,           \* and the raw entries that follow each other on the disk
  EntriesPerCluster

DELETED == -27   \* 0xE5 as a char, first in the name of an unused entry

----------------------------------------------------------------------------
(* libc/ctype.cpp and libc/string.cpp.                                     *)

tolower(ch) == IF ch > 64 /\ ch < 91 THEN ch + 32 ELSE ch

\* A correct comparison, as string.h describes it.
strcasecmp_fixed(str1, str2) ==
  IF /\ Len(str1) = Len(str2)
     /\ \A i \in 1 .. Len(str1) : tolower(str1[i]) = tolower(str2[i])
  THEN 0 ELSE -1

\* A mutant compares only as far as the shorter string.
strcasecmp_prefix(str1, str2) ==
  IF \E i \in 1 .. Min({Len(str1), Len(str2)}) : tolower(str1[i]) < tolower(str2[i])
  THEN -1 ELSE 0

\* The loop stops where a string ends or where the first string is smaller;
\* both tests of a character ask whether the second one is greater.
strcasecmp(str1, str2) ==
  LET stop == Min({i \in 1 .. (Min({Len(str1), Len(str2)}) + 1) :
                     \/ i > Len(str1)
                     \/ i > Len(str2)
                     \/ tolower(str1[i]) < tolower(str2[i])})
  IN  CASE stop > Len(str1) /\ stop > Len(str2) -> 0
        [] stop > Len(str1) /\ stop <= Len(str2) -> -1
        [] stop <= Len(str1) /\ stop > Len(str2) -> 1
        [] OTHER -> -1

\* strncmp of one character of a non-empty string.
strncmp1(c1, c2) == IF c1 < c2 THEN -1 ELSE 0

----------------------------------------------------------------------------
(* Directories.                                                            *)

Unused(e) == e.name[1] = DELETED

\* The entries in use among the first i, as the loop copies them.
InUse(entries) ==
  LET copied[i \in 0 .. Len(entries)] ==
        IF i = 0 THEN << >>
        ELSE IF Unused(entries[i]) THEN copied[i - 1]
             ELSE Append(copied[i - 1], entries[i])
  IN  copied[Len(entries)]

get_directory_total_items(entries) ==
  Cardinality({i \in 1 .. Len(entries) : ~Unused(entries[i])})

\* get_root_directory copies the entries that are in use.
root_directory == InUse(RootEntries)

\* What kzalloc leaves of an item that no pass of read_internal writes.
Zeroed == [name |-> << >>, attr |-> "file", cluster |-> 0, filesize |-> 0, ro |-> FALSE]

\* A mutant of load_directory reads one item too few.
load_directory_short(cluster) ==
  [i \in 1 .. (get_directory_total_items(Raw[cluster]) - 1) |->
     IF i <= EntriesPerCluster THEN Raw[cluster][i] ELSE Zeroed]

\* load_directory counts the entries in use and reads as many raw entries;
\* every pass of read_internal reads the first cluster to the same place.
load_directory(cluster) ==
  [i \in 1 .. get_directory_total_items(Raw[cluster]) |->
     IF i <= EntriesPerCluster THEN Raw[cluster][i] ELSE Zeroed]

NoItem == [name |-> << >>, attr |-> "none", cluster |-> 0, filesize |-> 0, ro |-> FALSE]

find_item_in_directory(items, name) ==
  LET found == {i \in 1 .. Len(items) : strcasecmp(items[i].name, name) = 0}
  IN  IF found = {} THEN NoItem ELSE items[Min(found)]

----------------------------------------------------------------------------
(* What a path means on the volume: the entry in use that has the name.    *)

Entry == [name : Seq(Int) \ {<< >>}, attr : {"file", "dir"}, cluster : Nat,
          filesize : Nat, ro : BOOLEAN]

\* Every directory that an entry refers to is there, and its first cluster is
\* what the disk holds from there on.
IsVolume ==
  /\ RootEntries \in Seq(Entry)
  /\ \A c \in DOMAIN SubDirs : SubDirs[c] \in Seq(Entry) /\ Raw[c] \in Seq(Entry)
  /\ \A c \in DOMAIN SubDirs : \A i \in 1 .. EntriesPerCluster :
       /\ i <= Len(SubDirs[c]) <=> i <= Len(Raw[c])
       /\ i <= Len(SubDirs[c]) => SubDirs[c][i] = Raw[c][i]
  /\ \A i \in 1 .. Len(RootEntries) :
       RootEntries[i].attr = "dir" => RootEntries[i].cluster \in DOMAIN SubDirs
  /\ \A c \in DOMAIN SubDirs : \A i \in 1 .. Len(SubDirs[c]) :
       SubDirs[c][i].attr = "dir" => SubDirs[c][i].cluster \in DOMAIN SubDirs

\* A subdirectory has one cluster, and its unused entries come last, where
\* load_directory, which reads as many entries as it counts, does not reach
\* them.  Other subdirectories are loaded in part.
DirectoriesLoad ==
  \A c \in DOMAIN SubDirs :
    /\ Len(SubDirs[c]) <= EntriesPerCluster
    /\ \A i \in 1 .. Len(SubDirs[c]) :
         Unused(SubDirs[c][i]) <=> i > get_directory_total_items(Raw[c])

SameName(n1, n2) == strcasecmp_fixed(n1, n2) = 0

\* An entry in use with another name of the same length has a character that
\* is smaller than that of the name: only these does strcasecmp tell apart.
TellsApart(entries, name) ==
  \A i \in 1 .. Len(entries) :
    ~Unused(entries[i]) /\ Len(entries[i].name) = Len(name)
      => \/ SameName(entries[i].name, name)
         \/ \E k \in 1 .. Len(name) : tolower(entries[i].name[k]) < tolower(name[k])

Lookup(entries, name) ==
  LET found == {i \in 1 .. Len(entries) :
                  ~Unused(entries[i]) /\ SameName(entries[i].name, name)}
  IN  IF found = {} THEN NoItem ELSE entries[Min(found)]

Resolve(path) ==
  LET step[k \in 1 .. Len(path)] ==
        IF k = 1 THEN Lookup(RootEntries, path[1])
        ELSE IF step[k - 1].attr = "dir"
             THEN Lookup(SubDirs[step[k - 1].cluster], path[k])
             ELSE NoItem
  IN  step[Len(path)]

============================================================================
