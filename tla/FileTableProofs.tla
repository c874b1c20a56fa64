-------------------------- MODULE FileTableProofs --------------------------
(***************************************************************************)
(* The descriptor table and the heap objects of the file layer, for every  *)
(* volume, every size of the table and every sequence of calls; and what a *)
(* path leads to, for every volume on which names can be told apart.       *)
(***************************************************************************)
EXTENDS FileTable, Numbers, FiniteSetTheorems

(* Every entry of the table is a descriptor, and what fopen has on its     *)
(* stack is whole; its path is one while it walks.                         *)
IsDescriptor(d) ==
  /\ d = [path |-> d.path, item |-> d.item, pos |-> d.pos, state |-> d.state]
  /\ d.pos \in 0 .. (PosMod - 1)
  /\ d.state \in {"null", "open", "closed"}

Table ==
  /\ file_descriptors = [fd \in fds |-> file_descriptors[fd]]
  /\ \A fd \in fds : IsDescriptor(file_descriptors[fd])

Call ==
  /\ call = [pc |-> call.pc, path |-> call.path, part |-> call.part, current |-> call.current]
  /\ call.pc \in {"idle", "walk", "fail"}
  /\ call.pc # "idle" => Len(call.path) \in Nat

Inv == TypeOK /\ Table /\ Call /\ HeapAccounted

----------------------------------------------------------------------------
(* Sums over the table.                                                    *)

(* The sum of the table is the last of its partial sums.                   *)
LEMMA PartialSums ==
  ASSUME NEW f \in [fds -> Int]
  PROVE  \E s \in [0 .. FS_MAX_FILE_DESCRIPTORS -> Int] :
           /\ s[0] = 0
           /\ \A i \in fds : s[i + 1] = s[i] + f[i]
           /\ TableSum(f) = s[FS_MAX_FILE_DESCRIPTORS]
<1> DEFINE N == FS_MAX_FILE_DESCRIPTORS
           D == 0 .. N
           body(s) == [i \in D |-> IF i = 0 THEN 0 ELSE s[i - 1] + f[i - 1]]
           sum == CHOOSE s : s = body(s)
           g == [p \in Nat \X Int |-> p[2] + IF p[1] \in fds THEN f[p[1]] ELSE 0]
<1>1. N \in Nat
  BY FileAssumption
<1>2. 0 \in Int /\ g \in Steps(Int)
  BY DEF Steps
<1>3. PICK h : IsIteration(h, Int, 0, g)
  <2> HIDE DEF g
  <2>1. QED
    BY <1>2, IterationExists
<1> DEFINE t == [i \in D |-> h[i]]
<1>4. t = body(t)
  <2>1. ASSUME NEW i \in D
        PROVE  t[i] = IF i = 0 THEN 0 ELSE t[i - 1] + f[i - 1]
    <3>1. i \in Nat /\ h[i] = IF i = 0 THEN 0 ELSE g[<<i - 1, h[i - 1]>>]
      BY <1>1, <1>3 DEF IsIteration
    <3>2. i # 0 => i - 1 \in Nat /\ i - 1 \in D /\ i - 1 \in fds /\ h[i - 1] \in Int
      BY <1>1, <1>3 DEF IsIteration, fds
    <3>3. QED
      BY <3>1, <3>2
  <2>2. QED
    BY <2>1
<1> HIDE DEF t
<1>5. sum = body(sum)
  BY <1>4
<1>6. TableSum(f) = sum[N]
  BY DEF TableSum
<1> HIDE DEF sum
<1>7. \A i \in D : sum[i] = IF i = 0 THEN 0 ELSE sum[i - 1] + f[i - 1]
  BY <1>5
<1>8. sum[0] = 0 /\ \A i \in fds : sum[i + 1] = sum[i] + f[i]
  <2>1. 0 \in D /\ \A i \in fds : i \in Int /\ i + 1 \in D /\ i + 1 # 0 /\ (i + 1) - 1 = i
    BY <1>1 DEF fds
  <2>2. QED
    BY <1>7, <2>1
<1>9. \A i \in D : sum[i] \in Int
  <2> DEFINE A == {i \in Nat : i <= N => sum[i] \in Int}
  <2>1. 0 \in A
    BY <1>8
  <2>2. ASSUME NEW i \in A PROVE i + 1 \in A
    <3>1. i + 1 <= N => i \in fds /\ f[i] \in Int /\ sum[i] \in Int
      BY <1>1 DEF fds
    <3>2. QED
      BY <1>8, <3>1
  <2>3. A \in SUBSET Nat
    OBVIOUS
  <2>4. A = Nat
    <3> HIDE DEF A
    <3>1. QED
      BY <2>1, <2>2, <2>3, SetInduction
  <2>5. QED
    BY <1>1, <2>4
<1>10. sum \in [D -> Int]
  BY <1>5, <1>9
<1>11. QED
  BY <1>6, <1>8, <1>10

(* Changing one entry changes the sum by the difference.                   *)
LEMMA SumOfUpdate ==
  ASSUME NEW f \in [fds -> Int], NEW fd \in fds, NEW v \in Int
  PROVE  TableSum([f EXCEPT ![fd] = v]) = (TableSum(f) - f[fd]) + v
<1> DEFINE N == FS_MAX_FILE_DESCRIPTORS
           g == [f EXCEPT ![fd] = v]
<1>1. N \in Nat /\ fd \in Nat /\ fd < N /\ f[fd] \in Int
  BY FileAssumption DEF fds
<1>2. PICK s \in [0 .. N -> Int] :
        /\ s[0] = 0
        /\ \A i \in fds : s[i + 1] = s[i] + f[i]
        /\ TableSum(f) = s[N]
  BY PartialSums
<1>3. g \in [fds -> Int] /\ \A i \in fds : g[i] = IF i = fd THEN v ELSE f[i]
  OBVIOUS
<1> HIDE DEF g
<1>4. PICK t \in [0 .. N -> Int] :
        /\ t[0] = 0
        /\ \A i \in fds : t[i + 1] = t[i] + g[i]
        /\ TableSum(g) = t[N]
  BY <1>3, PartialSums
<1> DEFINE A == {i \in Nat : i <= N => t[i] = s[i] + IF fd < i THEN v - f[fd] ELSE 0}
<1>5. 0 \in A
  BY <1>1, <1>2, <1>4
<1>6. ASSUME NEW i \in A PROVE i + 1 \in A
  <2>1. CASE i + 1 <= N
    <3>1. i \in fds /\ i \in Nat /\ s[i] \in Int /\ t[i] \in Int /\ f[i] \in Int
      BY <1>1, <2>1 DEF fds
    <3>2. t[i] = s[i] + IF fd < i THEN v - f[fd] ELSE 0
      BY <1>1, <2>1
    <3>3. s[i + 1] = s[i] + f[i] /\ t[i + 1] = t[i] + IF i = fd THEN v ELSE f[i]
      BY <1>2, <1>3, <1>4, <3>1
    <3>4. CASE i = fd
      BY <1>1, <3>1, <3>2, <3>3, <3>4
    <3>5. CASE i # fd
      <4>1. (fd < i + 1) = (fd < i)
        BY <1>1, <3>1, <3>5
      <4>2. t[i + 1] = s[i + 1] + IF fd < i THEN v - f[fd] ELSE 0
        <5>1. s[i + 1] = s[i] + f[i] /\ t[i + 1] = t[i] + f[i]
          BY <3>3, <3>5
        <5>2. CASE fd < i
          BY <1>1, <3>1, <3>2, <5>1, <5>2
        <5>3. CASE ~(fd < i)
          BY <3>1, <3>2, <5>1, <5>3
        <5>4. QED
          BY <5>2, <5>3
      <4>3. QED
        BY <3>1, <4>1, <4>2
    <3>6. QED
      BY <3>4, <3>5
  <2>2. CASE ~(i + 1 <= N)
    BY <2>2
  <2>3. QED
    BY <2>1, <2>2
<1>7. A \in SUBSET Nat
  OBVIOUS
<1>8. A = Nat
  <2> HIDE DEF A
  <2>1. QED
    BY <1>5, <1>6, <1>7, SetInduction
<1>9. t[N] = s[N] + (v - f[fd]) /\ s[N] \in Int
  <2>1. N \in A
    BY <1>1, <1>8
  <2>2. t[N] = s[N] + IF fd < N THEN v - f[fd] ELSE 0
    BY <1>1, <2>1
  <2>3. QED
    BY <1>1, <2>2
<1>10. QED
  BY <1>1, <1>2, <1>4, <1>9 DEF g

(* A sum of numbers is one, and a sum of zeros is zero.                    *)
LEMMA SumOfNats ==
  ASSUME NEW f \in [fds -> Nat]
  PROVE  TableSum(f) \in Nat /\ ((\A i \in fds : f[i] = 0) => TableSum(f) = 0)
<1> DEFINE N == FS_MAX_FILE_DESCRIPTORS
<1>1. N \in Nat /\ f \in [fds -> Int]
  BY FileAssumption
<1>2. PICK s \in [0 .. N -> Int] :
        /\ s[0] = 0
        /\ \A i \in fds : s[i + 1] = s[i] + f[i]
        /\ TableSum(f) = s[N]
  BY <1>1, PartialSums
<1> DEFINE A == {i \in Nat : i <= N => s[i] >= 0 /\ ((\A j \in fds : f[j] = 0) => s[i] = 0)}
<1>3. 0 \in A
  BY <1>2
<1>4. ASSUME NEW i \in A PROVE i + 1 \in A
  <2>1. CASE i + 1 <= N
    <3>1. i \in fds /\ i \in Nat /\ s[i] \in Int /\ f[i] \in Nat
      BY <1>1, <2>1 DEF fds
    <3>2. s[i + 1] = s[i] + f[i] /\ s[i] >= 0 /\ ((\A j \in fds : f[j] = 0) => s[i] = 0)
      BY <1>1, <1>2, <2>1, <3>1
    <3>3. QED
      BY <3>1, <3>2
  <2>2. CASE ~(i + 1 <= N)
    BY <2>2
  <2>3. QED
    BY <2>1, <2>2
<1>5. A \in SUBSET Nat
  OBVIOUS
<1>6. A = Nat
  <2> HIDE DEF A
  <2>1. QED
    BY <1>3, <1>4, <1>5, SetInduction
<1>7. QED
  BY <1>1, <1>2, <1>6

----------------------------------------------------------------------------
(* What things count on the heap.                                          *)

LEMMA CountsAreNats ==
  /\ None \in [Kinds -> Nat]
  /\ \A ks : One(ks) \in [Kinds -> Nat]
  /\ \A n \in Nat : \A kind : Times(n, kind) \in [Kinds -> Nat]
  /\ \A f \in [Kinds -> Nat], g \in [Kinds -> Nat] : Plus(f, g) \in [Kinds -> Nat]
<1>1. None \in [Kinds -> Nat]
  BY DEF None
<1>2. ASSUME NEW ks PROVE One(ks) \in [Kinds -> Nat]
  BY DEF One
<1>3. ASSUME NEW n \in Nat, NEW kind PROVE Times(n, kind) \in [Kinds -> Nat]
  BY DEF Times
<1>4. ASSUME NEW f \in [Kinds -> Nat], NEW g \in [Kinds -> Nat]
      PROVE  Plus(f, g) \in [Kinds -> Nat]
  BY DEF Plus
<1>5. QED
  BY <1>1, <1>2, <1>3, <1>4

LEMMA ItemsAreNats == \A e : new_item(e) \in [Kinds -> Nat]
<1>1. ASSUME NEW e PROVE new_item(e) \in [Kinds -> Nat]
  <2>1. CASE e.attr = "dir"
    BY <2>1, CountsAreNats DEF new_item
  <2>2. CASE e.attr = "file"
    BY <2>2, CountsAreNats DEF new_item
  <2>3. CASE e.attr # "dir" /\ e.attr # "file"
    BY <2>3, CountsAreNats DEF new_item
  <2>4. QED
    BY <2>1, <2>2, <2>3
<1>2. QED
  BY <1>1

(* item_free gives back what new_item allocated but for what it drops.     *)
LEMMA FreedAndDropped ==
  \A e : /\ Dropped(e) \in [Kinds -> Nat]
         /\ \A k \in Kinds : item_free(e)[k] = new_item(e)[k] - Dropped(e)[k]
<1>1. ASSUME NEW e, LoadsEmpty(e)
      PROVE  /\ Dropped(e) \in [Kinds -> Nat]
             /\ \A k \in Kinds : item_free(e)[k] = new_item(e)[k] - Dropped(e)[k]
  <2>1. /\ Dropped(e) = One({"items"})
        /\ item_free(e) = One({"item", "dir"})
        /\ new_item(e) = One({"item", "dir", "items"})
    BY <1>1 DEF Dropped, item_free, new_item, LoadsEmpty
  <2>2. ASSUME NEW k \in Kinds
        PROVE  One({"item", "dir"})[k] = One({"item", "dir", "items"})[k] - One({"items"})[k]
    BY DEF One
  <2>3. QED
    BY <2>1, <2>2, CountsAreNats
<1>2. ASSUME NEW e, ~LoadsEmpty(e)
      PROVE  /\ Dropped(e) \in [Kinds -> Nat]
             /\ \A k \in Kinds : item_free(e)[k] = new_item(e)[k] - Dropped(e)[k]
  <2>1. Dropped(e) = None /\ item_free(e) = new_item(e)
    BY <1>2 DEF Dropped, item_free
  <2>2. \A k \in Kinds : None[k] = 0 /\ new_item(e)[k] \in Nat
    BY ItemsAreNats DEF None
  <2>3. QED
    BY <2>1, <2>2, CountsAreNats
<1>3. QED
  BY <1>1, <1>2

(* Nothing is dropped of a file.                                           *)
LEMMA FilesAreFreed ==
  ASSUME NEW e, e.attr = "file"
  PROVE  item_free(e) = new_item(e)
  BY DEF item_free, LoadsEmpty

(* Nothing is allocated for an item that is not there.                     *)
LEMMA NoItemIsNone == new_item(NoItem) = None
  BY DEF new_item, NoItem

LEMMA DescriptorsAreNats == \A d : HeldBy(d) \in [Kinds -> Nat]
<1>1. ASSUME NEW d PROVE HeldBy(d) \in [Kinds -> Nat]
  <2>1. CASE d.state = "open"
    BY <2>1, CountsAreNats, ItemsAreNats DEF HeldBy
  <2>2. CASE d.state = "closed"
    BY <2>2, CountsAreNats DEF HeldBy
  <2>3. CASE d.state # "open" /\ d.state # "closed"
    BY <2>3, CountsAreNats DEF HeldBy
  <2>4. QED
    BY <2>1, <2>2, <2>3
<1>2. QED
  BY <1>1

LEMMA PathsAreNats ==
  ASSUME NEW p, Len(p) \in Nat
  PROVE  PathObjects(p) \in [Kinds -> Nat]
<1>1. 1 + 2 * Len(p) \in Nat
  OBVIOUS
<1>2. QED
  BY <1>1, CountsAreNats DEF PathObjects

LEMMA MountIsNat ==
  /\ MountObjects \in [Kinds -> Nat]
  /\ RootClones \in [Kinds -> Nat]
<1>1. get_directory_total_items(RootEntries) \in Nat
  <2> DEFINE S == {i \in 1 .. Len(RootEntries) : ~Unused(RootEntries[i])}
  <2>1. IsFiniteSet(1 .. Len(RootEntries))
    BY FileAssumption, FS_Interval
  <2>2. IsFiniteSet(S)
    BY <2>1, FS_Subset
  <2>3. QED
    BY <2>2, FS_CardinalityType DEF get_directory_total_items
<1>2. QED
  BY <1>1, CountsAreNats DEF MountObjects, RootClones

(* What the entries of the table refer to.                                 *)
TableHeld(k) == TableSum([fd \in fds |-> HeldBy(file_descriptors[fd])[k]])

(* What is still referred to is a number of objects.                       *)
HeldNat ==
  \A k \in Kinds : HeldByMount[k] \in Nat /\ HeldByCall[k] \in Nat /\ TableHeld(k) \in Nat

LEMMA HeldIsNat == Call => HeldNat
<1> SUFFICES ASSUME Call, NEW k \in Kinds
             PROVE  HeldByMount[k] \in Nat /\ HeldByCall[k] \in Nat /\ TableHeld(k) \in Nat
  BY DEF HeldNat
<1>1. HeldByMount[k] \in Nat
  BY MountIsNat, CountsAreNats DEF HeldByMount
<1>2. HeldByCall[k] \in Nat
  <2>1. call.pc # "idle" => Plus(PathObjects(call.path), One({"desc"})) \in [Kinds -> Nat]
    <3>1. call.pc # "idle" => PathObjects(call.path) \in [Kinds -> Nat]
      BY PathsAreNats DEF Call
    <3>2. QED
      BY <3>1, CountsAreNats
  <2>2. CASE call.pc = "walk"
    <3>1. Plus(Plus(PathObjects(call.path), One({"desc"})), new_item(call.current))
            \in [Kinds -> Nat]
      BY <2>1, <2>2, CountsAreNats, ItemsAreNats
    <3>2. QED
      BY <2>2, <3>1 DEF HeldByCall
  <2>3. CASE call.pc = "fail"
    BY <2>1, <2>3 DEF HeldByCall
  <2>4. CASE call.pc # "walk" /\ call.pc # "fail"
    BY <2>4, CountsAreNats DEF HeldByCall
  <2>5. QED
    BY <2>2, <2>3, <2>4
<1>3. [fd \in fds |-> HeldBy(file_descriptors[fd])[k]] \in [fds -> Nat]
  BY DescriptorsAreNats
<1>4. QED
  BY <1>1, <1>2, <1>3, SumOfNats DEF TableHeld

----------------------------------------------------------------------------
(* The table and the call.                                                 *)

(* The index that new_file_descriptor takes is one of a null entry.        *)
LEMMA FreeSlotIsNull ==
  ASSUME FreeSlots # {}
  PROVE  Min(FreeSlots) \in fds /\ file_descriptors[Min(FreeSlots)].state = "null"
<1>1. FreeSlots \in SUBSET Nat
  BY FileAssumption DEF FreeSlots, fds
<1>2. Min(FreeSlots) \in FreeSlots
  BY <1>1, MinOfNats
<1>3. QED
  BY <1>2 DEF FreeSlots

LEMMA CallStep ==
  ASSUME Call, [Next]_vars
  PROVE  Call'
<1>1. CASE \E drive \in Drives, path \in OpenPaths, mode \in Modes : fopen(drive, path, mode)
  BY <1>1, FileAssumption DEF Call, fopen
<1>2. CASE get_item
  BY <1>2 DEF Call, get_item
<1>3. CASE NotADirectory
  BY <1>3 DEF Call, NotADirectory
<1>4. CASE OpenFailed \/ new_file_descriptor \/ TableFull
  BY <1>4 DEF Call, OpenFailed, new_file_descriptor, TableFull, NoCall
<1>5. CASE UNCHANGED call
  BY <1>5 DEF Call
<1>6. QED
  BY <1>1, <1>2, <1>3, <1>4, <1>5 DEF Next, Opening, OnDescriptor, search_and_initialize,
     fopen_invalid, fopen_refused, RefuseFd, fread, fstat, fseek, fclose, vars

(* A position is in range after every seek.                                *)
LEMMA PositionInRange ==
  ASSUME NEW x \in Int
  PROVE  (x % PosMod) \in 0 .. (PosMod - 1)
  BY FileAssumption

(* The steps that touch the table replace one entry.                       *)
LEMMA TableStep ==
  ASSUME Table, [Next]_vars
  PROVE  /\ Table'
         /\ \A fd \in fds :
              file_descriptors[fd].state # "null" =>
                /\ file_descriptors'[fd].path = file_descriptors[fd].path
                /\ file_descriptors'[fd].item = file_descriptors[fd].item
                /\ file_descriptors[fd].state = "closed" => file_descriptors'[fd].state = "closed"
<1> DEFINE Kept(d, e) ==
             d.state # "null" =>
               e.path = d.path /\ e.item = d.item /\ (d.state = "closed" => e.state = "closed")
           Done == Table' /\ \A fd \in fds : Kept(file_descriptors[fd], file_descriptors'[fd])
<1> SUFFICES Done
  OBVIOUS
<1>1. ASSUME NEW fd \in fds, NEW e, IsDescriptor(e), Kept(file_descriptors[fd], e),
             file_descriptors' = [file_descriptors EXCEPT ![fd] = e]
      PROVE  Done
  BY <1>1 DEF Table
<1>2. CASE new_file_descriptor
  <2> DEFINE e == [path |-> call.path, item |-> call.current, pos |-> 0, state |-> "open"]
  <2>1. FreeSlots # {} /\ file_descriptors' = [file_descriptors EXCEPT ![Min(FreeSlots)] = e]
    BY <1>2 DEF new_file_descriptor
  <2>2. IsDescriptor(e)
    BY FileAssumption DEF IsDescriptor
  <2>3. Min(FreeSlots) \in fds /\ Kept(file_descriptors[Min(FreeSlots)], e)
    BY <2>1, FreeSlotIsNull
  <2> HIDE DEF e, Done, Kept
  <2>4. QED
    BY <1>1, <2>1, <2>2, <2>3
<1>3. CASE \E fd \in fds \cup {-1}, offset \in Offsets,
             whence \in {"SEEK_SET", "SEEK_CURRENT", "SEEK_END"} : fseek(fd, offset, whence)
  <2>1. PICK fd \in fds \cup {-1}, offset \in Offsets,
             whence \in {"SEEK_SET", "SEEK_CURRENT", "SEEK_END"} : fseek(fd, offset, whence)
    BY <1>3
  <2> DEFINE d == file_descriptors[fd]
             pos == CASE whence = "SEEK_SET" -> offset % PosMod
                      [] whence = "SEEK_CURRENT" -> (d.pos + offset) % PosMod
                      [] OTHER -> d.pos
             e == [d EXCEPT !.pos = pos]
  <2>2. fd \in fds /\ file_descriptors' = [file_descriptors EXCEPT ![fd].pos = pos]
    BY <2>1 DEF fseek, HasFile
  <2>3. IsDescriptor(d) /\ d.pos \in Int
    BY <2>2 DEF Table, IsDescriptor
  <2>4. pos \in 0 .. (PosMod - 1)
    <3>1. offset \in Int /\ d.pos + offset \in Int
      BY <2>3, FileAssumption
    <3>2. CASE whence = "SEEK_SET"
      BY <3>1, <3>2, PositionInRange
    <3>3. CASE whence = "SEEK_CURRENT"
      BY <3>1, <3>3, PositionInRange
    <3>4. CASE whence = "SEEK_END"
      BY <2>3, <3>4 DEF IsDescriptor
    <3>5. QED
      BY <3>2, <3>3, <3>4
  <2> HIDE DEF pos
  <2>5. IsDescriptor(e) /\ Kept(d, e)
    BY <2>3, <2>4 DEF IsDescriptor
  <2>6. file_descriptors' = [file_descriptors EXCEPT ![fd] = e]
    BY <2>2
  <2> HIDE DEF e, Done, Kept
  <2>7. QED
    BY <1>1, <2>2, <2>5, <2>6
<1>4. CASE \E fd \in fds \cup {-1} : fclose(fd)
  <2>1. PICK fd \in fds \cup {-1} : fclose(fd)
    BY <1>4
  <2> DEFINE d == file_descriptors[fd]
             e == [d EXCEPT !.state = "closed"]
  <2>2. fd \in fds /\ file_descriptors' = [file_descriptors EXCEPT ![fd].state = "closed"]
    BY <2>1 DEF fclose, HasFile
  <2>3. IsDescriptor(e) /\ Kept(d, e)
    BY <2>2 DEF Table, IsDescriptor
  <2>4. file_descriptors' = [file_descriptors EXCEPT ![fd] = e]
    BY <2>2
  <2> HIDE DEF e, Done, Kept
  <2>5. QED
    BY <1>1, <2>2, <2>3, <2>4
<1>5. CASE UNCHANGED file_descriptors
  BY <1>5 DEF Table
<1>6. QED
  BY <1>2, <1>3, <1>4, <1>5 DEF Next, Opening, OnDescriptor, search_and_initialize,
     fopen_invalid, fopen, fopen_refused, get_item, NotADirectory, OpenFailed, TableFull,
     RefuseFd, fread, fstat, vars

----------------------------------------------------------------------------
(* The heap.                                                               *)

LEMMA PlusMinusAt ==
  \A f, g : \A k \in Kinds : Plus(f, g)[k] = f[k] + g[k] /\ Minus(f, g)[k] = f[k] - g[k]
  BY DEF Plus, Minus

(* Replacing an entry of the table exchanges what it refers to.            *)
LEMMA TableHeldOfUpdate ==
  ASSUME NEW k \in Kinds, NEW fd \in fds, NEW e, Table,
         file_descriptors' = [file_descriptors EXCEPT ![fd] = e]
  PROVE  TableHeld(k)' = (TableHeld(k) - HeldBy(file_descriptors[fd])[k]) + HeldBy(e)[k]
<1> DEFINE f == [i \in fds |-> HeldBy(file_descriptors[i])[k]]
           g == [i \in fds |-> HeldBy(file_descriptors'[i])[k]]
<1>1. f \in [fds -> Int] /\ HeldBy(e)[k] \in Int
  BY DescriptorsAreNats
<1>2. g = [f EXCEPT ![fd] = HeldBy(e)[k]]
  <2>1. \A i \in fds : file_descriptors'[i] = IF i = fd THEN e ELSE file_descriptors[i]
    BY DEF Table
  <2>2. \A i \in fds : g[i] = IF i = fd THEN HeldBy(e)[k] ELSE f[i]
    BY <2>1
  <2>3. DOMAIN f = fds /\ g = [i \in fds |-> g[i]]
    OBVIOUS
  <2> HIDE DEF f, g
  <2>4. QED
    BY <1>1, <2>2, <2>3
<1>3. f[fd] = HeldBy(file_descriptors[fd])[k]
  OBVIOUS
<1>4. TableHeld(k) = TableSum(f) /\ TableHeld(k)' = TableSum(g)
  BY DEF TableHeld
<1> HIDE DEF f, g
<1>5. QED
  BY <1>1, <1>2, <1>3, <1>4, SumOfUpdate

(* Only the returns that drop a pointer add to lost.                       *)
LEMMA LostStep ==
  ASSUME Inv, [Next]_vars
  PROVE  lost' \in [Kinds -> Nat] /\ heap' = [k \in Kinds |-> heap'[k]]
<1>1. lost \in [Kinds -> Nat] /\ heap = [k \in Kinds |-> heap[k]]
  BY DEF Inv, TypeOK
<1>2. ASSUME NEW f, NEW g
      PROVE  /\ Plus(f, g) = [k \in Kinds |-> Plus(f, g)[k]]
             /\ Minus(f, g) = [k \in Kinds |-> Minus(f, g)[k]]
  BY DEF Plus, Minus
<1>3. CASE search_and_initialize
  BY <1>1, <1>2, <1>3, MountIsNat, CountsAreNats DEF search_and_initialize
<1>4. CASE \E drive \in Drives, path \in OpenPaths, mode \in Modes :
             fopen(drive, path, mode) \/ fopen_refused(drive, path, mode)
  <2>1. PICK path \in OpenPaths, drive \in Drives, mode \in Modes :
               fopen(drive, path, mode) \/ fopen_refused(drive, path, mode)
    BY <1>4
  <2>2. PathObjects(path) \in [Kinds -> Nat]
    BY FileAssumption, PathsAreNats
  <2>3. QED
    BY <1>1, <1>2, <2>1, <2>2, CountsAreNats DEF fopen, fopen_refused
<1>5. CASE get_item
  <2>1. Dropped(call.current) \in [Kinds -> Nat]
    BY FreedAndDropped
  <2>2. /\ lost' = Plus(lost, Dropped(call.current))
        /\ \E f, g : heap' = Minus(f, g)
    BY <1>5 DEF get_item
  <2>3. lost' \in [Kinds -> Nat]
    BY <1>1, <2>1, <2>2, CountsAreNats
  <2>4. QED
    BY <1>2, <2>2, <2>3
<1>6. CASE NotADirectory
  BY <1>1, <1>6, CountsAreNats, ItemsAreNats DEF NotADirectory
<1>7. CASE OpenFailed \/ new_file_descriptor \/ TableFull
  <2>1. call.pc # "idle"
    BY <1>7 DEF OpenFailed, new_file_descriptor, TableFull, WalkDone
  <2>2. PathObjects(call.path) \in [Kinds -> Nat]
    BY <2>1, PathsAreNats DEF Inv, Call
  <2>3. CASE OpenFailed
    BY <1>1, <2>2, <2>3, CountsAreNats DEF OpenFailed
  <2>4. CASE new_file_descriptor
    BY <1>1, <1>2, <2>2, <2>4, CountsAreNats DEF new_file_descriptor
  <2>5. CASE TableFull
    <3>1. Plus(One({"desc"}), new_item(call.current)) \in [Kinds -> Nat]
      BY CountsAreNats, ItemsAreNats
    <3>2. Plus(PathObjects(call.path), Plus(One({"desc"}), new_item(call.current)))
            \in [Kinds -> Nat]
      BY <2>2, <3>1, CountsAreNats
    <3>3. QED
      BY <1>1, <2>5, <3>2, CountsAreNats DEF TableFull
  <2>6. QED
    BY <1>7, <2>3, <2>4, <2>5
<1>8. CASE \E fd \in fds \cup {-1} : fclose(fd)
  BY <1>1, <1>2, <1>8 DEF fclose
<1>9. CASE UNCHANGED <<heap, lost>>
  BY <1>1, <1>9
<1>10. QED
  BY <1>3, <1>4, <1>5, <1>6, <1>7, <1>8, <1>9 DEF Next, Opening, OnDescriptor,
     fopen_invalid, RefuseFd, fread, fstat, fseek, vars

(* Every step keeps the accounts of a kind of object.                      *)
LEMMA AccountStep ==
  ASSUME Inv, [Next]_vars, NEW k \in Kinds
  PROVE  heap'[k] = ((lost'[k] + HeldByMount'[k]) + HeldByCall'[k]) + TableHeld(k)'
<1> DEFINE Goal == heap'[k] = ((lost'[k] + HeldByMount'[k]) + HeldByCall'[k]) + TableHeld(k)'
<1> SUFFICES Goal
  OBVIOUS
<1>1. /\ heap[k] \in Nat /\ lost[k] \in Nat
      /\ HeldByMount[k] \in Nat /\ HeldByCall[k] \in Nat /\ TableHeld(k) \in Nat
  BY HeldIsNat DEF Inv, TypeOK, HeldNat
<1>2. heap[k] = ((lost[k] + HeldByMount[k]) + HeldByCall[k]) + TableHeld(k)
  BY DEF Inv, HeapAccounted, TableHeld
<1>3. None[k] = 0 /\ \A ks : One(ks)[k] \in Nat
  BY DEF None, One
<1>4. \A e : new_item(e)[k] \in Nat
  BY ItemsAreNats
<1>5. UNCHANGED mounted => HeldByMount'[k] = HeldByMount[k]
  BY DEF HeldByMount
<1>6. UNCHANGED call => HeldByCall'[k] = HeldByCall[k]
  BY DEF HeldByCall
<1>7. UNCHANGED file_descriptors => TableHeld(k)' = TableHeld(k)
  BY DEF TableHeld
<1>8. CASE search_and_initialize
  <2>1. UNCHANGED <<call, file_descriptors>> /\ mounted = "no"
    BY <1>8 DEF search_and_initialize
  <2>2. HeldByMount[k] = 0
    BY <1>3, <2>1 DEF HeldByMount
  <2>3. CASE has_signature
    <3>1. /\ heap'[k] = heap[k] + (MountObjects[k] + RootClones[k])
          /\ lost'[k] = lost[k] + RootClones[k]
      BY <1>8, <2>3, PlusMinusAt DEF search_and_initialize, fat16_resolve
    <3>2. HeldByMount'[k] = MountObjects[k]
      BY <1>8, <2>3 DEF search_and_initialize, HeldByMount
    <3>3. MountObjects[k] \in Nat /\ RootClones[k] \in Nat
      BY MountIsNat
    <3>4. QED
      BY <1>1, <1>2, <1>6, <1>7, <2>1, <2>2, <3>1, <3>2, <3>3
  <2>4. CASE ~has_signature
    <3>1. heap'[k] = heap[k] + None[k] /\ lost'[k] = lost[k]
      BY <1>8, <2>4, PlusMinusAt DEF search_and_initialize, fat16_resolve
    <3>2. HeldByMount'[k] = 0
      BY <1>3, <1>8, <2>4 DEF search_and_initialize, HeldByMount
    <3>3. QED
      BY <1>1, <1>2, <1>3, <1>6, <1>7, <2>1, <2>2, <3>1, <3>2
  <2>5. QED
    BY <2>3, <2>4
<1>9. CASE \E drive \in Drives, path \in OpenPaths, mode \in Modes :
             fopen(drive, path, mode) \/ fopen_refused(drive, path, mode)
  <2>1. PICK path \in OpenPaths, drive \in Drives, mode \in Modes :
               fopen(drive, path, mode) \/ fopen_refused(drive, path, mode)
    BY <1>9
  <2>2. PathObjects(path)[k] \in Nat
    BY FileAssumption, PathsAreNats
  <2>3. CASE fopen(drive, path, mode)
    <3>1. UNCHANGED <<mounted, file_descriptors, lost>> /\ call.pc = "idle"
      BY <2>3 DEF fopen, MayOpen
    <3>2. heap'[k] = heap[k] + (PathObjects(path)[k] + One({"desc"})[k])
      BY <2>3, PlusMinusAt DEF fopen
    <3>3. HeldByCall[k] = 0
      BY <1>3, <3>1 DEF HeldByCall
    <3>4. HeldByCall'[k] = (PathObjects(path)[k] + One({"desc"})[k]) + new_item(NoItem)[k]
      BY <2>3, PlusMinusAt DEF fopen, HeldByCall
    <3>5. new_item(NoItem)[k] = 0
      BY <1>3, NoItemIsNone
    <3>6. QED
      BY <1>1, <1>2, <1>3, <1>5, <1>7, <2>2, <3>1, <3>2, <3>3, <3>4, <3>5
  <2>4. CASE fopen_refused(drive, path, mode)
    <3>1. UNCHANGED <<mounted, file_descriptors, call>>
      BY <2>4 DEF fopen_refused
    <3>2. /\ heap'[k] = heap[k] + PathObjects(path)[k]
          /\ lost'[k] = lost[k] + PathObjects(path)[k]
      BY <2>4, PlusMinusAt DEF fopen_refused
    <3>3. QED
      BY <1>1, <1>2, <1>5, <1>6, <1>7, <2>2, <3>1, <3>2
  <2>5. QED
    BY <2>1, <2>3, <2>4
<1>10. CASE Opening
  <2>1. UNCHANGED mounted
    BY <1>10 DEF Opening, get_item, NotADirectory, OpenFailed, new_file_descriptor, TableFull
  <2>2. call.pc # "idle"
    BY <1>10 DEF Opening, get_item, NotADirectory, OpenFailed, new_file_descriptor, TableFull,
       WalkDone
  <2>3. PathObjects(call.path)[k] \in Nat
    BY <2>2, PathsAreNats DEF Inv, Call
  <2> DEFINE Base == PathObjects(call.path)[k] + One({"desc"})[k]
  <2>4. Base \in Nat
    BY <1>3, <2>3
  <2>5. /\ call.pc = "walk" => HeldByCall[k] = Base + new_item(call.current)[k]
        /\ call.pc = "fail" => HeldByCall[k] = Base
    BY PlusMinusAt DEF HeldByCall
  <2>6. /\ call'.pc = "walk" =>
             HeldByCall'[k] = (PathObjects(call'.path)[k] + One({"desc"})[k])
                                + new_item(call'.current)[k]
        /\ call'.pc = "fail" => HeldByCall'[k] = PathObjects(call'.path)[k] + One({"desc"})[k]
        /\ call' = NoCall => HeldByCall'[k] = 0
    BY <1>3, PlusMinusAt DEF HeldByCall, NoCall
  <2>7. CASE get_item
    <3>1. PICK next :
            /\ heap' = Minus(Plus(heap, new_item(next)), item_free(call.current))
            /\ lost' = Plus(lost, Dropped(call.current))
            /\ call' = [call EXCEPT !.part    = @ + 1,
                                    !.current = next,
                                    !.pc = IF next = NoItem THEN "fail" ELSE "walk"]
      BY <2>7 DEF get_item
    <3>2. call.pc = "walk" /\ UNCHANGED file_descriptors
      BY <2>7 DEF get_item
    <3>3. /\ heap'[k] = (heap[k] + new_item(next)[k])
                         - (new_item(call.current)[k] - Dropped(call.current)[k])
          /\ lost'[k] = lost[k] + Dropped(call.current)[k]
          /\ Dropped(call.current)[k] \in Nat
      BY <3>1, PlusMinusAt, FreedAndDropped
    <3>4. /\ call'.path = call.path
          /\ call'.current = next
          /\ call'.pc = IF next = NoItem THEN "fail" ELSE "walk"
      BY <3>1 DEF Inv, Call
    <3>5. HeldByCall'[k] = Base + new_item(next)[k]
      <4>1. CASE next = NoItem
        <5>1. new_item(next)[k] = 0
          BY <1>3, <4>1, NoItemIsNone
        <5>2. HeldByCall'[k] = Base
          BY <2>6, <3>4, <4>1
        <5>3. QED
          BY <2>4, <5>1, <5>2
      <4>2. CASE next # NoItem
        BY <2>6, <3>4, <4>2
      <4>3. QED
        BY <4>1, <4>2
    <3> HIDE DEF Base
    <3>6. QED
      BY <1>1, <1>2, <1>4, <1>5, <1>7, <2>1, <2>4, <2>5, <3>2, <3>3, <3>5
  <2>8. CASE NotADirectory
    <3>1. call.pc = "walk" /\ UNCHANGED <<file_descriptors, heap>>
      BY <2>8 DEF NotADirectory
    <3>2. lost'[k] = lost[k] + new_item(call.current)[k]
      BY <2>8, PlusMinusAt DEF NotADirectory
    <3>3. call'.path = call.path /\ call'.pc = "fail"
      BY <2>8 DEF NotADirectory, Inv, Call
    <3>4. HeldByCall'[k] = Base
      BY <2>6, <3>3
    <3> HIDE DEF Base
    <3>5. QED
      BY <1>1, <1>2, <1>4, <1>5, <1>7, <2>1, <2>4, <2>5, <3>1, <3>2, <3>4
  <2>9. CASE OpenFailed
    <3>1. call.pc = "fail" /\ call' = NoCall /\ UNCHANGED <<file_descriptors, heap>>
      BY <2>9 DEF OpenFailed
    <3>2. lost'[k] = lost[k] + Base
      BY <2>9, PlusMinusAt DEF OpenFailed
    <3> HIDE DEF Base
    <3>3. QED
      BY <1>1, <1>2, <1>5, <1>7, <2>1, <2>4, <2>5, <2>6, <3>1, <3>2
  <2>10. CASE TableFull
    <3>1. call.pc = "walk" /\ call' = NoCall /\ UNCHANGED <<file_descriptors, heap>>
      BY <2>10 DEF TableFull, WalkDone
    <3>2. lost'[k] = lost[k] + (PathObjects(call.path)[k]
                                + (One({"desc"})[k] + new_item(call.current)[k]))
      BY <2>10, PlusMinusAt DEF TableFull
    <3>3. lost'[k] = lost[k] + (Base + new_item(call.current)[k])
      BY <1>1, <1>3, <1>4, <2>3, <3>2
    <3> HIDE DEF Base
    <3>4. QED
      BY <1>1, <1>2, <1>4, <1>5, <1>7, <2>1, <2>4, <2>5, <2>6, <3>1, <3>3
  <2>11. CASE new_file_descriptor
    <3> DEFINE fd == Min(FreeSlots)
               e == [path |-> call.path, item |-> call.current, pos |-> 0, state |-> "open"]
    <3>1. /\ call.pc = "walk" /\ call' = NoCall /\ FreeSlots # {}
          /\ file_descriptors' = [file_descriptors EXCEPT ![fd] = e]
      BY <2>11 DEF new_file_descriptor, WalkDone
    <3>2. heap'[k] = heap[k] + One({"fd"})[k] /\ lost'[k] = lost[k] + PathObjects(call.path)[k]
      BY <2>11, PlusMinusAt DEF new_file_descriptor
    <3>3. fd \in fds /\ file_descriptors[fd].state = "null"
      BY <3>1, FreeSlotIsNull
    <3>4. HeldBy(file_descriptors[fd])[k] = 0
      BY <1>3, <3>3 DEF HeldBy
    <3>5. HeldBy(e)[k] = One({"fd", "desc"})[k] + new_item(call.current)[k]
      BY PlusMinusAt DEF HeldBy
    <3>6. One({"fd", "desc"})[k] = One({"fd"})[k] + One({"desc"})[k]
      BY DEF One
    <3> HIDE DEF fd, e
    <3>7. TableHeld(k)' = (TableHeld(k) - HeldBy(file_descriptors[fd])[k]) + HeldBy(e)[k]
      BY <3>1, <3>3, TableHeldOfUpdate DEF Inv
    <3>8. TableHeld(k)' = TableHeld(k) + ((One({"fd"})[k] + One({"desc"})[k])
                                          + new_item(call.current)[k])
      BY <1>1, <1>3, <1>4, <3>4, <3>5, <3>6, <3>7
    <3>9. HeldByCall[k] = (PathObjects(call.path)[k] + One({"desc"})[k])
                            + new_item(call.current)[k]
      BY <2>5, <3>1
    <3>10. HeldByCall'[k] = 0 /\ HeldByMount'[k] = HeldByMount[k]
      BY <1>5, <2>1, <2>6, <3>1
    <3>11. QED
      BY <1>1, <1>2, <1>3, <1>4, <2>3, <3>2, <3>8, <3>9, <3>10
  <2>12. QED
    BY <1>10, <2>7, <2>8, <2>9, <2>10, <2>11 DEF Opening
<1>11. CASE OnDescriptor
  <2>1. UNCHANGED <<mounted, call, lost>>
    BY <1>11 DEF OnDescriptor, RefuseFd, fread, fstat, fseek, fclose
  <2>2. CASE UNCHANGED <<heap, file_descriptors>>
    BY <1>1, <1>2, <1>5, <1>6, <1>7, <2>1, <2>2
  <2>3. CASE \E fd \in fds \cup {-1}, offset \in Offsets,
               whence \in {"SEEK_SET", "SEEK_CURRENT", "SEEK_END"} : fseek(fd, offset, whence)
    <3>1. PICK fd \in fds : \E pos : file_descriptors' = [file_descriptors EXCEPT ![fd].pos = pos]
      BY <2>3 DEF fseek, HasFile
    <3>2. PICK pos : file_descriptors' = [file_descriptors EXCEPT ![fd].pos = pos]
      BY <3>1
    <3> DEFINE d == file_descriptors[fd]
               e == [d EXCEPT !.pos = pos]
    <3>3. UNCHANGED heap
      BY <2>3 DEF fseek
    <3>4. e.state = d.state /\ e.item = d.item
      BY DEF Inv, Table, IsDescriptor
    <3>5. HeldBy(e) = HeldBy(d)
      BY <3>4 DEF HeldBy
    <3>6. HeldBy(d)[k] \in Nat
      BY DescriptorsAreNats
    <3>7. file_descriptors' = [file_descriptors EXCEPT ![fd] = e]
      BY <3>2
    <3> HIDE DEF e
    <3>8. TableHeld(k)' = (TableHeld(k) - HeldBy(d)[k]) + HeldBy(e)[k]
      BY <3>7, TableHeldOfUpdate DEF Inv
    <3>9. TableHeld(k)' = TableHeld(k)
      BY <1>1, <3>5, <3>6, <3>8
    <3>10. QED
      BY <1>1, <1>2, <1>5, <1>6, <2>1, <3>3, <3>9
  <2>4. CASE \E fd \in fds \cup {-1} : fclose(fd)
    <3>1. PICK fd \in fds \cup {-1} : fclose(fd)
      BY <2>4
    <3> DEFINE d == file_descriptors[fd]
               e == [d EXCEPT !.state = "closed"]
    <3>2. /\ fd \in fds /\ d.state = "open"
          /\ file_descriptors' = [file_descriptors EXCEPT ![fd].state = "closed"]
      BY <3>1 DEF fclose, HasFile
    <3>3. heap'[k] = heap[k] - (One({"desc"})[k] + new_item(d.item)[k])
      <4>1. item_free(d.item) = new_item(d.item)
        BY <3>1, FilesAreFreed DEF fclose, HasFile, IsFile
      <4>2. QED
        BY <3>1, <4>1, PlusMinusAt DEF fclose
    <3>4. e.state = "closed"
      BY <3>2 DEF Inv, Table, IsDescriptor
    <3>5. HeldBy(d)[k] = One({"fd", "desc"})[k] + new_item(d.item)[k]
      BY <3>2, PlusMinusAt DEF HeldBy
    <3>6. HeldBy(e)[k] = One({"fd"})[k]
      BY <3>4 DEF HeldBy
    <3>7. One({"fd", "desc"})[k] = One({"fd"})[k] + One({"desc"})[k]
      BY DEF One
    <3>8. file_descriptors' = [file_descriptors EXCEPT ![fd] = e]
      BY <3>2
    <3> HIDE DEF e
    <3>9. TableHeld(k)' = (TableHeld(k) - HeldBy(d)[k]) + HeldBy(e)[k]
      BY <3>2, <3>8, TableHeldOfUpdate DEF Inv
    <3>10. TableHeld(k)' = TableHeld(k) - (One({"desc"})[k] + new_item(d.item)[k])
      BY <1>1, <1>3, <1>4, <3>5, <3>6, <3>7, <3>9
    <3>11. QED
      BY <1>1, <1>2, <1>3, <1>4, <1>5, <1>6, <2>1, <3>3, <3>10
  <2>5. QED
    BY <1>11, <2>2, <2>3, <2>4 DEF OnDescriptor, RefuseFd, fread, fstat
<1>12. CASE UNCHANGED <<heap, lost, mounted, call, file_descriptors>>
  BY <1>1, <1>2, <1>5, <1>6, <1>7, <1>12
<1>13. QED
  BY <1>8, <1>9, <1>10, <1>11, <1>12 DEF Next, fopen_invalid, vars

----------------------------------------------------------------------------
(* The theorems.                                                           *)

LEMMA InvInit == Init => Inv
<1> SUFFICES ASSUME Init PROVE Inv
  OBVIOUS
<1>1. Table
  BY FileAssumption DEF Init, Table, IsDescriptor, Null
<1>2. Call
  BY DEF Init, Call, NoCall
<1>3. TypeOK
  <2>1. heap \in [Kinds -> Nat] /\ lost \in [Kinds -> Nat]
    BY CountsAreNats DEF Init
  <2>2. QED
    BY <1>1, <1>2, <2>1 DEF Init, TypeOK, Table, IsDescriptor, Call
<1>4. HeapAccounted
  <2> SUFFICES ASSUME NEW k \in Kinds
               PROVE  heap[k] = ((lost[k] + HeldByMount[k]) + HeldByCall[k]) + TableHeld(k)
    BY DEF HeapAccounted, TableHeld
  <2>1. None[k] = 0
    BY DEF None
  <2>2. heap[k] = 0 /\ lost[k] = 0 /\ HeldByMount[k] = 0 /\ HeldByCall[k] = 0
    BY <2>1 DEF Init, HeldByMount, HeldByCall, NoCall
  <2>3. TableHeld(k) = 0
    <3> DEFINE f == [fd \in fds |-> HeldBy(file_descriptors[fd])[k]]
    <3>1. \A fd \in fds : f[fd] = 0
      BY <2>1 DEF Init, HeldBy, Null
    <3>2. f \in [fds -> Nat]
      BY DescriptorsAreNats
    <3>3. TableHeld(k) = TableSum(f)
      BY DEF TableHeld
    <3> HIDE DEF f
    <3>4. QED
      BY <3>1, <3>2, <3>3, SumOfNats
  <2>4. QED
    BY <2>2, <2>3
<1>5. QED
  BY <1>1, <1>2, <1>3, <1>4 DEF Inv

(* What is lost grows by numbers, and then the accounts say that what is   *)
(* held is a number too.                                                   *)
LEMMA InvStep == Inv /\ [Next]_vars => Inv'
<1> SUFFICES ASSUME Inv, [Next]_vars PROVE Inv'
  OBVIOUS
<1>1. Table'
  BY TableStep DEF Inv
<1>2. Call'
  BY CallStep DEF Inv
<1>3. HeapAccounted'
  BY AccountStep DEF HeapAccounted, TableHeld
<1>4. TypeOK'
  <2>1. lost' \in [Kinds -> Nat]
    BY LostStep
  <2>2. heap' \in [Kinds -> Nat]
    <3>1. ASSUME NEW k \in Kinds PROVE heap'[k] \in Nat
      <4>1. HeldByMount'[k] \in Nat /\ HeldByCall'[k] \in Nat /\ TableHeld(k)' \in Nat
        <5>1. HeldNat'
          BY <1>2, HeldIsNat, PTL
        <5>2. QED
          BY <5>1 DEF HeldNat
      <4>2. lost'[k] \in Nat
        BY <2>1
      <4>3. QED
        BY <4>1, <4>2, AccountStep
    <3>2. heap' = [k \in Kinds |-> heap'[k]]
      BY LostStep
    <3>3. QED
      BY <3>1, <3>2
  <2>3. mounted' \in {"no", "fat16", "none"}
    BY DEF Inv, TypeOK, Next, Opening, OnDescriptor, search_and_initialize, fopen_invalid,
       fopen, fopen_refused, get_item, NotADirectory, OpenFailed, new_file_descriptor,
       TableFull, RefuseFd, fread, fstat, fseek, fclose, vars
  <2>4. QED
    BY <1>1, <1>2, <2>1, <2>2, <2>3 DEF TypeOK, Table, IsDescriptor, Call
<1>5. QED
  BY <1>1, <1>2, <1>3, <1>4 DEF Inv

LEMMA InvAlways == Spec => []Inv
  BY InvInit, InvStep, PTL DEF Spec

(* The positions stay in range, and no kind of object is freed more often  *)
(* than it was allocated: a close, a lookup or a refused mount never frees *)
(* what is not there.                                                      *)
THEOREM FileTypes == Spec => []TypeOK
<1>1. Inv => TypeOK
  BY DEF Inv
<1>2. QED
  BY <1>1, InvAlways, PTL

(* The heap of the file layer is accounted for on every path: what fopen,  *)
(* get_item, fclose and the mount hold or have dropped is all there is.    *)
THEOREM FileHeapAccounted == Spec => []HeapAccounted
<1>1. Inv => HeapAccounted
  BY DEF Inv
<1>2. QED
  BY <1>1, InvAlways, PTL

----------------------------------------------------------------------------
(* Names.  strcasecmp gives 0 exactly for two names of the same length of  *)
(* which the first is nowhere the smaller.                                 *)

LEMMA LettersAreInts == \A ch \in Int : tolower(ch) \in Int
  BY DEF tolower

LEMMA EqualForStrcasecmp ==
  ASSUME NEW s \in Seq(Int), NEW t \in Seq(Int)
  PROVE  strcasecmp(s, t) = 0 <=>
           /\ Len(s) = Len(t)
           /\ \A i \in 1 .. Len(t) : ~(tolower(s[i]) < tolower(t[i]))
<1> DEFINE shorter == Min({Len(s), Len(t)})
           Ends(i) == i > Len(s) \/ i > Len(t) \/ tolower(s[i]) < tolower(t[i])
           ends == {i \in 1 .. (shorter + 1) : Ends(i)}
           stop == Min(ends)
<1>1. /\ Len(s) \in Nat /\ Len(t) \in Nat /\ shorter \in Nat
      /\ shorter = IF Len(s) <= Len(t) THEN Len(s) ELSE Len(t)
  <2>1. Len(s) \in Nat /\ Len(t) \in Nat
    OBVIOUS
  <2>2. Len(s) \in Int /\ Len(t) \in Int
    BY <2>1
  <2>3. QED
    BY <2>1, <2>2, MinOfTwo
<1> HIDE DEF shorter
<1>2. shorter + 1 \in ends /\ ends \in SUBSET Nat
  BY <1>1
<1>3. stop \in ends /\ \A i \in ends : stop <= i
  <2> HIDE DEF ends
  <2>1. QED
    BY <1>2, MinOfNats
<1>4. /\ stop \in 1 .. (shorter + 1) /\ Ends(stop)
      /\ \A i \in 1 .. (shorter + 1) : Ends(i) => stop <= i
  BY <1>3
<1>5. strcasecmp(s, t) =
        CASE stop > Len(s) /\ stop > Len(t) -> 0
          [] stop > Len(s) /\ stop <= Len(t) -> -1
          [] stop <= Len(s) /\ stop > Len(t) -> 1
          [] OTHER -> -1
  BY DEF strcasecmp, shorter
<1> HIDE DEF stop, ends
<1>6. strcasecmp(s, t) = 0 <=> stop > Len(s) /\ stop > Len(t)
  BY <1>1, <1>4, <1>5
<1>7. ASSUME stop > Len(s), stop > Len(t)
      PROVE  Len(s) = Len(t) /\ \A i \in 1 .. Len(t) : ~(tolower(s[i]) < tolower(t[i]))
  <2>1. Len(s) = Len(t) /\ stop = Len(t) + 1 /\ shorter = Len(t)
    BY <1>1, <1>4, <1>7
  <2>2. ASSUME NEW i \in 1 .. Len(t), tolower(s[i]) < tolower(t[i]) PROVE FALSE
    <3>1. i \in 1 .. (shorter + 1) /\ Ends(i)
      BY <1>1, <2>1, <2>2
    <3>2. stop <= i
      BY <1>4, <3>1
    <3>3. QED
      BY <1>1, <2>1, <3>2
  <2>3. QED
    BY <2>1, <2>2
<1>8. ASSUME Len(s) = Len(t), \A i \in 1 .. Len(t) : ~(tolower(s[i]) < tolower(t[i]))
      PROVE  stop > Len(s) /\ stop > Len(t)
  BY <1>1, <1>4, <1>8
<1>9. QED
  BY <1>6, <1>7, <1>8

(* A name that is the same is found equal.                                 *)
LEMMA SameNameIsEqual ==
  ASSUME NEW s \in Seq(Int), NEW t \in Seq(Int), SameName(s, t)
  PROVE  strcasecmp(s, t) = 0
<1>1. Len(s) = Len(t) /\ \A i \in 1 .. Len(s) : tolower(s[i]) = tolower(t[i])
  BY DEF SameName, strcasecmp_fixed
<1>2. \A i \in 1 .. Len(t) : tolower(t[i]) \in Int
  BY LettersAreInts
<1>3. \A i \in 1 .. Len(t) : ~(tolower(s[i]) < tolower(t[i]))
  BY <1>1, <1>2
<1>4. QED
  BY <1>1, <1>3, EqualForStrcasecmp

----------------------------------------------------------------------------
(* Directories.  x is the first of the n entries that is in H, or NoItem.  *)

FirstOf(s, n, H, x) ==
  \/ x = NoItem /\ \A j \in 1 .. n : s[j] \notin H
  \/ \E p \in 1 .. n : s[p] \in H /\ x = s[p] /\ \A j \in 1 .. (p - 1) : s[j] \notin H

\* What is first among the entries after one more.
Later(x, e, H) == IF x # NoItem THEN x ELSE IF e \in H THEN e ELSE NoItem

LEMMA NoItemIsNoEntry == NoItem \notin Entry
  BY DEF NoItem, Entry

LEMMA FirstUnique ==
  ASSUME NEW n \in Nat, NEW s, NEW H, NEW x, NEW y, FirstOf(s, n, H, x), FirstOf(s, n, H, y)
  PROVE  x = y
<1>1. CASE \A j \in 1 .. n : s[j] \notin H
  BY <1>1 DEF FirstOf
<1>2. CASE ~(\A j \in 1 .. n : s[j] \notin H)
  <2>1. PICK p \in 1 .. n : s[p] \in H /\ x = s[p] /\ \A j \in 1 .. (p - 1) : s[j] \notin H
    BY <1>2 DEF FirstOf
  <2>2. PICK q \in 1 .. n : s[q] \in H /\ y = s[q] /\ \A j \in 1 .. (q - 1) : s[j] \notin H
    BY <1>2 DEF FirstOf
  <2>3. p = q
    BY <2>1, <2>2
  <2>4. QED
    BY <2>1, <2>2, <2>3
<1>3. QED
  BY <1>1, <1>2

LEMMA FirstAppend ==
  ASSUME NEW n \in Nat, NEW s, NEW t, NEW H \in SUBSET Entry, NEW x,
         FirstOf(s, n, H, x), \A j \in 1 .. n : t[j] = s[j]
  PROVE  FirstOf(t, n + 1, H, Later(x, t[n + 1], H))
<1>1. CASE x = NoItem /\ \A j \in 1 .. n : s[j] \notin H
  <2>1. \A j \in 1 .. n : t[j] \notin H
    BY <1>1
  <2>2. CASE t[n + 1] \in H
    <3>1. Later(x, t[n + 1], H) = t[n + 1] /\ n + 1 \in 1 .. (n + 1) /\ (n + 1) - 1 = n
      BY <1>1, <2>2 DEF Later
    <3>2. QED
      BY <2>1, <2>2, <3>1 DEF FirstOf
  <2>3. CASE t[n + 1] \notin H
    <3>1. Later(x, t[n + 1], H) = NoItem
      BY <1>1, <2>3 DEF Later
    <3>2. \A j \in 1 .. (n + 1) : t[j] \notin H
      <4>1. \A j \in 1 .. (n + 1) : j = n + 1 \/ j \in 1 .. n
        OBVIOUS
      <4>2. QED
        BY <2>1, <2>3, <4>1
    <3>3. QED
      BY <3>1, <3>2 DEF FirstOf
  <2>4. QED
    BY <2>2, <2>3
<1>2. CASE \E p \in 1 .. n : s[p] \in H /\ x = s[p] /\ \A j \in 1 .. (p - 1) : s[j] \notin H
  <2>1. PICK p \in 1 .. n : s[p] \in H /\ x = s[p] /\ \A j \in 1 .. (p - 1) : s[j] \notin H
    BY <1>2
  <2>2. x # NoItem
    BY <2>1, NoItemIsNoEntry
  <2>3. Later(x, t[n + 1], H) = x
    BY <2>2 DEF Later
  <2>4. p \in 1 .. (n + 1) /\ t[p] = s[p] /\ \A j \in 1 .. (p - 1) : t[j] = s[j]
    BY <2>1
  <2>5. QED
    BY <2>1, <2>3, <2>4 DEF FirstOf
<1>3. QED
  BY <1>1, <1>2 DEF FirstOf

\* The entries that strcasecmp finds equal to a name, and those that have it.
Hits(name) == {e \in Entry : strcasecmp(e.name, name) = 0}
Named(name) == {e \in Entry : ~Unused(e) /\ SameName(e.name, name)}

LEMMA FindIsFirst ==
  ASSUME NEW items, NEW name, Len(items) \in Nat,
         \A i \in 1 .. Len(items) : items[i] \in Entry \/ strcasecmp(items[i].name, name) # 0
  PROVE  FirstOf(items, Len(items), Hits(name), find_item_in_directory(items, name))
<1> DEFINE found == {i \in 1 .. Len(items) : strcasecmp(items[i].name, name) = 0}
           x == find_item_in_directory(items, name)
<1>1. /\ Len(items) \in Nat
      /\ \A i \in 1 .. Len(items) : items[i] \in Entry \/ strcasecmp(items[i].name, name) # 0
  OBVIOUS
<1>2. \A i \in 1 .. Len(items) : i \in found <=> items[i] \in Hits(name)
  BY <1>1 DEF Hits
<1>3. x = IF found = {} THEN NoItem ELSE items[Min(found)]
  BY DEF find_item_in_directory
<1>4. found \in SUBSET (1 .. Len(items)) /\ found \in SUBSET Nat
  BY <1>1
<1> HIDE DEF found, x
<1>5. CASE found = {}
  BY <1>2, <1>3, <1>5 DEF FirstOf, x
<1>6. CASE found # {}
  <2>1. Min(found) \in found /\ \A i \in found : Min(found) <= i
    BY <1>4, <1>6, MinOfNats
  <2>2. PICK p \in 1 .. Len(items) : p = Min(found)
    BY <1>4, <2>1
  <2>3. x = items[p] /\ items[p] \in Hits(name)
    BY <1>2, <1>3, <1>6, <2>1, <2>2
  <2>4. \A j \in 1 .. (p - 1) : items[j] \notin Hits(name)
    BY <1>1, <1>2, <2>1, <2>2
  <2>5. QED
    BY <2>3, <2>4 DEF FirstOf, x
<1>7. QED
  BY <1>5, <1>6

LEMMA LookupIsFirst ==
  ASSUME NEW entries \in Seq(Entry), NEW name
  PROVE  FirstOf(entries, Len(entries), Named(name), Lookup(entries, name))
<1> DEFINE found == {i \in 1 .. Len(entries) :
                       ~Unused(entries[i]) /\ SameName(entries[i].name, name)}
           x == Lookup(entries, name)
<1>1. /\ Len(entries) \in Nat
      /\ \A i \in 1 .. Len(entries) : entries[i] \in Entry
  OBVIOUS
<1>2. \A i \in 1 .. Len(entries) : i \in found <=> entries[i] \in Named(name)
  BY <1>1 DEF Named
<1>3. x = IF found = {} THEN NoItem ELSE entries[Min(found)]
  BY DEF Lookup
<1>4. found \in SUBSET (1 .. Len(entries)) /\ found \in SUBSET Nat
  BY <1>1
<1> HIDE DEF found, x
<1>5. CASE found = {}
  BY <1>2, <1>3, <1>5 DEF FirstOf, x
<1>6. CASE found # {}
  <2>1. Min(found) \in found /\ \A i \in found : Min(found) <= i
    BY <1>4, <1>6, MinOfNats
  <2>2. PICK p \in 1 .. Len(entries) : p = Min(found)
    BY <1>4, <2>1
  <2>3. x = entries[p] /\ entries[p] \in Named(name)
    BY <1>2, <1>3, <1>6, <2>1, <2>2
  <2>4. \A j \in 1 .. (p - 1) : entries[j] \notin Named(name)
    BY <1>1, <1>2, <2>1, <2>2
  <2>5. QED
    BY <2>3, <2>4 DEF FirstOf, x
<1>7. QED
  BY <1>5, <1>6

(* Among the entries in use of a directory whose names are told apart from *)
(* the name, those that are found equal are those that have it.            *)
LEMMA HitsAreNamed ==
  ASSUME NEW entries \in Seq(Entry), NEW name \in Seq(Int), TellsApart(entries, name),
         NEW i \in 1 .. Len(entries), ~Unused(entries[i])
  PROVE  entries[i] \in Hits(name) <=> entries[i] \in Named(name)
<1>1. entries[i] \in Entry
  OBVIOUS
<1>2. entries[i].name \in Seq(Int)
  BY <1>1 DEF Entry
<1>3. SameName(entries[i].name, name) => strcasecmp(entries[i].name, name) = 0
  BY <1>2, SameNameIsEqual
<1>4. strcasecmp(entries[i].name, name) = 0 => SameName(entries[i].name, name)
  <2>1. strcasecmp(entries[i].name, name) = 0 =>
          /\ Len(entries[i].name) = Len(name)
          /\ \A k \in 1 .. Len(name) : ~(tolower(entries[i].name[k]) < tolower(name[k]))
    BY <1>2, EqualForStrcasecmp
  <2>2. QED
    BY <2>1 DEF TellsApart
<1>5. QED
  BY <1>1, <1>3, <1>4 DEF Hits, Named

(* What is in use is copied in order: it is found there as on the volume.  *)
LEMMA InUseKeepsFirst ==
  ASSUME NEW entries \in Seq(Entry), NEW name \in Seq(Int), TellsApart(entries, name)
  PROVE  find_item_in_directory(InUse(entries), name) = Lookup(entries, name)
<1> DEFINE N == Len(entries)
           D == 0 .. N
           S == Seq(Entry)
           body(c) == [i \in D |-> IF i = 0 THEN << >>
                                   ELSE IF Unused(entries[i]) THEN c[i - 1]
                                        ELSE Append(c[i - 1], entries[i])]
           copied == CHOOSE c : c = body(c)
           g == [p \in Nat \X S |->
                   IF p[1] + 1 \in 1 .. N /\ ~Unused(entries[p[1] + 1])
                   THEN Append(p[2], entries[p[1] + 1]) ELSE p[2]]
<1>1. N \in Nat /\ \A i \in 1 .. N : entries[i] \in Entry
  OBVIOUS
<1>2. << >> \in S /\ g \in Steps(S)
  <2>1. ASSUME NEW p \in Nat \X S PROVE g[p] \in S
    BY <1>1
  <2>2. QED
    BY <2>1 DEF Steps
<1>3. PICK h : IsIteration(h, S, << >>, g)
  <2> HIDE DEF g, S
  <2>1. QED
    BY <1>2, IterationExists
<1> DEFINE t == [i \in D |-> h[i]]
<1>4. t = body(t)
  <2>1. \A j \in Nat : h[j] \in S /\ h[j] = IF j = 0 THEN << >> ELSE g[<<j - 1, h[j - 1]>>]
    <3> HIDE DEF g, S
    <3>1. QED
      BY <1>3 DEF IsIteration
  <2>2. ASSUME NEW i \in D
        PROVE  t[i] = IF i = 0 THEN << >>
                      ELSE IF Unused(entries[i]) THEN t[i - 1]
                           ELSE Append(t[i - 1], entries[i])
    <3>1. i \in Nat
      BY <1>1
    <3>2. i # 0 => i - 1 \in Nat /\ i - 1 \in D /\ (i - 1) + 1 = i /\ i \in 1 .. N
      BY <1>1
    <3>3. ASSUME i # 0
          PROVE  g[<<i - 1, h[i - 1]>>] = IF ~Unused(entries[i])
                                          THEN Append(h[i - 1], entries[i]) ELSE h[i - 1]
      <4>1. <<i - 1, h[i - 1]>> \in Nat \X S
        BY <2>1, <3>2, <3>3
      <4>2. QED
        BY <3>2, <3>3, <4>1
    <3> HIDE DEF g, S
    <3>4. QED
      BY <2>1, <3>1, <3>2, <3>3
  <2>3. QED
    BY <2>2
<1> HIDE DEF t
<1>5. copied = body(copied)
  BY <1>4
<1>6. InUse(entries) = copied[N]
  BY DEF InUse
<1> HIDE DEF copied
<1>7. \A i \in D : copied[i] = IF i = 0 THEN << >>
                               ELSE IF Unused(entries[i]) THEN copied[i - 1]
                                    ELSE Append(copied[i - 1], entries[i])
  BY <1>5
<1>8. copied[0] = << >> /\ \A i \in Nat : i + 1 <= N =>
        copied[i + 1] = IF Unused(entries[i + 1]) THEN copied[i]
                        ELSE Append(copied[i], entries[i + 1])
  <2>1. 0 \in D /\ \A i \in Nat : i + 1 <= N => i + 1 \in D /\ i + 1 # 0 /\ (i + 1) - 1 = i
    BY <1>1
  <2>2. QED
    BY <1>7, <2>1
<1> HIDE DEF S
<1> DEFINE Same(i) == /\ copied[i] \in Seq(Entry)
                      /\ \E x : /\ FirstOf(copied[i], Len(copied[i]), Hits(name), x)
                                /\ FirstOf(entries, i, Named(name), x)
           A == {i \in Nat : i <= N => Same(i)}
<1>9. 0 \in A
  <2>1. copied[0] \in Seq(Entry) /\ Len(copied[0]) = 0
    BY <1>8
  <2>2. FirstOf(copied[0], 0, Hits(name), NoItem) /\ FirstOf(entries, 0, Named(name), NoItem)
    BY DEF FirstOf
  <2>3. QED
    BY <2>1, <2>2
<1>10. ASSUME NEW i \in A PROVE i + 1 \in A
  <2> SUFFICES ASSUME i + 1 <= N PROVE Same(i + 1)
    OBVIOUS
  <2>1. i \in Nat /\ Same(i) /\ i + 1 \in 1 .. N
    BY <1>1
  <2>2. PICK x : /\ FirstOf(copied[i], Len(copied[i]), Hits(name), x)
                 /\ FirstOf(entries, i, Named(name), x)
    BY <2>1
  <2> DEFINE e == entries[i + 1]
             k == copied[i]
  <2>3. e \in Entry /\ k \in Seq(Entry) /\ Len(k) \in Nat
    BY <1>1, <2>1
  <2>4. Hits(name) \in SUBSET Entry /\ Named(name) \in SUBSET Entry
    BY DEF Hits, Named
  <2>5. FirstOf(entries, i + 1, Named(name), Later(x, e, Named(name)))
    BY <2>1, <2>2, <2>4, FirstAppend
  <2>6. CASE Unused(e)
    <3>1. copied[i + 1] = k
      BY <1>8, <2>1, <2>6
    <3>2. e \notin Named(name)
      BY <2>6 DEF Named
    <3>3. Later(x, e, Named(name)) = x
      BY <3>2 DEF Later
    <3>4. QED
      BY <2>2, <2>3, <2>5, <3>1, <3>3
  <2>7. CASE ~Unused(e)
    <3>1. copied[i + 1] = Append(k, e)
      BY <1>8, <2>1, <2>7
    <3>2. e \in Hits(name) <=> e \in Named(name)
      BY <2>1, <2>7, HitsAreNamed
    <3>3. Later(x, e, Hits(name)) = Later(x, e, Named(name))
      BY <3>2 DEF Later
    <3> DEFINE a == Append(k, e)
    <3>4. /\ a \in Seq(Entry) /\ Len(a) = Len(k) + 1 /\ a[Len(k) + 1] = e
          /\ \A j \in 1 .. Len(k) : a[j] = k[j]
      BY <2>3
    <3> HIDE DEF a, e, k
    <3>5. FirstOf(k, Len(k), Hits(name), x)
      BY <2>2 DEF k
    <3>6. FirstOf(a, Len(k) + 1, Hits(name), Later(x, a[Len(k) + 1], Hits(name)))
      BY <2>3, <2>4, <3>4, <3>5, FirstAppend
    <3>7. FirstOf(a, Len(a), Hits(name), Later(x, e, Named(name)))
      BY <3>3, <3>4, <3>6
    <3>8. copied[i + 1] = a
      BY <3>1 DEF a
    <3>9. QED
      BY <2>5, <3>4, <3>7, <3>8
  <2>8. QED
    BY <2>6, <2>7
<1>11. A \in SUBSET Nat
  OBVIOUS
<1>12. A = Nat
  <2> HIDE DEF A
  <2>1. QED
    BY <1>9, <1>10, <1>11, SetInduction
<1>13. Same(N)
  BY <1>1, <1>12
<1>14. PICK x : /\ FirstOf(copied[N], Len(copied[N]), Hits(name), x)
                /\ FirstOf(entries, N, Named(name), x)
  BY <1>13
<1>15. copied[N] \in Seq(Entry) /\ Len(copied[N]) \in Nat
  BY <1>13
<1>16. find_item_in_directory(copied[N], name) = x
  <2> DEFINE c == copied[N]
  <2>1. c \in Seq(Entry) /\ Len(c) \in Nat /\ FirstOf(c, Len(c), Hits(name), x)
    BY <1>14, <1>15
  <2> HIDE DEF c
  <2>2. \A i \in 1 .. Len(c) : c[i] \in Entry
    BY <2>1
  <2>3. QED
    BY <2>1, <2>2, FindIsFirst, FirstUnique DEF c
<1>17. Lookup(entries, name) = x
  BY <1>1, <1>14, LookupIsFirst, FirstUnique
<1>18. QED
  BY <1>6, <1>16, <1>17

LEMMA TotalItems ==
  ASSUME NEW entries \in Seq(Entry)
  PROVE  get_directory_total_items(entries) \in 0 .. Len(entries)
<1> DEFINE S == {i \in 1 .. Len(entries) : ~Unused(entries[i])}
<1>1. Len(entries) \in Nat
  OBVIOUS
<1>2. IsFiniteSet(1 .. Len(entries)) /\ Cardinality(1 .. Len(entries)) = Len(entries)
  <2>1. 1 \in Int /\ Len(entries) \in Int
    BY <1>1
  <2>2. Cardinality(1 .. Len(entries)) = IF 1 > Len(entries) THEN 0 ELSE (Len(entries) - 1) + 1
    BY <2>1, FS_Interval
  <2>3. QED
    BY <1>1, <2>1, <2>2, FS_Interval
<1>3. S \subseteq 1 .. Len(entries)
  OBVIOUS
<1>4. IsFiniteSet(S) /\ Cardinality(S) <= Cardinality(1 .. Len(entries))
  BY <1>2, <1>3, FS_Subset
<1>5. Cardinality(S) \in Nat
  BY <1>4, FS_CardinalityType
<1>6. get_directory_total_items(entries) = Cardinality(S)
  BY DEF get_directory_total_items
<1>7. QED
  BY <1>1, <1>2, <1>4, <1>5, <1>6

(* An item that read_internal does not write has no name.                  *)
LEMMA ZeroedIsNoHit ==
  ASSUME NEW name \in Seq(Int) \ {<< >>}
  PROVE  strcasecmp(Zeroed.name, name) # 0
<1>1. Zeroed.name = << >> /\ << >> \in Seq(Int) /\ Len(<< >>) = 0
  BY DEF Zeroed
<1>2. name \in Seq(Int) /\ Len(name) # 0
  OBVIOUS
<1>3. QED
  BY <1>1, <1>2, EqualForStrcasecmp

(* A subdirectory of one cluster with its unused entries last is read up   *)
(* to them.                                                                *)
LEMMA LoadKeepsFirst ==
  ASSUME NEW c \in DOMAIN SubDirs, IsVolume, DirectoriesLoad,
         NEW name \in Seq(Int) \ {<< >>}, TellsApart(SubDirs[c], name)
  PROVE  find_item_in_directory(load_directory(c), name) = Lookup(SubDirs[c], name)
<1> DEFINE entries == SubDirs[c]
           N == Len(entries)
           n == get_directory_total_items(Raw[c])
           items == [i \in 1 .. n |-> IF i <= EntriesPerCluster THEN Raw[c][i] ELSE Zeroed]
           x == find_item_in_directory(items, name)
<1>1. load_directory(c) = items
  BY DEF load_directory
<1>2. N <= EntriesPerCluster /\ \A i \in 1 .. N : Unused(entries[i]) <=> i > n
  BY DEF DirectoriesLoad
<1>3. /\ entries \in Seq(Entry) /\ Raw[c] \in Seq(Entry)
      /\ \A i \in 1 .. EntriesPerCluster :
           /\ i <= N <=> i <= Len(Raw[c])
           /\ i <= N => entries[i] = Raw[c][i]
  BY DEF IsVolume
<1>4. N \in Nat /\ Len(Raw[c]) \in Nat /\ n \in 0 .. Len(Raw[c]) /\ n \in Nat
  BY <1>3, TotalItems
<1>5. EntriesPerCluster \in Nat
  BY FileAssumption
<1> HIDE DEF n, entries
<1>6. Len(items) = n /\ \A i \in 1 .. n : items[i] = IF i <= N THEN entries[i] ELSE Zeroed
  <2>1. ASSUME NEW i \in 1 .. n
        PROVE  items[i] = IF i <= N THEN entries[i] ELSE Zeroed
    <3>1. items[i] = IF i <= EntriesPerCluster THEN Raw[c][i] ELSE Zeroed
      OBVIOUS
    <3>2. i <= EntriesPerCluster => i \in 1 .. EntriesPerCluster /\ i <= Len(Raw[c])
      BY <1>4, <1>5
    <3>3. i <= EntriesPerCluster => i <= N /\ entries[i] = Raw[c][i]
      BY <1>3, <3>2
    <3>4. ~(i <= EntriesPerCluster) => ~(i <= N)
      BY <1>2, <1>4, <1>5
    <3>5. QED
      BY <3>1, <3>3, <3>4
  <2>2. QED
    BY <1>4, <2>1
<1> HIDE DEF items
<1>7. \A i \in 1 .. n :
        items[i] \in Hits(name) <=> i \in 1 .. N /\ entries[i] \in Named(name)
  <2>1. ASSUME NEW i \in 1 .. n, i <= N
        PROVE  items[i] \in Hits(name) <=> entries[i] \in Named(name)
    <3>1. i \in 1 .. N /\ ~(i > n)
      BY <1>4, <2>1
    <3>2. ~Unused(entries[i])
      BY <1>2, <3>1
    <3>3. entries[i] \in Hits(name) <=> entries[i] \in Named(name)
      BY <1>3, <3>1, <3>2, HitsAreNamed DEF entries
    <3>4. QED
      BY <1>6, <2>1, <3>3
  <2>2. ASSUME NEW i \in 1 .. n, ~(i <= N)
        PROVE  items[i] \notin Hits(name)
    BY <1>6, <2>2, ZeroedIsNoHit DEF Hits
  <2>3. \A i \in 1 .. n : i <= N <=> i \in 1 .. N
    BY <1>4
  <2>4. QED
    BY <2>1, <2>2, <2>3
<1>8. FirstOf(items, n, Hits(name), x)
  <2>1. \A i \in 1 .. n : items[i] \in Entry \/ strcasecmp(items[i].name, name) # 0
    <3>1. ASSUME NEW i \in 1 .. n, i <= N PROVE items[i] \in Entry
      <4>1. i \in 1 .. N
        BY <1>4, <3>1
      <4>2. QED
        BY <1>3, <1>6, <4>1
    <3>2. ASSUME NEW i \in 1 .. n, ~(i <= N) PROVE strcasecmp(items[i].name, name) # 0
      BY <1>6, <3>2, ZeroedIsNoHit
    <3>3. QED
      BY <3>1, <3>2
  <2>2. QED
    BY <1>4, <1>6, <2>1, FindIsFirst
<1>9. FirstOf(entries, N, Named(name), Lookup(entries, name))
  BY <1>3, LookupIsFirst
<1>10. \A i \in 1 .. N : i > n => entries[i] \notin Named(name)
  BY <1>2 DEF Named
<1> HIDE DEF x, N
<1>11. FirstOf(entries, N, Named(name), x)
  <2>1. CASE x = NoItem /\ \A j \in 1 .. n : items[j] \notin Hits(name)
    <3>1. \A j \in 1 .. N : j > n \/ j \in 1 .. n
      BY <1>4
    <3>2. \A j \in 1 .. N : entries[j] \notin Named(name)
      BY <1>7, <1>10, <2>1, <3>1
    <3>3. QED
      BY <2>1, <3>2 DEF FirstOf
  <2>2. CASE \E p \in 1 .. n : /\ items[p] \in Hits(name) /\ x = items[p]
                               /\ \A j \in 1 .. (p - 1) : items[j] \notin Hits(name)
    <3>1. PICK p \in 1 .. n : /\ items[p] \in Hits(name) /\ x = items[p]
                              /\ \A j \in 1 .. (p - 1) : items[j] \notin Hits(name)
      BY <2>2
    <3>2. p \in 1 .. N /\ entries[p] \in Named(name)
      BY <1>7, <3>1
    <3>3. x = entries[p]
      BY <1>4, <1>6, <3>1, <3>2
    <3>4. \A j \in 1 .. (p - 1) : j \in 1 .. n /\ j \in 1 .. N
      BY <1>4, <3>2
    <3>5. \A j \in 1 .. (p - 1) : entries[j] \notin Named(name)
      BY <1>7, <3>1, <3>4
    <3>6. QED
      BY <3>2, <3>3, <3>5 DEF FirstOf
  <2>3. QED
    BY <1>8, <2>1, <2>2 DEF FirstOf
<1>12. x = Lookup(entries, name)
  BY <1>4, <1>9, <1>11, FirstUnique
<1>13. QED
  BY <1>1, <1>12 DEF x, entries

----------------------------------------------------------------------------
(* Paths.  What each part of a path names on the volume.                   *)

Walked(path) ==
  CHOOSE step : step = [k \in 1 .. Len(path) |->
    IF k = 1 THEN Lookup(RootEntries, path[1])
    ELSE IF step[k - 1].attr = "dir"
         THEN Lookup(SubDirs[step[k - 1].cluster], path[k])
         ELSE NoItem]

\* What a lookup may give on a volume.
Found == {NoItem} \cup {e \in Entry : e.attr = "dir" => e.cluster \in DOMAIN SubDirs}

LEMMA LookupFinds ==
  ASSUME NEW entries \in Seq(Entry), NEW name,
         \A i \in 1 .. Len(entries) :
           entries[i].attr = "dir" => entries[i].cluster \in DOMAIN SubDirs
  PROVE  Lookup(entries, name) \in Found
<1>1. FirstOf(entries, Len(entries), Named(name), Lookup(entries, name))
  BY LookupIsFirst
<1>2. \A i \in 1 .. Len(entries) : entries[i] \in Entry
  OBVIOUS
<1>3. QED
  BY <1>1, <1>2 DEF FirstOf, Found

LEMMA SubDirFinds ==
  ASSUME IsVolume, NEW x \in Found, x.attr = "dir", NEW name
  PROVE  /\ x.cluster \in DOMAIN SubDirs /\ SubDirs[x.cluster] \in Seq(Entry)
         /\ Lookup(SubDirs[x.cluster], name) \in Found
<1>1. x.cluster \in DOMAIN SubDirs
  BY DEF Found, NoItem
<1> DEFINE entries == SubDirs[x.cluster]
<1>2. /\ entries \in Seq(Entry)
      /\ \A i \in 1 .. Len(entries) :
           entries[i].attr = "dir" => entries[i].cluster \in DOMAIN SubDirs
  BY <1>1 DEF IsVolume
<1> HIDE DEF entries
<1>3. Lookup(entries, name) \in Found
  BY <1>2, LookupFinds
<1>4. QED
  BY <1>1, <1>2, <1>3 DEF entries

LEMMA WalkedSteps ==
  ASSUME VolumeReadable, NEW path \in OpenPaths
  PROVE  /\ Len(path) \in Nat \ {0}
         /\ Resolve(path) = Walked(path)[Len(path)]
         /\ Walked(path)[1] = Lookup(RootEntries, path[1])
         /\ \A k \in 1 .. Len(path) : k # 1 =>
              Walked(path)[k] = IF Walked(path)[k - 1].attr = "dir"
                                THEN Lookup(SubDirs[Walked(path)[k - 1].cluster], path[k])
                                ELSE NoItem
         /\ \A k \in 1 .. Len(path) : Walked(path)[k] \in Found
<1> DEFINE L == Len(path)
           body(s) == [k \in 1 .. L |->
                         IF k = 1 THEN Lookup(RootEntries, path[1])
                         ELSE IF s[k - 1].attr = "dir"
                              THEN Lookup(SubDirs[s[k - 1].cluster], path[k])
                              ELSE NoItem]
           first == Lookup(RootEntries, path[1])
           g == [p \in Nat \X Found |->
                   IF p[2].attr = "dir" THEN Lookup(SubDirs[p[2].cluster], path[p[1] + 2])
                   ELSE NoItem]
<1>1. L \in Nat \ {0}
  BY DEF VolumeReadable
<1>2. first \in Found
  BY LookupFinds DEF VolumeReadable, IsVolume
<1>3. g \in Steps(Found)
  <2>1. ASSUME NEW p \in Nat \X Found PROVE g[p] \in Found
    <3>1. p[2] \in Found
      OBVIOUS
    <3>2. CASE p[2].attr = "dir"
      <4> DEFINE x == p[2]
                 n == path[p[1] + 2]
      <4>1. g[p] = Lookup(SubDirs[x.cluster], n)
        BY <3>2
      <4>2. x \in Found /\ x.attr = "dir"
        BY <3>1, <3>2
      <4> HIDE DEF x, n, g
      <4>3. Lookup(SubDirs[x.cluster], n) \in Found
        BY <4>2, SubDirFinds DEF VolumeReadable
      <4>4. QED
        BY <4>1, <4>3
    <3>3. CASE p[2].attr # "dir"
      <4>1. g[p] = NoItem
        BY <3>3
      <4>2. QED
        BY <4>1 DEF Found
    <3>4. QED
      BY <3>2, <3>3
  <2>2. QED
    BY <2>1 DEF Steps
<1>4. PICK h : IsIteration(h, Found, first, g)
  <2> HIDE DEF g, first
  <2>1. QED
    BY <1>2, <1>3, IterationExists
<1>5. \A j \in Nat : h[j] \in Found /\ h[j] = IF j = 0 THEN first ELSE g[<<j - 1, h[j - 1]>>]
  <2> HIDE DEF g, first
  <2>1. QED
    BY <1>4 DEF IsIteration
<1> DEFINE t == [k \in 1 .. L |-> h[k - 1]]
<1>6. t = body(t)
  <2>1. ASSUME NEW k \in 1 .. L
        PROVE  t[k] = IF k = 1 THEN first
                      ELSE IF t[k - 1].attr = "dir"
                           THEN Lookup(SubDirs[t[k - 1].cluster], path[k])
                           ELSE NoItem
    <3>1. t[k] = h[k - 1] /\ k - 1 \in Nat
      BY <1>1
    <3>2. CASE k = 1
      <4>1. h[0] = first
        <5> HIDE DEF g, first
        <5>1. 0 \in Nat
          OBVIOUS
        <5>2. QED
          BY <1>5, <5>1, Zenon
      <4>2. k - 1 = 0
        BY <3>2
      <4> HIDE DEF g, t, first
      <4>3. QED
        BY <3>1, <3>2, <4>1, <4>2
    <3>3. CASE k # 1
      <4>1. /\ (k - 1) - 1 \in Nat /\ k - 1 # 0 /\ ((k - 1) - 1) + 2 = k
            /\ t[k - 1] = h[(k - 1) - 1]
        BY <1>1, <3>3
      <4>2. h[k - 1] = g[<<(k - 1) - 1, h[(k - 1) - 1]>>] /\ h[(k - 1) - 1] \in Found
        <5> HIDE DEF g, first
        <5>1. QED
          BY <1>5, <3>1, <4>1
      <4> DEFINE i == (k - 1) - 1
                 x == h[(k - 1) - 1]
      <4>3. <<i, x>> \in Nat \X Found
        BY <4>1, <4>2
      <4>4. g[<<i, x>>] = IF x.attr = "dir" THEN Lookup(SubDirs[x.cluster], path[i + 2])
                          ELSE NoItem
        <5> HIDE DEF i, x
        <5>1. QED
          BY <4>3
      <4>5. g[<<i, x>>] = t[k] /\ x = t[k - 1] /\ i + 2 = k
        BY <3>1, <4>1, <4>2
      <4> HIDE DEF i, x, t, g
      <4>6. QED
        BY <3>3, <4>4, <4>5
    <3>4. QED
      BY <3>2, <3>3
  <2>2. QED
    BY <2>1
<1> HIDE DEF t
<1> DEFINE w == Walked(path)
<1>7. w = body(w)
  BY <1>6 DEF Walked
<1>8. Resolve(path) = w[L]
  BY DEF Resolve, Walked
<1> HIDE DEF w
<1>9. \A k \in 1 .. L : w[k] = IF k = 1 THEN first
                               ELSE IF w[k - 1].attr = "dir"
                                    THEN Lookup(SubDirs[w[k - 1].cluster], path[k])
                                    ELSE NoItem
  BY <1>7
<1> DEFINE A == {j \in Nat : j + 1 <= L => w[j + 1] \in Found}
<1>10. 0 \in A
  <2>1. 1 \in 1 .. L /\ 0 + 1 = 1
    BY <1>1
  <2>2. w[1] = first
    BY <1>9, <2>1
  <2>3. QED
    BY <1>2, <2>1, <2>2
<1>11. ASSUME NEW j \in A PROVE j + 1 \in A
  <2> SUFFICES ASSUME (j + 1) + 1 <= L PROVE w[(j + 1) + 1] \in Found
    OBVIOUS
  <2> DEFINE k == (j + 1) + 1
             x == w[k - 1]
  <2>1. j \in Nat /\ k \in 1 .. L /\ k # 1 /\ k - 1 = j + 1
    BY <1>1
  <2>2. x \in Found
    BY <1>1, <2>1
  <2>3. w[k] = IF x.attr = "dir" THEN Lookup(SubDirs[x.cluster], path[k]) ELSE NoItem
    BY <1>9, <2>1
  <2> HIDE DEF x, k
  <2>4. x.attr = "dir" => Lookup(SubDirs[x.cluster], path[k]) \in Found
    BY <2>2, SubDirFinds DEF VolumeReadable
  <2>5. w[k] \in Found
    BY <2>3, <2>4 DEF Found
  <2>6. QED
    BY <2>5 DEF k
<1>12. A \in SUBSET Nat
  OBVIOUS
<1>13. A = Nat
  <2> HIDE DEF A
  <2>1. QED
    BY <1>10, <1>11, <1>12, SetInduction
<1>14. \A k \in 1 .. L : w[k] \in Found
  <2>1. ASSUME NEW k \in 1 .. L PROVE w[k] \in Found
    <3>1. k - 1 \in Nat /\ (k - 1) + 1 = k /\ k <= L
      BY <1>1
    <3>2. k - 1 \in A
      <4> HIDE DEF A
      <4>1. QED
        BY <1>13, <3>1
    <3>3. QED
      BY <3>1, <3>2
  <2>2. QED
    BY <2>1
<1>15. w[1] = first /\ \A k \in 1 .. L : k # 1 =>
              w[k] = IF w[k - 1].attr = "dir"
                     THEN Lookup(SubDirs[w[k - 1].cluster], path[k]) ELSE NoItem
  BY <1>1, <1>9
<1>16. QED
  BY <1>1, <1>8, <1>14, <1>15 DEF w

(* Where a part names nothing, so does the path.                           *)
LEMMA AbsentStays ==
  ASSUME VolumeReadable, NEW path \in OpenPaths, NEW k \in 1 .. Len(path),
         Walked(path)[k] = NoItem
  PROVE  Resolve(path) = NoItem
<1> DEFINE L == Len(path)
           w == Walked(path)
           A == {j \in Nat : k + j <= L => w[k + j] = NoItem}
<1>1. /\ L \in Nat /\ k \in Nat /\ k <= L /\ w[k] = NoItem /\ Resolve(path) = w[L]
      /\ \A i \in 1 .. L : i # 1 =>
           w[i] = IF w[i - 1].attr = "dir"
                  THEN Lookup(SubDirs[w[i - 1].cluster], path[i]) ELSE NoItem
  BY WalkedSteps
<1> HIDE DEF w
<1>2. 0 \in A
  BY <1>1
<1>3. ASSUME NEW j \in A PROVE j + 1 \in A
  <2> SUFFICES ASSUME k + (j + 1) <= L PROVE w[k + (j + 1)] = NoItem
    OBVIOUS
  <2> DEFINE i == k + (j + 1)
  <2>1. i \in 1 .. L /\ i # 1 /\ i - 1 = k + j /\ k + j <= L
    BY <1>1
  <2>2. w[i - 1] = NoItem
    BY <2>1
  <2>3. w[i - 1].attr # "dir"
    BY <2>2 DEF NoItem
  <2>4. w[i] = NoItem
    BY <1>1, <2>1, <2>3
  <2>5. QED
    BY <2>4
<1>4. A \in SUBSET Nat
  OBVIOUS
<1>5. A = Nat
  <2> HIDE DEF A
  <2>1. QED
    BY <1>2, <1>3, <1>4, SetInduction
<1>6. L - k \in A /\ k + (L - k) = L
  BY <1>1, <1>5
<1>7. QED
  BY <1>1, <1>6

----------------------------------------------------------------------------
(* The walk of get_item.  As far as it has come it holds what the parts    *)
(* name, and where it fails the path names nothing.                        *)

WalkInv ==
  /\ call.pc # "idle" => call.path \in OpenPaths
  /\ call.pc = "walk" =>
       /\ call.part \in 1 .. (Len(call.path) + 1)
       /\ call.part # 1 => call.current = Walked(call.path)[call.part - 1]
  /\ FailsOnlyIfAbsent
  /\ OpensWhatPathNames

(* One lookup of get_item finds what the part names.                       *)
LEMMA FindsPart ==
  ASSUME VolumeReadable, WalkInv, call.pc = "walk", call.part <= Len(call.path), CanDescend
  PROVE  find_item_in_directory(SearchedItems, call.path[call.part])
           = Walked(call.path)[call.part]
<1> DEFINE path == call.path
           k == call.part
           name == path[k]
<1>1. /\ path \in OpenPaths /\ Len(path) \in Nat \ {0} /\ k \in 1 .. Len(path)
      /\ k # 1 => call.current = Walked(path)[k - 1]
      /\ Walked(path)[1] = Lookup(RootEntries, path[1])
      /\ k # 1 =>
           /\ Walked(path)[k] = IF Walked(path)[k - 1].attr = "dir"
                                THEN Lookup(SubDirs[Walked(path)[k - 1].cluster], name)
                                ELSE NoItem
           /\ Walked(path)[k - 1] \in Found
  <2>1. /\ path \in OpenPaths /\ k \in 1 .. (Len(path) + 1) /\ k <= Len(path)
        /\ k # 1 => call.current = Walked(path)[k - 1]
    BY DEF WalkInv
  <2> HIDE DEF path, k
  <2>2. Len(path) \in Nat \ {0}
    BY <2>1, WalkedSteps
  <2>3. k \in 1 .. Len(path) /\ (k # 1 => k - 1 \in 1 .. Len(path))
    BY <2>1, <2>2
  <2>4. QED
    BY <2>1, <2>2, <2>3, WalkedSteps
<1>2. name \in Seq(Int) \ {<< >>} /\ TellsApart(RootEntries, name)
      /\ \A c \in DOMAIN SubDirs : TellsApart(SubDirs[c], name)
  <2> HIDE DEF path, k
  <2>1. path \in Seq(Seq(Int) \ {<< >>})
    BY <1>1 DEF VolumeReadable
  <2>2. QED
    BY <1>1, <2>1 DEF VolumeReadable
<1> HIDE DEF name
<1>3. CASE k = 1
  <2>1. SearchedItems = InUse(RootEntries)
    BY <1>3 DEF SearchedItems, root_directory
  <2>2. find_item_in_directory(InUse(RootEntries), name) = Lookup(RootEntries, name)
    BY <1>2, InUseKeepsFirst DEF VolumeReadable, IsVolume
  <2>3. QED
    BY <1>1, <1>3, <2>1, <2>2 DEF name
<1>4. CASE k # 1
  <2> DEFINE x == Walked(path)[k - 1]
  <2>1. call.current = x /\ x \in Found /\ x.attr = "dir"
    BY <1>1, <1>4 DEF CanDescend
  <2>2. Walked(path)[k] = Lookup(SubDirs[x.cluster], name)
    BY <1>1, <1>4, <2>1
  <2>3. SearchedItems = load_directory(x.cluster)
    BY <1>4, <2>1 DEF SearchedItems
  <2> HIDE DEF x, path, k
  <2>4. x.cluster \in DOMAIN SubDirs /\ SubDirs[x.cluster] \in Seq(Entry)
    BY <2>1, SubDirFinds DEF VolumeReadable
  <2> DEFINE c == x.cluster
  <2>5. c \in DOMAIN SubDirs /\ SubDirs[c] \in Seq(Entry) /\ TellsApart(SubDirs[c], name)
    BY <1>2, <2>4
  <2> HIDE DEF c
  <2>6. find_item_in_directory(load_directory(c), name) = Lookup(SubDirs[c], name)
    BY <1>2, <2>5, LoadKeepsFirst DEF VolumeReadable
  <2>7. QED
    BY <2>2, <2>3, <2>6 DEF c, name, path, k
<1>5. QED
  BY <1>3, <1>4

(* A step of fopen keeps the walk on its path.                             *)
LEMMA WalkStep ==
  ASSUME VolumeReadable, Inv, WalkInv, [Next]_vars
  PROVE  WalkInv'
<1> DEFINE CallOK ==
             /\ call.pc # "idle" => call.path \in OpenPaths
             /\ call.pc = "walk" =>
                  /\ call.part \in 1 .. (Len(call.path) + 1)
                  /\ call.part # 1 => call.current = Walked(call.path)[call.part - 1]
             /\ FailsOnlyIfAbsent
<1>1. CallOK
  BY DEF WalkInv
<1>2. OpensWhatPathNames
  BY DEF WalkInv
<1>3. /\ call = [pc |-> call.pc, path |-> call.path, part |-> call.part,
                 current |-> call.current]
      /\ file_descriptors = [fd \in fds |-> file_descriptors[fd]]
      /\ \A fd \in fds : LET d == file_descriptors[fd]
                         IN  d = [path |-> d.path, item |-> d.item, pos |-> d.pos,
                                  state |-> d.state]
  BY DEF Inv, Call, Table, IsDescriptor
<1>4. ASSUME UNCHANGED call PROVE CallOK'
  BY <1>1, <1>4 DEF FailsOnlyIfAbsent
<1>5. ASSUME UNCHANGED file_descriptors PROVE OpensWhatPathNames'
  BY <1>2, <1>5 DEF OpensWhatPathNames
<1>6. ASSUME call' = NoCall PROVE CallOK'
  BY <1>6 DEF NoCall, FailsOnlyIfAbsent
<1>7. ASSUME CallOK', OpensWhatPathNames' PROVE WalkInv'
  BY <1>7 DEF WalkInv
<1>8. CASE \E drive \in Drives, path \in OpenPaths, mode \in Modes : fopen(drive, path, mode)
  <2>1. PICK path \in OpenPaths :
          call' = [pc |-> "walk", path |-> path, part |-> 1, current |-> NoItem]
    BY <1>8 DEF fopen
  <2>2. Len(path) \in Nat
    BY FileAssumption
  <2>3. CallOK'
    BY <2>1, <2>2 DEF FailsOnlyIfAbsent
  <2>4. UNCHANGED file_descriptors
    BY <1>8 DEF fopen
  <2>5. QED
    BY <1>5, <1>7, <2>3, <2>4
<1>9. CASE get_item
  <2> DEFINE path == call.path
             k == call.part
             next == find_item_in_directory(SearchedItems, path[k])
  <2>1. /\ call.pc = "walk" /\ k <= Len(path) /\ CanDescend /\ UNCHANGED file_descriptors
        /\ call' = [call EXCEPT !.part = @ + 1, !.current = next,
                                !.pc = IF next = NoItem THEN "fail" ELSE "walk"]
    BY <1>9 DEF get_item
  <2>2. next = Walked(path)[k]
    BY <2>1, FindsPart
  <2>3. path \in OpenPaths /\ k \in 1 .. (Len(path) + 1) /\ Len(path) \in Nat
    BY <1>1, <2>1, FileAssumption
  <2> HIDE DEF next
  <2>4. call' = [pc |-> IF next = NoItem THEN "fail" ELSE "walk", path |-> path,
                 part |-> k + 1, current |-> next]
    BY <1>3, <2>1
  <2> HIDE DEF path, k
  <2>5. k \in 1 .. Len(path) /\ k + 1 \in 1 .. (Len(path) + 1) /\ (k + 1) - 1 = k
    BY <2>1, <2>3 DEF k, path
  <2>6. next = NoItem => Resolve(path) = NoItem
    BY <2>2, <2>3, <2>5, AbsentStays
  <2>7. CallOK'
    BY <2>2, <2>3, <2>4, <2>5, <2>6 DEF FailsOnlyIfAbsent
  <2>8. QED
    BY <1>5, <1>7, <2>1, <2>7
<1>10. CASE NotADirectory
  <2> DEFINE path == call.path
             k == call.part
  <2>1. /\ call.pc = "walk" /\ k <= Len(path) /\ k # 1 /\ call.current.attr # "dir"
        /\ UNCHANGED file_descriptors /\ call' = [call EXCEPT !.pc = "fail"]
    BY <1>10 DEF NotADirectory, CanDescend
  <2>2. /\ path \in OpenPaths /\ k \in 1 .. (Len(path) + 1) /\ Len(path) \in Nat
        /\ call.current = Walked(path)[k - 1]
    BY <1>1, <2>1, FileAssumption
  <2>3. call' = [pc |-> "fail", path |-> path, part |-> k, current |-> call.current]
    BY <1>3, <2>1
  <2>4. k \in 1 .. Len(path)
    BY <2>1, <2>2
  <2>5. Walked(path)[k - 1].attr # "dir"
    BY <2>1, <2>2
  <2>6. k # 1
    BY <2>1
  <2> HIDE DEF path, k
  <2>7. Walked(path)[k] = NoItem
    BY <2>2, <2>4, <2>5, <2>6, WalkedSteps
  <2>8. Resolve(path) = NoItem
    BY <2>2, <2>4, <2>7, AbsentStays
  <2>9. CallOK'
    BY <2>2, <2>3, <2>8 DEF FailsOnlyIfAbsent
  <2>10. QED
    BY <1>5, <1>7, <2>1, <2>9
<1>11. CASE OpenFailed \/ TableFull
  BY <1>5, <1>6, <1>7, <1>11 DEF OpenFailed, TableFull
<1>12. CASE new_file_descriptor
  <2> DEFINE path == call.path
             k == call.part
             fd == Min(FreeSlots)
             e == [path |-> call.path, item |-> call.current, pos |-> 0, state |-> "open"]
  <2>1. /\ call.pc = "walk" /\ k > Len(path)
        /\ file_descriptors' = [file_descriptors EXCEPT ![fd] = e] /\ call' = NoCall
    BY <1>12 DEF new_file_descriptor, WalkDone
  <2>2. path \in OpenPaths /\ k \in 1 .. (Len(path) + 1)
    BY <1>1, <2>1
  <2>3. Len(path) \in Nat \ {0} /\ Resolve(path) = Walked(path)[Len(path)]
    <3> HIDE DEF path
    <3>1. QED
      BY <2>2, WalkedSteps
  <2>4. k # 1 /\ k - 1 = Len(path)
    BY <2>1, <2>2, <2>3
  <2>5. call.current = Resolve(path)
    BY <1>1, <2>1, <2>3, <2>4
  <2>6. e.item = Resolve(e.path)
    BY <2>5
  <2>7. fd \in fds
    BY <1>12, FreeSlotIsNull DEF new_file_descriptor
  <2> HIDE DEF e, fd
  <2>8. \A i \in fds : file_descriptors'[i] = IF i = fd THEN e ELSE file_descriptors[i]
    BY <1>3, <2>1, <2>7
  <2>9. OpensWhatPathNames'
    BY <1>2, <2>6, <2>8 DEF OpensWhatPathNames
  <2>10. QED
    BY <1>6, <1>7, <2>1, <2>9
<1>13. CASE \E fd \in fds : UNCHANGED call /\
              \E d : /\ file_descriptors' = [file_descriptors EXCEPT ![fd] = d]
                     /\ d.path = file_descriptors[fd].path
                     /\ d.item = file_descriptors[fd].item
                     /\ d.state = "open" => file_descriptors[fd].state = "open"
  <2>0. PICK fd \in fds : UNCHANGED call /\
          \E d : /\ file_descriptors' = [file_descriptors EXCEPT ![fd] = d]
                 /\ d.path = file_descriptors[fd].path
                 /\ d.item = file_descriptors[fd].item
                 /\ d.state = "open" => file_descriptors[fd].state = "open"
    BY <1>13
  <2>1. PICK d : /\ UNCHANGED call
                 /\ file_descriptors' = [file_descriptors EXCEPT ![fd] = d]
                 /\ d.path = file_descriptors[fd].path
                 /\ d.item = file_descriptors[fd].item
                 /\ d.state = "open" => file_descriptors[fd].state = "open"
    BY <2>0
  <2>2. \A i \in fds : file_descriptors'[i] = IF i = fd THEN d ELSE file_descriptors[i]
    BY <1>3, <2>1
  <2>3. OpensWhatPathNames'
    BY <1>2, <2>1, <2>2 DEF OpensWhatPathNames
  <2>4. QED
    BY <1>4, <1>7, <2>1, <2>3
<1>14. ASSUME NEW fd, NEW offset, NEW whence, fseek(fd, offset, whence) PROVE WalkInv'
  <2>1. fd \in fds /\ UNCHANGED call
    BY <1>14 DEF fseek, HasFile
  <2>2. PICK pos : file_descriptors' = [file_descriptors EXCEPT ![fd].pos = pos]
    BY <1>14 DEF fseek
  <2> DEFINE d == file_descriptors[fd]
             e == [d EXCEPT !.pos = pos]
  <2>3. d = [path |-> d.path, item |-> d.item, pos |-> d.pos, state |-> d.state]
    BY <1>3, <2>1
  <2>4. e.path = d.path /\ e.item = d.item /\ e.state = d.state
    BY <2>3
  <2>5. file_descriptors' = [file_descriptors EXCEPT ![fd] = e]
    BY <2>2
  <2> HIDE DEF e
  <2>6. QED
    BY <1>13, <2>1, <2>4, <2>5
<1>15. ASSUME NEW fd, fclose(fd) PROVE WalkInv'
  <2>1. fd \in fds /\ UNCHANGED call
        /\ file_descriptors' = [file_descriptors EXCEPT ![fd].state = "closed"]
    BY <1>15 DEF fclose, HasFile
  <2> DEFINE d == file_descriptors[fd]
             e == [d EXCEPT !.state = "closed"]
  <2>2. d = [path |-> d.path, item |-> d.item, pos |-> d.pos, state |-> d.state]
    BY <1>3, <2>1
  <2>3. e.path = d.path /\ e.item = d.item /\ e.state = "closed"
    BY <2>2
  <2>4. file_descriptors' = [file_descriptors EXCEPT ![fd] = e]
    BY <2>1
  <2> HIDE DEF e
  <2>5. QED
    BY <1>13, <2>1, <2>3, <2>4
<1>16. CASE UNCHANGED <<call, file_descriptors>>
  BY <1>4, <1>5, <1>7, <1>16
<1>17. CASE Opening
  BY <1>9, <1>10, <1>11, <1>12, <1>17 DEF Opening
<1>18. CASE OnDescriptor
  BY <1>14, <1>15, <1>16, <1>18 DEF OnDescriptor, RefuseFd, fread, fstat
<1>19. CASE search_and_initialize \/ fopen_invalid \/ UNCHANGED vars
  BY <1>16, <1>19 DEF search_and_initialize, fopen_invalid, vars
<1>20. CASE \E drive \in Drives, path \in OpenPaths, mode \in Modes :
              fopen_refused(drive, path, mode)
  BY <1>16, <1>20 DEF fopen_refused
<1>21. QED
  BY <1>8, <1>17, <1>18, <1>19, <1>20 DEF Next

LEMMA WalkAlways ==
  ASSUME VolumeReadable
  PROVE  Spec => []WalkInv
<1>1. Init => WalkInv
  BY DEF Init, WalkInv, NoCall, Null, FailsOnlyIfAbsent, OpensWhatPathNames
<1>2. Inv /\ WalkInv /\ [Next]_vars => WalkInv'
  BY WalkStep
<1>3. QED
  BY <1>1, <1>2, InvAlways, PTL DEF Spec

(* On a readable volume every open descriptor refers to the entry that its *)
(* path names, over any sequence of opens, seeks and closes: what get_item *)
(* loads and searches part by part is what Resolve says of the whole path. *)
THEOREM FileOpensWhatPathNames ==
  ASSUME VolumeReadable
  PROVE  Spec => []OpensWhatPathNames
<1>1. WalkInv => OpensWhatPathNames
  BY DEF WalkInv
<1>2. QED
  BY <1>1, WalkAlways, PTL

(* On a readable volume get_item gives up only where the path names        *)
(* nothing: no entry that is there is missed.                              *)
THEOREM FileFailsOnlyIfAbsent ==
  ASSUME VolumeReadable
  PROVE  Spec => []FailsOnlyIfAbsent
<1>1. WalkInv => FailsOnlyIfAbsent
  BY DEF WalkInv
<1>2. QED
  BY <1>1, WalkAlways, PTL

============================================================================
