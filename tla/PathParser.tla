----------------------------- MODULE PathParser -----------------------------
(***************************************************************************)
(* The path parser, kernel/fs/path_parser.cpp: a path such as 0:/a/b       *)
(* becomes a list of parts on the kernel heap, which free gives back.      *)
(*                                                                         *)
(* A path is a sequence of characters.  The heap is counted in             *)
(* allocations; once HeapCapacity are in use kzalloc returns one and the   *)
(* same pointer for every further request (see KHeap), so the list of      *)
(* parts stops growing and only aliased says that it happened.             *)
(***************************************************************************)
EXTENDS Integers, Sequences, FiniteSets

CONSTANTS
  Chars,            \* the characters of a path
  Paths,            \* the strings that parse is called with
  Digits,           \* the characters for which isdigit holds
  MAX_PATH_LENGTH,
  HeapCapacity      \* allocations that the heap can hold

ASSUME PathAssumption ==
  /\ Paths \subseteq Seq(Chars)
  /\ "nullptr" \notin Chars
  /\ MAX_PATH_LENGTH \in Nat
  /\ HeapCapacity \in Nat \ {0}

VARIABLES
  path,      \* the argument
  pc,        \* "parse", "parts", "returned", "freed"
  tmp_path,  \* index of the next character; Len(path) + 1 is the terminator
  parts,     \* the names in the list of path_parts, NullName for nullptr
  root,      \* "null", or "root" once create_root has run
  used,      \* allocations held
  aliased    \* a request was made when the heap was exhausted

vars == <<path, pc, tmp_path, parts, root, used, aliased>>

NullName == <<"nullptr">>

Terminator == Len(path) + 1

Init ==
  /\ path \in Paths
  /\ pc = "parse"
  /\ tmp_path = 1
  /\ parts = << >>
  /\ root = "null"
  /\ used = 0
  /\ aliased = FALSE

validate_path(p) ==
  /\ Len(p) >= 3
  /\ p[1] \in Digits
  /\ p[2] = ":"
  /\ p[3] = "/"

\* n further allocations, or as many as there are.
Allocate(n) ==
  /\ used' = IF used + n <= HeapCapacity THEN used + n ELSE HeapCapacity
  /\ aliased' = (aliased \/ used + n > HeapCapacity)

\* The string that get_drive allocates is freed before it returns.
Reject ==
  /\ pc = "parse"
  /\ Len(path) > MAX_PATH_LENGTH \/ ~validate_path(path)
  /\ pc' = "returned"
  /\ UNCHANGED <<path, tmp_path, parts, root, used, aliased>>

create_root ==
  /\ pc = "parse"
  /\ Len(path) <= MAX_PATH_LENGTH
  /\ validate_path(path)
  /\ Allocate(1)
  /\ root' = "root"
  /\ tmp_path' = 4
  /\ pc' = "first"
  /\ UNCHANGED <<path, parts>>

\* Where the component that starts at from ends: the next '/' or the end.
PartEnd(from) ==
  CHOOSE e \in from .. Terminator :
    /\ e = Terminator \/ path[e] = "/"
    /\ \A c \in from .. (e - 1) : path[c] # "/"

\* Mutants leave the pointer on the slash, or step over the terminator too.
SkipSlash_not(e) == e

SkipSlash_past(e) == e + 1

SkipSlash(e) == IF e < Terminator THEN e + 1 ELSE e

\* get_path_part_str and the new path_part around its result.  An empty
\* component gives a null name and does not move the pointer.
parse_path_part ==
  LET end  == PartEnd(tmp_path)
      name == SubSeq(path, tmp_path, end - 1)
      none == end = tmp_path
      need == IF none THEN 1 ELSE 2
  IN  /\ tmp_path' = IF none THEN tmp_path ELSE SkipSlash(end)
      /\ Allocate(need)
      /\ parts' = IF used + need <= HeapCapacity
                  THEN Append(parts, IF none THEN NullName ELSE name)
                  ELSE parts
      /\ UNCHANGED <<path, root>>

\* The first part is parsed whatever follows the drive.
FirstPart == pc = "first" /\ parse_path_part /\ pc' = "parts"

NextPart == pc = "parts" /\ tmp_path # Terminator /\ parse_path_part /\ UNCHANGED pc

\* A mutant stops before the last character.
Finished_early ==
  /\ pc = "parts"
  /\ tmp_path >= Terminator - 1
  /\ pc' = "returned"
  /\ UNCHANGED <<path, tmp_path, parts, root, used, aliased>>

Finished ==
  /\ pc = "parts"
  /\ tmp_path = Terminator
  /\ pc' = "returned"
  /\ UNCHANGED <<path, tmp_path, parts, root, used, aliased>>

\* What free gives back: the root, and per part the node and its name; kfree
\* of a null name does nothing.
HeldBy(ps) ==
  1 + Len(ps) + Cardinality({i \in 1 .. Len(ps) : ps[i] # NullName})

\* A mutant of free forgets the names.
free_nodes ==
  /\ pc = "returned"
  /\ root = "root"
  /\ used' = used - (1 + Len(parts))
  /\ root' = "null"
  /\ parts' = << >>
  /\ pc' = "freed"
  /\ UNCHANGED <<path, tmp_path, aliased>>

free ==
  /\ pc = "returned"
  /\ root = "root"
  /\ used' = used - HeldBy(parts)
  /\ root' = "null"
  /\ parts' = << >>
  /\ pc' = "freed"
  /\ UNCHANGED <<path, tmp_path, aliased>>

parse == Reject \/ create_root \/ FirstPart \/ NextPart \/ Finished

Next == parse \/ free

Spec == Init /\ [][Next]_vars

\* Nothing interrupts parse.
FairSpec == Spec /\ WF_vars(parse)

----------------------------------------------------------------------------
(* Type invariant; the pointer never passes the terminator.                *)
TypeOK ==
  /\ path \in Paths
  /\ pc \in {"parse", "first", "parts", "returned", "freed"}
  /\ tmp_path \in 1 .. Terminator
  /\ parts \in Seq({NullName} \cup Seq(Chars))
  /\ root \in {"null", "root"}
  /\ used \in 0 .. HeapCapacity
  /\ aliased \in BOOLEAN

\* The components of a path as a reader sees them: the maximal runs without a
\* slash behind the drive, in the order of their starts.
Starts(p) == {b \in 4 .. Len(p) : p[b] # "/" /\ p[b - 1] = "/"}

Ends(p, b) == {e \in b .. Len(p) :
                 (e = Len(p) \/ p[e + 1] = "/") /\ \A c \in b .. e : p[c] # "/"}

Rank(p, b) == Cardinality({y \in Starts(p) : y <= b})

Components(p) ==
  [i \in 1 .. Cardinality(Starts(p)) |->
     LET b == CHOOSE x \in Starts(p) : Rank(p, x) = i
     IN  SubSeq(p, b, CHOOSE e \in Ends(p, b) : TRUE)]

(* parse returns the components of the path in order, and one nameless     *)
(* part for the bare drive.                                                *)
PartsAreComponents ==
  pc = "returned" /\ root = "root" /\ ~aliased =>
    parts = IF Components(path) = << >> THEN <<NullName>> ELSE Components(path)

(* free gives back all that parse took.                                    *)
FreeReleasesAll == pc = "freed" /\ ~aliased => used = 0

(* parse returns.  path_parser.cpp accepts every path of the form          *)
(* "[0-9]:/.*".                                                            *)
ParseReturns == <>(pc \in {"returned", "freed"})

============================================================================
