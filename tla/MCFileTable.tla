---------------------------- MODULE MCFileTable ----------------------------
(***************************************************************************)
(* Small volumes for FileTable.                                            *)
(***************************************************************************)
EXTENDS FileTable, TLC

File(name, cluster) ==
  [name |-> name, attr |-> "file", cluster |-> cluster, filesize |-> 1, ro |-> FALSE]
Dir(name, cluster) ==
  [name |-> name, attr |-> "dir", cluster |-> cluster, filesize |-> 0, ro |-> FALSE]
Gone(name) ==
  [name |-> <<DELETED>> \o name, attr |-> "file", cluster |-> 9, filesize |-> 1, ro |-> FALSE]

\* Letters: A, a, b, d, f.
A == 65
a == 97
b == 98
d == 100
f == 102

\* /A  /dd/bbbb  /dd/bbbbbb, which is empty, and in /dd/ddd: aa, a (read-only),
\* bbb and bbbb.  Names of one directory have different lengths; an unused
\* entry comes first in the root and last in a subdirectory.  /dd/ddd fills its
\* cluster, so the count runs on into the next one, where fffff belongs to
\* something else.
MCRoot == <<Gone(<<a>>), File(<<A>>, 2), Dir(<<d, d>>, 3)>>
MCSubDirs == 3 :> <<Dir(<<b, b, b, b, b, b>>, 8), File(<<b, b, b, b>>, 5),
                    Dir(<<d, d, d>>, 4), Gone(<<b>>)>>
             @@ 4 :> <<File(<<a, a>>, 6), [File(<<a>>, 7) EXCEPT !.ro = TRUE],
                       File(<<b, b, b>>, 9), File(<<b, b, b, b>>, 10)>>
             @@ 8 :> << >>
MCRaw == [c \in DOMAIN MCSubDirs |->
            IF c = 4 THEN Append(MCSubDirs[4], File(<<f, f, f, f, f>>, 12)) ELSE MCSubDirs[c]]

MCOpenPaths == {<<(<<a>>)>>, <<(<<d, d>>)>>,
                <<(<<d, d>>), (<<d, d, d>>), (<<a>>)>>,
                <<(<<d, d>>), (<<d, d, d>>), (<<f, f, f, f, f>>)>>,
                <<(<<d, d>>), (<<b, b, b, b, b, b>>), (<<a>>)>>,
                <<(<<a>>), (<<f>>)>>,
                <<(<<d, d>>), (<<f, f>>), (<<f>>)>>}

\* Two files whose names have the same length.
SameLengthRoot == <<File(<<b>>, 2), File(<<a>>, 3)>>
SameLengthPaths == {<<(<<a>>)>>, <<(<<b>>)>>}

\* Mode strings that begin with r, a and the character 1.
MCModes == {114, 97, 49}

\* Backwards, so that the unsigned position wraps.
MCOffsets == {-1}

\* What the theorems on lookups assume of a volume holds of the first one.
ASSUME MCVolumeReadable == RootEntries = MCRoot => VolumeReadable

============================================================================
