----------------------------- MODULE MCProcess -----------------------------
(***************************************************************************)
(* Small programs for Process.  A page has 24 bytes and a table 12 entries.*)
(***************************************************************************)
EXTENDS Process

Missing    == [kind |-> "missing", size |-> 0]
Directory  == [kind |-> "dir", size |-> 0]
Bytes(n)   == [kind |-> "file", size |-> n]

\* An empty file, one that ends inside a page, and one of four pages.
MCFiles == {Missing, Directory, Bytes(0), Bytes(25), Bytes(96)}

============================================================================
