------------------------------ MODULE HeapAbs ------------------------------
(***************************************************************************)
(* What the kernel heap promises, without tables or chains: a set of       *)
(* pairwise disjoint runs of blocks that grows by a free run and shrinks   *)
(* by a held one.  A failed allocation and the release of a pointer that   *)
(* is not held change nothing.  The allocator may also stop for good.      *)
(***************************************************************************)
EXTENDS Integers

CONSTANT HeapSize   \* number of blocks

VARIABLES
  held,     \* the runs of blocks in use, as records [first, len]
  halted

vars == <<held, halted>>

Runs == {r \in [first : 0 .. (HeapSize - 1), len : 1 .. HeapSize] :
           r.first + r.len <= HeapSize}

BlocksOf(r) == r.first .. (r.first + r.len - 1)

Init == held = {} /\ halted = FALSE

Alloc(r) ==
  /\ ~halted
  /\ \A h \in held : BlocksOf(h) \cap BlocksOf(r) = {}
  /\ held' = held \cup {r}
  /\ UNCHANGED halted

Release(r) ==
  /\ ~halted
  /\ held' = held \ {r}
  /\ UNCHANGED halted

Halt ==
  /\ ~halted
  /\ halted' = TRUE
  /\ held' = {}

Next == (\E r \in Runs : Alloc(r)) \/ (\E r \in held : Release(r)) \/ Halt

Spec == Init /\ [][Next]_vars

============================================================================
