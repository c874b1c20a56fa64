---------------------------- MODULE FirstFitLoop ----------------------------
(***************************************************************************)
(* The two nested loops of find_first_fit_start_block, step by step:       *)
(* kernel/mm/heap/find_first_fit_strategy.cpp.  HeapTable states what they *)
(* return as one expression; here the loops themselves are run.            *)
(***************************************************************************)
EXTENDS HeapTable

CONSTANTS
  Tables,    \* the tables the search is run on
  Requests   \* the aligned sizes it is asked for

ASSUME SearchAssumption ==
  /\ Tables \subseteq Table
  /\ Requests \subseteq Nat

VARIABLES
  tbl, block_size,               \* the arguments
  pc,                            \* "outer", "inner" or "done"
  idx, idx_range,                \* the loop indices
  contiguous_block_count,
  result                         \* the return value

search_vars == <<tbl, block_size, pc, idx, idx_range, contiguous_block_count, result>>
args == <<tbl, block_size>>

SearchInit ==
  /\ tbl \in Tables
  /\ block_size \in Requests
  /\ pc = "outer"
  /\ idx = 0
  /\ idx_range = 0
  /\ contiguous_block_count = 0
  /\ result = 0

\* A mutant keeps the count of the run it has left.
EnterRun_noreset ==
  /\ pc = "outer"
  /\ idx < TotalEntries
  /\ idx_range' = idx
  /\ pc' = "inner"
  /\ UNCHANGED <<args, idx, contiguous_block_count, result>>

EnterRun ==
  /\ pc = "outer"
  /\ idx < TotalEntries
  /\ contiguous_block_count' = 0
  /\ idx_range' = idx
  /\ pc' = "inner"
  /\ UNCHANGED <<args, idx, result>>

NoRunLeft ==
  /\ pc = "outer"
  /\ idx >= TotalEntries
  /\ result' = -ENOMEM
  /\ pc' = "done"
  /\ UNCHANGED <<args, idx, idx_range, contiguous_block_count>>

RunContinues == idx_range < TotalEntries /\ IsFree(tbl, idx_range)

CountBlock ==
  /\ pc = "inner"
  /\ RunContinues
  /\ contiguous_block_count' = contiguous_block_count + 1
  /\ idx_range' = idx_range + 1
  /\ UNCHANGED <<args, pc, idx, result>>

\* A mutant asks for more than the run's size.
BigEnough_strict == contiguous_block_count * BlockSize > block_size

BigEnough == contiguous_block_count * BlockSize >= block_size

ReturnRun ==
  /\ pc = "inner"
  /\ ~RunContinues
  /\ BigEnough
  /\ result' = idx
  /\ pc' = "done"
  /\ UNCHANGED <<args, idx, idx_range, contiguous_block_count>>

\* A mutant continues at the taken block instead of after it.
SkipRun_stuck ==
  /\ pc = "inner"
  /\ ~RunContinues
  /\ ~BigEnough
  /\ idx' = idx_range
  /\ pc' = "outer"
  /\ UNCHANGED <<args, idx_range, contiguous_block_count, result>>

SkipRun ==
  /\ pc = "inner"
  /\ ~RunContinues
  /\ ~BigEnough
  /\ idx' = idx_range + 1
  /\ pc' = "outer"
  /\ UNCHANGED <<args, idx_range, contiguous_block_count, result>>

SearchNext == EnterRun \/ NoRunLeft \/ CountBlock \/ ReturnRun \/ SkipRun

SearchSpec == SearchInit /\ [][SearchNext]_search_vars

\* Nothing interrupts the search: the CPU keeps executing it.
FairSearchSpec == SearchSpec /\ WF_search_vars(SearchNext)

----------------------------------------------------------------------------
(* Type invariant of the search: the indices never leave the table by more *)
(* than the one step that ends a loop.                                     *)
SearchTypeOK ==
  /\ tbl \in Table
  /\ block_size \in Nat
  /\ pc \in {"outer", "inner", "done"}
  /\ idx \in 0 .. (TotalEntries + 1)
  /\ idx_range \in 0 .. TotalEntries
  /\ contiguous_block_count \in 0 .. TotalEntries
  /\ result \in Blocks \cup {-ENOMEM}

Fits(i) ==
  \E n \in 0 .. (TotalEntries - i) :
    /\ n * BlockSize >= block_size
    /\ \A b \in i .. (i + n - 1) : IsFree(tbl, b)

(* What the search returns is the lowest block of the whole table from     *)
(* which block_size bytes are free, and -ENOMEM only if there is none,     *)
(* although it never looks at a start inside a run it has given up.        *)
LowestFit ==
  pc = "done" =>
    /\ result \in Blocks => Fits(result)
    /\ \A i \in Blocks : (result \in Blocks => i < result) => ~Fits(i)

(* The loops compute the expression that HeapTable uses for them.          *)
ComputesFirstFit ==
  pc = "done" => result = find_first_fit_start_block(tbl, block_size)

(* The search ends.                                                        *)
SearchEnds == <>(pc = "done")

============================================================================
