------------------------------ MODULE MCKHeap ------------------------------
(***************************************************************************)
(* Instances of KHeap for TLC.                                             *)
(***************************************************************************)
EXTENDS KHeap

\* What the table memory at 0x7E00 may hold: two kinds of entry are enough to
\* tell an initialised table from one that was left as it was.
MCGarbage == {FREE, {TAKEN, HAS_NEXT}}

============================================================================
