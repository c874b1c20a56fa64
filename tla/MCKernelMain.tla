---------------------------- MODULE MCKernelMain ----------------------------
(***************************************************************************)
(* Small volumes for KernelMain.                                           *)
(***************************************************************************)
EXTENDS KernelMain

MCVolumes ==
  {[root |-> FALSE, dir |-> "absent",  sectors_per_cluster |-> 1],
   [root |-> TRUE,  dir |-> "file",    sectors_per_cluster |-> 1],
   [root |-> FALSE, dir |-> "no file", sectors_per_cluster |-> 1],
   [root |-> TRUE,  dir |-> "absent",  sectors_per_cluster |-> 0],
   [root |-> FALSE, dir |-> "no file", sectors_per_cluster |-> 0]}

\* What the theorems on printing assume of the files.
ASSUME MCStatFits == StatFits

============================================================================
