--------------------------- MODULE MCFirstFitLoop ---------------------------
(***************************************************************************)
(* The search on every table of free, single and chained entries.          *)
(***************************************************************************)
EXTENDS FirstFitLoop

MCTables == [Blocks -> {FREE, {TAKEN}, {TAKEN, HAS_NEXT}}]

============================================================================
