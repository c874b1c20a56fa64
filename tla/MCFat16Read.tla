---------------------------- MODULE MCFat16Read ----------------------------
(***************************************************************************)
(* Positions for Fat16Read: -1 is the unsigned position 2^32 - 1, which    *)
(* fat16_read passes on as an int.                                         *)
(***************************************************************************)
EXTENDS Fat16Read

MCOffsets == -1 .. 5

============================================================================
