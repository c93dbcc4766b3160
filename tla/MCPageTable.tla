---------------------------- MODULE MCPageTable ----------------------------
(* Model-checking instance of PageTable.                                   *)
EXTENDS PageTable, TLC
=============================================================================
