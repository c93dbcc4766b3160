------------------------------ MODULE MCBCache ------------------------------
(* Model-checking instance of BCache: threads are model values, and are   *)
(* interchangeable, so the runs use symmetry over them.                    *)
EXTENDS BCache, TLC

ThreadSymmetry == Permutations(Threads)
=============================================================================
