----------------------------- MODULE MCBCacheOld -----------------------------
(* Model-checking instance of BCacheOld, with symmetry over the threads.   *)
EXTENDS BCacheOld, TLC

ThreadSymmetry == Permutations(Threads)
=============================================================================
