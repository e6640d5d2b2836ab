---------------------------- MODULE MCAllocCache ----------------------------
(* A small instance of AllocCache.                                         *)
EXTENDS AllocCache, TLC

CONSTANTS t1, t2

Symmetric == Permutations(Threads)
=============================================================================
