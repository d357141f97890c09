----------------------------- MODULE MCMutexes -----------------------------
(* A small instance of Mutexes for TLC. *)
EXTENDS Mutexes, TLC

Symmetry == Permutations(ApiThreads)
=============================================================================
