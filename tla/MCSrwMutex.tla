----------------------------- MODULE MCSrwMutex -----------------------------
(* Small instances of SrwMutex. *)
EXTENDS SrwMutex, TLC

Symmetry == Permutations(Threads)
=============================================================================
