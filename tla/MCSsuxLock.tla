----------------------------- MODULE MCSsuxLock -----------------------------
(* Small instances of SsuxLock. *)
EXTENDS SsuxLock, TLC

Symmetry == Permutations(Threads)
=============================================================================
