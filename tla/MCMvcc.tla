------------------------------- MODULE MCMvcc -------------------------------
(* Small instances of Mvcc. *)
EXTENDS Mvcc, TLC

Symmetry == Permutations(Writers \ Readers)
=============================================================================
