-------------------------- MODULE MCOrderedCommit --------------------------
(* Small instances of OrderedCommit. *)
EXTENDS OrderedCommit
=============================================================================
