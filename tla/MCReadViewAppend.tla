-------------------------- MODULE MCReadViewAppend --------------------------
(* All pairs of views with ids up to MaxId and at most MaxLen entries. *)
EXTENDS ReadViewAppend
=============================================================================
