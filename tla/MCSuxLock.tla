------------------------------ MODULE MCSuxLock ------------------------------
(* Small instances of SuxLock. *)
EXTENDS SuxLock

=============================================================================
