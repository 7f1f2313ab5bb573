----------------------------- MODULE MCBinlogXa -----------------------------
(* Small instances of BinlogXa. *)
EXTENDS BinlogXa
=============================================================================
