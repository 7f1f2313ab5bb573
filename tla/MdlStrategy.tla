---------------------------- MODULE MdlStrategy -----------------------------
(***************************************************************************)
(* The lock types of sql/mdl.h and the three strategies of sql/mdl.cc:     *)
(* which granted and which pending types a request is incompatible with,   *)
(* per namespace of the key.  A bitmap is the set of its types.            *)
(***************************************************************************)
EXTENDS Integers

Namespaces == {"SCHEMA", "TABLE", "BACKUP"}

\* the types, by namespace
IX == "IX"  \* MDL_INTENTION_EXCLUSIVE, used in SCHEMA only
Shared == {"S", "SH"}
Strong == {"SNW", "SNRW", "X"}
ObjectTypes == Shared \cup Strong \cup {"SR", "SW", "SU", "SRO"}
Stages == {"FLUSH", "WAIT_FLUSH", "WAIT_DDL", "WAIT_COMMIT"}
Ftwrl == {"FTWRL1", "FTWRL2"}
BackupTypes == Stages \cup Ftwrl \cup
    {"START", "DML", "TRANS_DML", "SYS_DML", "DDL", "BLOCK_DDL", "ALTER_COPY", "COMMIT"}

scoped_granted(type) ==
    CASE type = IX  -> {"X", "S"}
      [] type = "S" -> {"X", IX}
      [] type = "X" -> {"X", "S", IX}

scoped_waiting(type) ==
    CASE type = IX  -> {"X", "S"}
      [] type = "S" -> {"X"}
      [] type = "X" -> {}

object_granted(type) ==
    CASE type \in Shared -> {"X"}
      [] type = "SR"   -> {"X", "SNRW"}
      [] type = "SW"   -> Strong \cup {"SRO"}
      [] type = "SU"   -> Strong \cup {"SU"}
      [] type = "SRO"  -> {"X", "SNRW", "SW"}
      [] type = "SNW"  -> Strong \cup {"SU", "SW"}
      [] type = "SNRW" -> ObjectTypes \ Shared
      [] type = "X"    -> ObjectTypes

object_waiting(type) ==
    CASE type = "S"    -> {"X"}
      [] type = "SH"   -> {}
      [] type = "SR"   -> {"X", "SNRW"}
      [] type = "SW"   -> Strong
      [] type = "SRO"  -> {"X", "SNRW", "SW"}
      [] type \in {"SU", "SNW", "SNRW"} -> {"X"}
      [] type = "X"    -> {}

backup_granted(type) ==
    CASE type = "START"       -> Stages \cup {"START", "BLOCK_DDL"}
      [] type = "FLUSH"       -> {"START"}
      [] type = "WAIT_FLUSH"  -> {"START", "DML"}
      [] type = "WAIT_DDL"    -> {"START", "DML", "DDL"}
      [] type = "WAIT_COMMIT" -> {"START", "DML", "SYS_DML", "DDL", "COMMIT"}
      [] type = "FTWRL1"      -> {"DML", "TRANS_DML", "SYS_DML", "DDL", "ALTER_COPY"}
      [] type = "FTWRL2"      -> {"DML", "TRANS_DML", "SYS_DML", "DDL", "ALTER_COPY", "COMMIT"}
      [] type = "DML"         -> Stages \cup Ftwrl
      [] type \in {"TRANS_DML", "ALTER_COPY"} -> Ftwrl
      [] type = "SYS_DML"     -> Ftwrl \cup {"WAIT_COMMIT"}
      [] type = "DDL"         -> Ftwrl \cup {"WAIT_DDL", "WAIT_COMMIT", "BLOCK_DDL"}
      [] type = "BLOCK_DDL"   -> Stages \cup {"START", "BLOCK_DDL", "DDL"}
      [] type = "COMMIT"      -> {"WAIT_COMMIT", "FTWRL2"}

backup_waiting(type) ==
    CASE type = "START"     -> Stages \cup {"BLOCK_DDL"}
      [] type \in Stages \cup Ftwrl -> {}
      [] type = "BLOCK_DDL" -> {"START"}
      [] OTHER -> backup_granted(type)

incompatible_granted_types_bitmap(namespace, type) ==
    CASE namespace = "SCHEMA" -> scoped_granted(type)
      [] namespace = "TABLE"  -> object_granted(type)
      [] namespace = "BACKUP" -> backup_granted(type)

incompatible_waiting_types_bitmap(namespace, type) ==
    CASE namespace = "SCHEMA" -> scoped_waiting(type)
      [] namespace = "TABLE"  -> object_waiting(type)
      [] namespace = "BACKUP" -> backup_waiting(type)

hog_lock_types_bitmap(namespace) == IF namespace = "TABLE" THEN Strong ELSE {}

has_stronger_or_equal_type(namespace, held, type) ==
    incompatible_granted_types_bitmap(namespace, type)
        \subseteq incompatible_granted_types_bitmap(namespace, held)

\* MDL_ticket::get_deadlock_weight()
deadlock_weight(namespace, type) ==
    CASE namespace = "BACKUP" -> IF type = "FTWRL1" THEN 0 ELSE 100
      [] OTHER -> IF type \in Strong \cup {"SU", "SRO"} THEN 100 ELSE 1
=============================================================================
