\* When all sessions have ended the system stops.
CONSTANTS
    Ctx = {1, 2, 3}
    Keys = {1}
    NONE = NONE
    Namespace <- Tables
    Types = {"SR", "SU", "X"}
    Requests <- AlterRequests
    Lists <- Nothing
    Upgrades <- AlterUpgrades
    Downgrades <- AlterDowngrades
    MaxOps <- AlterOps
    Faults <- Nothing
    max_write_lock_count = 1
    MAX_SEARCH_DEPTH = 4
    COUNTER_MOD = 32
SPECIFICATION MdlSpec
CHECK_DEADLOCK FALSE
INVARIANT SkippedForClosedSlots
