\* When all sessions have ended the system stops.
CONSTANTS
    Ctx = {1, 2, 3}
    Keys = {1, 2}
    NONE = NONE
    Namespace <- Tables
    Types = {"SR", "SU", "X"}
    Requests <- MixedRequests
    Lists <- DropBoth
    Upgrades <- AlterUpgrades
    Downgrades <- AlterDowngrades
    MaxOps <- Ops
    Faults <- TimeOutOrLeave
    max_write_lock_count = 10
    MAX_SEARCH_DEPTH = 3
    COUNTER_MOD = 32
SPECIFICATION MdlSpec
CHECK_DEADLOCK FALSE
INVARIANTS NoConflictingGrants NoMissedGrant TicketsAgree NoUndetectedDeadlock
PROPERTY EveryWaitEnds
