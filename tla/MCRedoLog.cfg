\* The system stops when every thread has made its calls; a hang is a violation
\* of CallsServed.
CONSTANTS
    Threads = {1, 2, 3}
    NOBODY = NOBODY
    write_lock = write_lock
    flush_lock = flush_lock
    Locks = {write_lock, flush_lock}
    MaxCalls = 1
    CALLBACKS = 1
    LSN_BOUND = 2
    Kinds <- CallsOf
    CallbackKinds <- CallbacksOf
SPECIFICATION LogSpec
CHECK_DEADLOCK FALSE
INVARIANTS NothingClaimedEarly DoneOnReturn DoneOnCallback
PROPERTY CallsServed
