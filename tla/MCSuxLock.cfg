CONSTANTS
    Threads = {t1, t2, t3}
    FOR_IO = FOR_IO
    NONE = NONE
    RECURSIVE_U = 8
    MaxHold = 4
SPECIFICATION SuxSpec
INVARIANTS NoFalseRecursion MemoIsHeld ReleaseMatchesMode
CHECK_DEADLOCK FALSE
