\* ssux_lock_impl<true> with the portable fetch_or and one spin round.
CONSTANTS
    Threads = {t1, t2, t3}
    HOLDER = 8
    WRITER = 8
    SpinLoop = TRUE
    SpinRounds = 1
    SpinWidth = 4
    HasBts = FALSE
SPECIFICATION SsuxSpec
INVARIANTS Exclusion XWaiterNotForgotten
PROPERTY ImplementsModes
