\* srw_spin_mutex with LOCK BTS: three threads, two spin rounds.
CONSTANTS
    Threads = {t1, t2, t3}
    HOLDER = 8
    SpinLoop = TRUE
    SpinRounds = 2
    SpinWidth = 4
    HasBts = TRUE
SPECIFICATION MutexSpec
INVARIANTS MutualExclusion NoLostWakeup
PROPERTY SleepersServed
