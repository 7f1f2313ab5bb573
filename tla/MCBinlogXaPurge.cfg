\* The system stops when every transaction has ended.
CONSTANTS
    Trx = {t1, t2}
    FLUSHER = FL
    BG = BG
    NONE = NONE
    NeedUnlog = {t2}
    MaxLogs = 3
    MaxCrashes = 1
    PurgeInWindow = TRUE
    SyncPeriods = {1}
SPECIFICATION BinlogXaSpec
CHECK_DEADLOCK FALSE
INVARIANT RecoveryFindsFiles
