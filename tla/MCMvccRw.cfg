\* One writer that also reads, and an autocommit reader that reuses its view.
CONSTANTS
    PURGE = PURGE
    Trxs = {t1, r1}
    Writers = {t1}
    Readers = {t1, r1}
    Autocommit = {r1}
    TRX_ID_MAX = 9
SPECIFICATION MvccSpec
INVARIANTS SeesOwnChanges SeesAllCommitted
PROPERTIES OpenCompletes
