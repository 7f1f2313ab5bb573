\* Two writers, and an autocommit reader that may reuse its view.
CONSTANTS
    PURGE = PURGE
    Trxs = {t1, t2, r1}
    Writers = {t1, t2}
    Readers = {r1}
    Autocommit = {r1}
    TRX_ID_MAX = 9
SPECIFICATION MvccSafety
SYMMETRY Symmetry
INVARIANTS NoDirtyRead SeesAllCommitted PurgeBehindViews PurgedAreCommitted PurgeCheckSound NoMissingHistory
PROPERTIES PurgeViewAdvances
