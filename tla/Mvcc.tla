-------------------------------- MODULE Mvcc --------------------------------
(***************************************************************************)
(* Multi-versioning: transactions, their read views and the purge of old   *)
(* history (storage/innobase/read/read0read.cc, include/read0types.h,      *)
(* include/trx0purge.h, trx/trx0purge.cc, trx/trx0trx.cc) on top of        *)
(* TrxSys.                                                                 *)
(*                                                                         *)
(* A view's m_mutex is held while its snapshot is being taken, so "spc is  *)
(* not -" stands for it; purge takes it for one append.  purge_sys.latch   *)
(* is held while the purge view is rebuilt, so readers of the purge view   *)
(* see the old one until purge_view changes.                               *)
(***************************************************************************)
EXTENDS TrxSys

CONSTANTS
    Writers,      \* transactions that may become read-write
    Readers,      \* transactions that may open a read view
    Autocommit    \* readers that are autocommit non-locking transactions

ASSUME MvccAssumption ==
    /\ Writers \subseteq Trxs /\ Readers \subseteq Trxs
    /\ Autocommit \subseteq Readers \ Writers

VARIABLES
    read_view,    \* trx_t::read_view: its limits, kept when it is closed
    m_open,       \* ReadView::m_open
    m_creator,    \* ReadView::m_creator_trx_id
    reuse,        \* in open(): the closed view may be reused, m_open is not set
    purge_view,   \* purge_sys.view
    building,     \* the view that clone_oldest_view() is building
    to_append,    \* trx_list elements clone_oldest_view() has not visited
    purged,       \* transactions whose history is gone
    before,       \* history: transactions committed before a view's snapshot
    late,         \* history: open views that were out of date when reused
    late_building, late_purge   \* history: those that went into purge's views

viewvars == <<read_view, m_open, m_creator, reuse, late>>
purgevars == <<purge_view, building, to_append, purged, late_building,
               late_purge>>
mvccvars == <<trxvars, snapvars, viewvars, purgevars, before>>

\* What the thread of a transaction does is sequential: it opens its view
\* between, not inside, register_rw() and the commit.
Resting(t) == /\ tpc[t] \in {"start", "active", "committed"}
              /\ spc[t] = "-" /\ ~reuse[t]

MvccTypeOK ==
    /\ TrxSysTypeOK
    /\ read_view \in [Trxs -> Views]
    /\ m_open \in [Trxs -> BOOLEAN] /\ reuse \in [Trxs -> BOOLEAN]
    /\ m_creator \in [Trxs -> Nat]
    /\ purge_view \in Views /\ building \in Views
    /\ to_append \in SUBSET Trxs /\ purged \in SUBSET Trxs
    /\ before \in [Trxs -> SUBSET Trxs]
    /\ late \in SUBSET Trxs /\ late_building \in SUBSET Trxs
    /\ late_purge \in SUBSET Trxs

MvccInit ==
    /\ TrxSysInit
    /\ read_view = [t \in Trxs |-> ZeroView]
    /\ m_open = [t \in Trxs |-> FALSE] /\ reuse = [t \in Trxs |-> FALSE]
    /\ m_creator = [t \in Trxs |-> 0]
    /\ purge_view = ZeroView /\ building = ZeroView
    /\ to_append = {} /\ purged = {}
    /\ before = [t \in Trxs |-> {}]
    /\ late = {} /\ late_building = {} /\ late_purge = {}

Committed == {t \in Trxs : tpc[t] = "committed"}

-----------------------------------------------------------------------------
(* Read-write transactions. *)

\* A mutant: an open view is not told of the id.
RegisterRw_NoCreator(t) ==
    /\ t \in Writers
    /\ Resting(t) \/ tpc[t] \in {"insert", "refresh"}
    /\ register_rw(t)
    /\ UNCHANGED <<snapvars, viewvars, purgevars, before>>

\* trx_start_low() or trx_set_rw_mode(); the latter tells an open view of it.
RegisterRw(t) ==
    /\ t \in Writers
    /\ Resting(t) \/ tpc[t] \in {"insert", "refresh"}
    /\ register_rw(t)
    /\ m_creator' = IF tpc'[t] = "active" /\ m_open[t]
                      THEN [m_creator EXCEPT ![t] = id[t]] ELSE m_creator
    /\ UNCHANGED <<snapvars, read_view, m_open, reuse, late, purgevars, before>>

\* trx_write_serialisation_history().
Serialise(t) ==
    /\ Resting(t) \/ tpc[t] \in {"number", "publish"}
    /\ trx_serialise(t)
    /\ UNCHANGED <<snapvars, viewvars, purgevars, before>>

\* commit_in_memory(): the view was closed, now deregister_rw().
CommitInMemory(t) ==
    /\ Resting(t) \/ tpc[t] = "serialised"
    /\ ~m_open[t]
    /\ deregister_rw(t)
    /\ UNCHANGED <<snapvars, viewvars, purgevars, before>>

-----------------------------------------------------------------------------
(* ReadView::open() and close(). *)

\* A mutant: a view with active transactions is reused too.
MayReuse_NotEmpty(t) ==
    /\ t \in Autocommit
    /\ read_view[t].low_limit_id = m_max_trx_id

MayReuse(t) ==
    /\ t \in Autocommit /\ read_view[t].ids = {}
    /\ read_view[t].low_limit_id = m_max_trx_id

\* open(): a closed view is found to be reusable.
open_reuse(t) ==
    /\ t \in Readers /\ Resting(t) /\ ~m_open[t] /\ MayReuse(t)
    /\ reuse' = [reuse EXCEPT ![t] = TRUE]
    /\ m_creator' = [m_creator EXCEPT ![t] = 0]
    /\ before' = [before EXCEPT ![t] = Committed]
    /\ UNCHANGED <<trxvars, snapvars, read_view, m_open, late, purgevars>>

\* open(): m_open.store(true) of the reused view, without m_mutex.  It is late
\* if the comparison that open_reuse() made no longer holds.
open_reused(t) ==
    /\ reuse[t]
    /\ reuse' = [reuse EXCEPT ![t] = FALSE]
    /\ m_open' = [m_open EXCEPT ![t] = TRUE]
    /\ late' = IF read_view[t].low_limit_id = m_max_trx_id THEN late
               ELSE late \cup {t}
    /\ UNCHANGED <<trxvars, snapvars, read_view, m_creator, purgevars, before>>

\* open(): m_mutex.wr_lock(), snapshot() begins.  A transaction that has ended
\* has id 0 in its next life.
open_snapshot(t) ==
    /\ t \in Readers /\ Resting(t) /\ ~m_open[t] /\ ~MayReuse(t)
    /\ LoadVersion(t)
    /\ m_creator' =
         [m_creator EXCEPT ![t] = IF tpc[t] = "active" THEN id[t] ELSE 0]
    /\ before' = [before EXCEPT ![t] = Committed]
    /\ UNCHANGED <<trxvars, read_view, m_open, reuse, late, purgevars>>

\* open(): the snapshot is stored, m_open.store(true), m_mutex.wr_unlock().
open_done(t) ==
    /\ t \in Readers
    /\ EndSnapshot(t)
    /\ read_view' = [read_view EXCEPT ![t] = Snapshot(t)]
    /\ m_open' = [m_open EXCEPT ![t] = TRUE]
    /\ UNCHANGED <<trxvars, m_creator, reuse, late, purgevars, before>>

\* close(), at the end of the statement or first thing in commit_in_memory().
\* Only an autocommit transaction looks again at what is left in a closed view;
\* for the others the model forgets it.
close(t) ==
    /\ m_open[t] /\ (Resting(t) \/ tpc[t] = "serialised")
    /\ m_open' = [m_open EXCEPT ![t] = FALSE]
    /\ m_creator' = [m_creator EXCEPT ![t] = 0]
    /\ before' = [before EXCEPT ![t] = {}]
    /\ read_view' = IF t \in Autocommit THEN read_view
                    ELSE [read_view EXCEPT ![t] = ZeroView]
    /\ late' = late \ {t}
    /\ UNCHANGED <<trxvars, snapvars, reuse, purgevars>>

\* The steps of snapshot_ids(), by a reader or by the purge coordinator.
SnapshotStep(s) ==
    /\ snapshot_ids(s)
    /\ UNCHANGED <<trxvars, viewvars, purgevars, before>>

-----------------------------------------------------------------------------
(* The purge coordinator. *)

\* trx_purge(): purge_sys.clone_oldest_view() begins.
clone_begin ==
    /\ to_append = {}
    /\ LoadVersion(PURGE)
    /\ UNCHANGED <<trxvars, viewvars, purgevars, before>>

\* view->snapshot(nullptr) is done; trx_list comes next.  Elements that never
\* open a view have nothing to append and are left out.
clone_snapshot ==
    /\ EndSnapshot(PURGE)
    /\ building' = Snapshot(PURGE)
    /\ to_append' = Readers
    /\ UNCHANGED <<trxvars, viewvars, purge_view, purged, late_building,
                   late_purge, before>>

\* A mutant: append_to() does not take m_mutex.
append_to_NoMutex(t) ==
    /\ t \in to_append
    /\ to_append' = to_append \ {t}
    /\ LET v == IF m_open[t] THEN append(building, read_view[t]) ELSE building
           l == late_building \cup ({t} \cap late)
       IN  IF to_append = {t}
             THEN /\ purge_view' = v /\ building' = ZeroView
                  /\ late_purge' = l /\ late_building' = {}
             ELSE /\ building' = v /\ UNCHANGED purge_view
                  /\ late_building' = l /\ UNCHANGED late_purge
    /\ UNCHANGED <<trxvars, snapvars, viewvars, purged, before>>

\* ReadView::append_to(), under m_mutex; after the last element of trx_list
\* purge_sys.latch is released.
append_to(t) ==
    /\ t \in to_append /\ spc[t] = "-"
    /\ to_append' = to_append \ {t}
    /\ LET v == IF m_open[t] THEN append(building, read_view[t]) ELSE building
           l == late_building \cup ({t} \cap late)
       IN  IF to_append = {t}
             THEN /\ purge_view' = v /\ building' = ZeroView
                  /\ late_purge' = l /\ late_building' = {}
             ELSE /\ building' = v /\ UNCHANGED purge_view
                  /\ late_building' = l /\ UNCHANGED late_purge
    /\ UNCHANGED <<trxvars, snapvars, viewvars, purged, before>>

\* trx_purge_fetch_next_rec(): history is purged below low_limit_no.
purge_history(t) ==
    /\ spc[PURGE] = "-" /\ to_append = {}
    /\ tpc[t] \in {"serialised", "committed"} /\ t \notin purged
    /\ no[t] < purge_view.low_limit_no
    /\ purged' = purged \cup {t}
    /\ UNCHANGED <<trxvars, snapvars, viewvars, purge_view, building, to_append,
                   late_building, late_purge, before>>

-----------------------------------------------------------------------------
TrxStep(t) ==
    \/ RegisterRw(t) \/ Serialise(t) \/ CommitInMemory(t)
    \/ open_reuse(t) \/ open_reused(t) \/ open_snapshot(t) \/ open_done(t)
    \/ close(t)

PurgeStep ==
    \/ clone_begin \/ clone_snapshot
    \/ \E t \in Trxs : append_to(t) \/ purge_history(t)

MvccNext ==
    \/ \E t \in Trxs : TrxStep(t)
    \/ \E s \in Snappers : SnapshotStep(s)
    \/ PurgeStep

\* A thread inside register_rw(), trx_serialise() or snapshot_ids() runs on.
MvccFairness ==
    /\ \A t \in Trxs :
          /\ WF_mvccvars(RegisterRw(t) /\ tpc[t] # "start")
          /\ WF_mvccvars(Serialise(t) /\ tpc[t] # "active")
          /\ WF_mvccvars(open_done(t))
    /\ \A s \in Snappers : WF_mvccvars(SnapshotStep(s))

MvccSafety == MvccInit /\ [][MvccNext]_mvccvars
MvccSpec == MvccSafety /\ MvccFairness

-----------------------------------------------------------------------------
\* ReadView::changes_visible(): what the reader r sees of transaction t.
Sees(r, t) == id[t] = m_creator[r] \/ changes_visible(read_view[r], id[t])

HasId(t) == tpc[t] \notin {"start"}

\* register_rw(): no view sees a transaction other than its own before it has
\* left the hash, in spite of the gap between taking an id and the insert.
NoDirtyRead ==
    \A r, t \in Trxs :
        m_open[r] /\ HasId(t) /\ r # t /\ Sees(r, t) => tpc[t] = "committed"

\* trx_set_rw_mode(): a transaction whose view was opened before it got an id
\* sees what it writes itself.
SeesOwnChanges ==
    \A t \in Trxs : m_open[t] /\ tpc[t] = "active" => Sees(t, t)

\* A view sees all that had committed when open() began.
SeesAllCommitted ==
    \A r \in Trxs : m_open[r] => \A t \in before[r] : Sees(r, t)

\* FACT C in read0read.cc: "Purge does not remove any delete-marked row that is
\* visible in any cursor read view [...] any joining or active transaction will
\* not have a view older than the purge view": every open view sees all that
\* has been purged.  The one exception is a view reused late: a transaction may
\* have started, committed and been purged between the comparison in open() and
\* the store of m_open, and that view does not see it.
PurgeBehindViews ==
    \A r \in Trxs : m_open[r] /\ r \notin late => \A t \in purged : Sees(r, t)

\* A transaction is purged after it has left the hash, never while a snapshot
\* could still find it active.
PurgedAreCommitted == \A t \in purged : tpc[t] = "committed"

\* trx_undo_get_undo_rec(): a reader that needs an old version asks whether the
\* purge view sees the transaction; the undo log of a purged one is never read,
\* unless the purge view was made older by a view reused late.
PurgeCheckSound ==
    late_purge = {} => \A t \in purged : changes_visible(purge_view, id[t])

\* The same check never turns away a reader (DB_MISSING_HISTORY), unless it has
\* reused its view late: what an open view does not see, the purge view does
\* not see.
NoMissingHistory ==
    \A r, t \in Trxs :
        m_open[r] /\ r \notin late /\ HasId(t)
                  /\ changes_visible(purge_view, id[t])
            => Sees(r, t)

\* low_limit_no of the purge view only moves forward, but for a purge view that
\* was made older by a view reused late.
PurgeViewAdvances ==
    [][late_purge' = {} =>
         purge_view.low_limit_no <= purge_view'.low_limit_no]_mvccvars

\* The loop in snapshot_ids() ends: an open() that began is completed, once the
\* transactions that take an id or a number meanwhile are done with it (there
\* are finitely many here; an endless stream of them could delay it for ever).
OpenCompletes == \A t \in Readers : spc[t] # "-" ~> m_open[t]
=============================================================================
