------------------------------- MODULE TrxSys -------------------------------
(***************************************************************************)
(* trx_sys_t: transaction identifiers, the lock-free hash of read-write    *)
(* transactions, and the snapshots taken of it without a latch             *)
(* (storage/innobase/include/trx0sys.h, trx/trx0trx.cc).                   *)
(*                                                                         *)
(* Every access to m_max_trx_id, to m_rw_trx_hash_version and to the hash  *)
(* is an action of its own.  The acquire and release orderings of the code *)
(* make those accesses sequentially consistent as far as they matter here. *)
(***************************************************************************)
EXTENDS ReadView, FiniteSets

CONSTANTS
    Trxs,        \* trx_t objects, each owned by one thread
    PURGE,       \* the purge coordinator, which also takes snapshots
    TRX_ID_MAX   \* the serialisation number of a transaction without one

ASSUME TrxSysAssumption ==
    /\ IsFiniteSet(Trxs) /\ PURGE \notin Trxs
    /\ TRX_ID_MAX \in Nat /\ TRX_ID_MAX > 2 * Cardinality(Trxs) + 1

VARIABLES
    m_max_trx_id,           \* the next id or number
    m_rw_trx_hash_version,  \* how many of them are visible in the hash
    rw_trx_hash,            \* the transactions in the hash
    id,                     \* trx_t::id, 0 before register_rw()
    no,                     \* rw_trx_hash_element_t::no
    number,                 \* the number assign_new_trx_no() is about to store
    tpc,                    \* where each transaction is in its life
    spc,                    \* where each snapshot_ids() call is
    arg,                    \* its snapshot_ids_arg: m_id, m_no, the ids
    visited                 \* the hash elements its iteration has passed

trxvars == <<m_max_trx_id, m_rw_trx_hash_version, rw_trx_hash, id, no,
            number, tpc>>
snapvars == <<spc, arg, visited>>

\* "start"      has no id (or is read-only)
\* "insert"     has taken an id, before rw_trx_hash.insert()
\* "refresh"    is in the hash, before m_rw_trx_hash_version is incremented
\* "active"     registered
\* "number"     has taken a serialisation number, before element->no is set
\* "publish"    element->no is set, before m_rw_trx_hash_version is incremented
\* "serialised" in the history, before deregister_rw()
\* "committed"  no longer in the hash
TrxPC == {"start", "insert", "refresh", "active", "number", "publish",
          "serialised", "committed"}

\* "-" no snapshot is being taken; "compare" the version has been loaded, not
\* yet m_max_trx_id; "walk" iterating the hash.
SnapPC == {"-", "compare", "walk"}
Snappers == Trxs \cup {PURGE}
Args == [m_id : Nat, m_no : Nat, ids : SUBSET Nat]

TrxSysTypeOK ==
    /\ m_max_trx_id \in Nat
    /\ m_rw_trx_hash_version \in 1 .. m_max_trx_id
    /\ rw_trx_hash \in SUBSET Trxs
    /\ id \in [Trxs -> Nat] /\ no \in [Trxs -> Nat]
    /\ number \in [Trxs -> Nat]
    /\ tpc \in [Trxs -> TrxPC]
    /\ spc \in [Snappers -> SnapPC]
    /\ arg \in [Snappers -> Args]
    /\ visited \in [Snappers -> SUBSET Trxs]

NoArg == [m_id |-> 0, m_no |-> 0, ids |-> {}]

TrxSysInit ==
    /\ m_max_trx_id = 1 /\ m_rw_trx_hash_version = 1
    /\ rw_trx_hash = {}
    /\ id = [t \in Trxs |-> 0] /\ no = [t \in Trxs |-> TRX_ID_MAX]
    /\ number = [t \in Trxs |-> 0]
    /\ tpc = [t \in Trxs |-> "start"]
    /\ spc = [s \in Snappers |-> "-"]
    /\ arg = [s \in Snappers |-> NoArg]
    /\ visited = [s \in Snappers |-> {}]

Step(t, from, to) == tpc[t] = from /\ tpc' = [tpc EXCEPT ![t] = to]

-----------------------------------------------------------------------------
(* register_rw() *)

TakeId(t) ==
    /\ Step(t, "start", "insert")
    /\ id' = [id EXCEPT ![t] = m_max_trx_id]
    /\ m_max_trx_id' = m_max_trx_id + 1
    /\ UNCHANGED <<m_rw_trx_hash_version, rw_trx_hash, no, number>>

Insert(t) ==
    /\ Step(t, "insert", "refresh")
    /\ rw_trx_hash' = rw_trx_hash \cup {t}
    /\ UNCHANGED <<m_max_trx_id, m_rw_trx_hash_version, id, no, number>>

Refresh(t) ==
    /\ Step(t, "refresh", "active")
    /\ m_rw_trx_hash_version' = m_rw_trx_hash_version + 1
    /\ UNCHANGED <<m_max_trx_id, rw_trx_hash, id, no, number>>

(* trx_serialise(): assign_new_trx_no(); the undo log goes to the history. *)

\* A mutant: get_new_trx_id() instead of get_new_trx_id_no_refresh().
TakeNo_Refresh(t) ==
    /\ Step(t, "active", "number")
    /\ number' = [number EXCEPT ![t] = m_max_trx_id]
    /\ m_max_trx_id' = m_max_trx_id + 1
    /\ m_rw_trx_hash_version' = m_rw_trx_hash_version + 1
    /\ UNCHANGED <<rw_trx_hash, id, no>>

TakeNo(t) ==
    /\ Step(t, "active", "number")
    /\ number' = [number EXCEPT ![t] = m_max_trx_id]
    /\ m_max_trx_id' = m_max_trx_id + 1
    /\ UNCHANGED <<m_rw_trx_hash_version, rw_trx_hash, id, no>>

StoreNo(t) ==
    /\ Step(t, "number", "publish")
    /\ no' = [no EXCEPT ![t] = number[t]]
    /\ number' = [number EXCEPT ![t] = 0]
    /\ UNCHANGED <<m_max_trx_id, m_rw_trx_hash_version, rw_trx_hash, id>>

\* A mutant: m_rw_trx_hash_version is left behind.
Publish_NoRefresh(t) ==
    /\ Step(t, "publish", "serialised")
    /\ UNCHANGED <<m_max_trx_id, m_rw_trx_hash_version, rw_trx_hash, id, no,
                   number>>

Publish(t) ==
    /\ Step(t, "publish", "serialised")
    /\ m_rw_trx_hash_version' = m_rw_trx_hash_version + 1
    /\ UNCHANGED <<m_max_trx_id, rw_trx_hash, id, no, number>>

\* A mutant: the element stays in the hash.
deregister_rw_NoErase(t) ==
    /\ Step(t, "serialised", "committed") \/ Step(t, "active", "committed")
    /\ UNCHANGED <<m_max_trx_id, m_rw_trx_hash_version, rw_trx_hash, id, no,
                   number>>

\* deregister_rw() in commit_in_memory().  A transaction that has written no
\* undo log gets there without a serialisation number.
deregister_rw(t) ==
    /\ Step(t, "serialised", "committed") \/ Step(t, "active", "committed")
    /\ rw_trx_hash' = rw_trx_hash \ {t}
    /\ UNCHANGED <<m_max_trx_id, m_rw_trx_hash_version, id, no, number>>

register_rw(t) == TakeId(t) \/ Insert(t) \/ Refresh(t)
trx_serialise(t) == TakeNo(t) \/ StoreNo(t) \/ Publish(t)

-----------------------------------------------------------------------------
(* snapshot_ids() *)

\* m_id = get_rw_trx_hash_version().
LoadVersion(s) ==
    /\ spc[s] = "-"
    /\ arg' = [arg EXCEPT ![s].m_id = m_rw_trx_hash_version]
    /\ spc' = [spc EXCEPT ![s] = "compare"]
    /\ UNCHANGED visited

\* A mutant: the snapshot does not wait for the hash to catch up.
CompareMax_NoSpin(s) ==
    /\ spc[s] = "compare"
    /\ spc' = [spc EXCEPT ![s] = "walk"]
    /\ arg' = [arg EXCEPT ![s].m_id = m_max_trx_id, ![s].m_no = m_max_trx_id]
    /\ UNCHANGED visited

\* while (m_id != get_max_trx_id()) ut_delay(1) and the load again; then
\* m_no = m_id.  m_max_trx_id only grows, so a comparison that fails still fails
\* at the next load of the version: the two are one step.
CompareMax(s) ==
    /\ spc[s] = "compare"
    /\ IF arg[s].m_id = m_max_trx_id
         THEN /\ spc' = [spc EXCEPT ![s] = "walk"]
              /\ arg' = [arg EXCEPT ![s].m_no = arg[s].m_id]
         ELSE /\ arg' = [arg EXCEPT ![s].m_id = m_rw_trx_hash_version]
              /\ UNCHANGED spc
    /\ UNCHANGED visited

\* A mutant: the serialisation number is not looked at.
CopyOneId_NoNumber(s, t) ==
    /\ spc[s] = "walk" /\ t \in rw_trx_hash
    /\ visited' = [visited EXCEPT ![s] = @ \cup {t}]
    /\ arg' = IF id[t] < arg[s].m_id
                 THEN [arg EXCEPT ![s].ids = @ \cup {id[t]}]
                 ELSE arg
    /\ UNCHANGED spc

\* The iteration passes one element of the hash: copy_one_id().  The order is
\* that of the hash values, so any; elements come and go meanwhile, and
\* iterate() may pass one more than once.  An element erased while the
\* iteration is at it is copied as if it had been copied just before.
CopyOneId(s, t) ==
    /\ spc[s] = "walk" /\ t \in rw_trx_hash
    /\ visited' = [visited EXCEPT ![s] = @ \cup {t}]
    /\ arg' = IF id[t] < arg[s].m_id
                 THEN [arg EXCEPT ![s].ids = @ \cup {id[t]},
                                  ![s].m_no = Smaller(@, no[t])]
                 ELSE arg
    /\ UNCHANGED spc

\* The iteration is over when no element that was there throughout is left;
\* it may miss elements inserted meanwhile, whose id is not below m_id.
WalkDone(s) ==
    /\ spc[s] = "walk"
    /\ \A t \in rw_trx_hash \ visited[s] : id[t] >= arg[s].m_id

\* What ReadViewBase::snapshot() makes of it.
Snapshot(s) ==
    [low_limit_id |-> arg[s].m_id, ids |-> arg[s].ids,
     low_limit_no |-> arg[s].m_no]

EndSnapshot(s) ==
    /\ WalkDone(s)
    /\ spc' = [spc EXCEPT ![s] = "-"]
    /\ arg' = [arg EXCEPT ![s] = NoArg]
    /\ visited' = [visited EXCEPT ![s] = {}]

snapshot_ids(s) ==
    \/ CompareMax(s)
    \/ \E t \in Trxs : CopyOneId(s, t)
=============================================================================
