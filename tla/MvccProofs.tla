----------------------------- MODULE MvccProofs -----------------------------
(***************************************************************************)
(* Proofs about multi-versioning for any set of transactions.              *)
(*                                                                         *)
(* The argument.  Every id or serialisation number that is taken and not   *)
(* yet shown by the hash is counted by the difference between              *)
(* m_max_trx_id and m_rw_trx_hash_version, so a snapshot that finds them   *)
(* equal starts when no transaction is between the two (Counted,           *)
(* NoGap).  From there on an element of the hash with an id below m_id     *)
(* stays in the hash until it commits, and the walk passes it: the view is *)
(* sound (ViewOk), and stays so whatever the transactions do.  The view    *)
(* of purge is the older of such views, and a view opened later is never   *)
(* older (NotOlder), unless it was reused late: open() stored m_open after *)
(* the comparison that allows the reuse had become false.                  *)
(***************************************************************************)
EXTENDS Mvcc, FiniteSetTheorems, WellFoundedInduction, TLAPS

\* Transactions that have taken an id or a number the hash does not show yet.
Gap == {t \in Trxs : tpc[t] \in {"insert", "refresh", "number", "publish"}}
WithId == {t \in Trxs : tpc[t] # "start"}
WithNo == {t \in Trxs : tpc[t] = "number" \/ no[t] # TRX_ID_MAX}

Counted ==
    /\ m_rw_trx_hash_version + Cardinality(Gap) = m_max_trx_id
    /\ m_max_trx_id = 1 + Cardinality(WithId) + Cardinality(WithNo)

\* Ids are unique, a number is greater than the id, and neither is reused.
TrxOk(t) ==
    /\ t \in rw_trx_hash <=>
         tpc[t] \in {"refresh", "active", "number", "publish", "serialised"}
    /\ IF tpc[t] = "start" THEN id[t] = 0 ELSE id[t] \in 1 .. m_max_trx_id - 1
    /\ tpc[t] \in {"start", "insert", "refresh", "active", "number"}
         => no[t] = TRX_ID_MAX
    /\ tpc[t] \in {"publish", "serialised"} => no[t] # TRX_ID_MAX
    /\ no[t] # TRX_ID_MAX => id[t] < no[t] /\ no[t] < m_max_trx_id
    /\ tpc[t] = "number" => id[t] < number[t] /\ number[t] < m_max_trx_id
    /\ t \notin Writers => tpc[t] = "start"

UniqueIds == \A s, t \in WithId : id[s] = id[t] => s = t

\* What the thread of a transaction is doing.
ThreadOk(t) ==
    /\ m_open[t] \/ reuse[t] \/ spc[t] # "-" => t \in Readers
    /\ reuse[t] => t \in Autocommit /\ ~m_open[t] /\ spc[t] = "-"
    /\ spc[t] # "-" => ~m_open[t] /\ tpc[t] \in {"start", "active", "committed"}
    /\ m_creator[t] \in {0, id[t]}
    /\ (m_open[t] \/ spc[t] # "-") /\ tpc[t] = "active" => m_creator[t] = id[t]

\* What a view sees of a transaction that is not its own.
Vis(v, t) == id[t] < v.low_limit_id /\ id[t] \notin v.ids

\* No transaction that is not committed is seen, or has a number below the
\* limit; history below the limit is seen.
ViewOk(v) ==
    /\ v.low_limit_no <= v.low_limit_id /\ v.low_limit_id <= m_max_trx_id
    /\ \A t \in WithId : Vis(v, t) => tpc[t] = "committed"
    /\ \A t \in Trxs : tpc[t] # "committed" =>
          /\ v.low_limit_no <= no[t]
          /\ tpc[t] = "number" => v.low_limit_no <= number[t]
    /\ \A t \in Trxs : no[t] < v.low_limit_no => Vis(v, t)

\* Whoever is between the counters took what it took after the walk began.
NoGap(n) ==
    \A t \in Trxs :
        /\ tpc[t] \in {"insert", "refresh"} => n <= id[t]
        /\ tpc[t] = "number" => n <= number[t]
        /\ tpc[t] = "publish" => n <= no[t]

WalkOk(s) ==
    /\ arg[s].m_no <= arg[s].m_id /\ arg[s].m_id <= m_max_trx_id
    /\ NoGap(arg[s].m_id)
    /\ visited[s] \subseteq WithId
    /\ \A t \in visited[s] : id[t] < arg[s].m_id =>
          id[t] \in arg[s].ids /\ arg[s].m_no <= no[t]
    /\ \A i \in arg[s].ids : \E t \in visited[s] : id[t] = i /\ i < arg[s].m_id

SnapOk(s) ==
    /\ spc[s] = "walk" => WalkOk(s)
    /\ spc[s] # "walk" => arg[s].ids = {} /\ visited[s] = {}
    /\ spc[s] = "compare" => arg[s].m_id <= m_rw_trx_hash_version

\* What had committed before open() began stays seen.
BeforeOk(r) ==
    /\ before[r] \subseteq Committed
    /\ m_open[r] \/ reuse[r] => \A t \in before[r] : Vis(read_view[r], t)
    /\ spc[r] = "walk" => \A t \in before[r] : Vis(Snapshot(r), t)

MvccInv ==
    /\ MvccTypeOK
    /\ Counted
    /\ \A t \in Trxs : TrxOk(t)
    /\ UniqueIds
    /\ \A t \in Trxs : ThreadOk(t)
    /\ \A s \in Snappers : SnapOk(s)
    /\ ViewOk(purge_view) /\ ViewOk(building)
    /\ \A r \in Trxs : ViewOk(read_view[r])
    /\ \A r \in Trxs : BeforeOk(r)
    /\ PurgedAreCommitted

\* The view w is no older than v.
NotOlder(v, w) ==
    /\ v.low_limit_no <= w.low_limit_no
    /\ \A t \in WithId : Vis(v, t) => Vis(w, t)

\* A view without active transactions has one limit, and only such a view is
\* reused.
EmptyOk(v) == v.ids = {} => v.low_limit_no = v.low_limit_id
EmptyInv ==
    /\ \A r \in Trxs : /\ EmptyOk(read_view[r])
                       /\ reuse[r] => read_view[r].ids = {}
    /\ \A s \in Snappers : spc[s] = "walk" => EmptyOk(Snapshot(s))

\* A view that sees just what has been purged.
Gone == [low_limit_id |-> m_max_trx_id, ids |-> {id[t] : t \in WithId \ purged},
         low_limit_no |-> 0]

GoneSees == \A t \in WithId : Vis(Gone, t) <=> t \in purged

\* A view that is open and was not reused late, or whose snapshot is under way,
\* is no older than v.
Behind(v, s) ==
    /\ s \in Trxs \ late /\ m_open[s] => NotOlder(v, read_view[s])
    /\ spc[s] = "walk" => NotOlder(v, Snapshot(s))

\* The purge view, and what has been purged, are behind the views; what has been
\* purged is behind the purge view unless a late view went into it.
PurgeInv ==
    /\ EmptyInv
    /\ \A s \in Snappers : Behind(purge_view, s) /\ Behind(Gone, s)
    /\ late_purge = {} => NotOlder(Gone, purge_view)
    /\ to_append # {} =>
         /\ spc[PURGE] = "-"
         /\ late_building = {} => /\ NotOlder(purge_view, building)
                                 /\ NotOlder(Gone, building)
         /\ \A s \in Trxs \ to_append : Behind(building, s)

-----------------------------------------------------------------------------
(* The operators of ReadView. *)

\* A nonempty set of natural numbers has a least element.
LEMMA NatMin ==
    ASSUME NEW T \in SUBSET Nat, T # {}
    PROVE  \E x \in T : \A y \in T : x <= y
<1> DEFINE R == OpToRel(<, Nat)
<1>1. IsWellFoundedOn(R, Nat)
  BY NatLessThanWellFounded
<1>2. PICK x \in T : \A y \in T : ~(<<y, x>> \in R)
  <2> HIDE DEF R
  <2> QED
    BY <1>1, WFMin
<1>3. \A y \in T : ~(y < x)
  BY <1>2 DEF OpToRel
<1> QED
  BY <1>3

\* ReadViewBase::changes_visible(): comparing with m_up_limit_id first only
\* saves the search of m_ids.
LEMMA VisibleDef ==
    ASSUME NEW v \in Views, NEW i \in Nat
    PROVE  changes_visible(v, i) <=> i < v.low_limit_id /\ i \notin v.ids
<1>1. CASE v.ids = {}
  BY <1>1 DEF changes_visible, Views
<1>2. CASE v.ids # {}
  <2>1. v.ids \in SUBSET Nat
    BY DEF Views
  <2>2. up_limit_id(v) \in v.ids /\ \A j \in v.ids : up_limit_id(v) <= j
    BY <1>2, <2>1, NatMin DEF up_limit_id
  <2> QED
    BY <1>2, <2>1, <2>2 DEF changes_visible, Views
<1> QED
  BY <1>1, <1>2

\* ReadViewBase::append(): the result is a view that sees what both see.
LEMMA AppendFacts ==
    ASSUME NEW v \in Views, NEW w \in Views
    PROVE  /\ append(v, w) \in Views
           /\ append(v, w).low_limit_no <= v.low_limit_no
           /\ append(v, w).low_limit_no <= w.low_limit_no
           /\ append(v, w).low_limit_no \in {v.low_limit_no, w.low_limit_no}
           /\ append(v, w).low_limit_id \in {v.low_limit_id, w.low_limit_id}
           /\ append(v, w).low_limit_id <= v.low_limit_id
           /\ append(v, w).low_limit_id <= w.low_limit_id
           /\ \A i \in Nat :
                  (i < append(v, w).low_limit_id /\ i \notin append(v, w).ids)
                  <=> /\ i < v.low_limit_id /\ i \notin v.ids
                      /\ i < w.low_limit_id /\ i \notin w.ids
<1>1. PICK a : a = append(v, w)
  OBVIOUS
<1>2. /\ a.low_limit_id = Smaller(v.low_limit_id, w.low_limit_id)
      /\ a.ids = {i \in v.ids \cup w.ids : i < a.low_limit_id}
      /\ a.low_limit_no = Smaller(v.low_limit_no, w.low_limit_no)
      /\ a \in Views
  BY <1>1 DEF append, Views, Smaller
<1> QED
  BY <1>1, <1>2 DEF Views, Smaller

-----------------------------------------------------------------------------
(* What the state of the counters implies. *)

LEMMA CountFacts ==
    ASSUME MvccTypeOK, Counted
    PROVE  /\ IsFiniteSet(Gap) /\ IsFiniteSet(WithId) /\ IsFiniteSet(WithNo)
           /\ Cardinality(Gap) \in Nat /\ Cardinality(WithId) \in Nat
           /\ Cardinality(WithNo) \in Nat
           /\ m_max_trx_id \in Nat /\ m_max_trx_id < TRX_ID_MAX
           /\ m_rw_trx_hash_version = m_max_trx_id => Gap = {}
<1>1. /\ Gap \in SUBSET Trxs /\ WithId \in SUBSET Trxs
      /\ WithNo \in SUBSET Trxs
  BY DEF Gap, WithId, WithNo
<1>2. IsFiniteSet(Trxs) /\ Cardinality(Trxs) \in Nat
  BY TrxSysAssumption, FS_CardinalityType DEF TrxSysAssumption
<1>3. /\ IsFiniteSet(Gap) /\ IsFiniteSet(WithId) /\ IsFiniteSet(WithNo)
      /\ Cardinality(WithId) <= Cardinality(Trxs)
      /\ Cardinality(WithNo) <= Cardinality(Trxs)
  BY <1>1, <1>2, FS_Subset
<1>4. /\ Cardinality(Gap) \in Nat /\ Cardinality(WithId) \in Nat
      /\ Cardinality(WithNo) \in Nat
  BY <1>3, FS_CardinalityType
<1>5. m_max_trx_id < TRX_ID_MAX /\ m_max_trx_id \in Nat
  <2> DEFINE a == Cardinality(WithId)
             b == Cardinality(WithNo)
             c == Cardinality(Trxs)
  <2>1. a \in Nat /\ b \in Nat /\ c \in Nat /\ a <= c /\ b <= c
    BY <1>2, <1>3, <1>4
  <2>2. TRX_ID_MAX \in Nat /\ TRX_ID_MAX > 2 * c + 1
    BY TrxSysAssumption DEF TrxSysAssumption
  <2>3. m_max_trx_id = 1 + a + b
    BY DEF Counted
  <2> HIDE DEF a, b, c
  <2> QED
    BY <2>1, <2>2, <2>3
<1>6. m_rw_trx_hash_version = m_max_trx_id => Gap = {}
  <2>1. m_rw_trx_hash_version \in Nat
    BY DEF MvccTypeOK, TrxSysTypeOK
  <2>2. m_rw_trx_hash_version = m_max_trx_id => Cardinality(Gap) = 0
    BY <1>4, <1>5, <2>1 DEF Counted
  <2> QED
    BY <1>3, <2>2, FS_EmptySet
<1> QED
  BY <1>3, <1>4, <1>5, <1>6

-----------------------------------------------------------------------------
(* What any step does to the transactions: lives go one way only, and ids   *)
(* and numbers are taken from m_max_trx_id.                                 *)

\* One transaction in a step.
Advance(t) ==
    /\ tpc[t] # "start" => tpc'[t] # "start" /\ id'[t] = id[t]
    /\ tpc[t] = "start" => \/ tpc'[t] = "start" /\ id'[t] = id[t]
                           \/ tpc'[t] = "insert" /\ id'[t] = m_max_trx_id
    /\ tpc[t] = "committed" => tpc'[t] = "committed"
    /\ \/ no'[t] = no[t]
       \/ tpc[t] = "number" /\ tpc'[t] = "publish" /\ no'[t] = number[t]
    /\ tpc'[t] = "number" => \/ tpc[t] = "number" /\ number'[t] = number[t]
                             \/ number'[t] = m_max_trx_id
    /\ tpc'[t] = "refresh" => tpc[t] \in {"insert", "refresh"}
    /\ tpc'[t] = "insert" => tpc[t] \in {"start", "insert"}
    /\ tpc'[t] = "publish" =>
          \/ tpc[t] = "publish"
          \/ tpc[t] = "number" /\ no'[t] = number[t]

Forward ==
    /\ m_max_trx_id <= m_max_trx_id'
    /\ m_rw_trx_hash_version <= m_rw_trx_hash_version'
    /\ \A t \in Trxs : Advance(t)

LEMMA ForwardTrx ==
    ASSUME MvccTypeOK, NEW t \in Trxs,
           register_rw(t) \/ trx_serialise(t) \/ deregister_rw(t)
    PROVE  Forward
<1>1. /\ m_max_trx_id <= m_max_trx_id'
      /\ m_rw_trx_hash_version <= m_rw_trx_hash_version'
  BY DEF MvccTypeOK, TrxSysTypeOK, register_rw, trx_serialise, deregister_rw,
         TakeId, Insert, Refresh, TakeNo, StoreNo, Publish
<1>2. ASSUME NEW u \in Trxs PROVE Advance(u)
  <2>1. CASE register_rw(t)
    BY <2>1 DEF Advance, register_rw, TakeId, Insert, Refresh, Step,
                MvccTypeOK, TrxSysTypeOK, TrxPC
  <2>2. CASE trx_serialise(t)
    BY <2>2 DEF Advance, trx_serialise, TakeNo, StoreNo, Publish, Step,
                MvccTypeOK, TrxSysTypeOK, TrxPC
  <2>3. CASE deregister_rw(t)
    BY <2>3 DEF Advance, deregister_rw, Step, MvccTypeOK, TrxSysTypeOK, TrxPC
  <2> QED
    BY <2>1, <2>2, <2>3
<1> QED
  BY <1>1, <1>2 DEF Forward

LEMMA ForwardStutter ==
    ASSUME MvccTypeOK, UNCHANGED trxvars
    PROVE  Forward
BY DEF Forward, Advance, trxvars, MvccTypeOK, TrxSysTypeOK, TrxPC

\* What a sound view promises is not disturbed by what transactions do.
LEMMA ViewKept ==
    ASSUME MvccTypeOK, Forward, m_max_trx_id' \in Nat,
           id' \in [Trxs -> Nat], no' \in [Trxs -> Nat],
           number' \in [Trxs -> Nat]
    PROVE  \A v \in Views : ViewOk(v) => ViewOk(v)'
<1> SUFFICES ASSUME NEW v \in Views, ViewOk(v) PROVE ViewOk(v)'
  OBVIOUS
<1>1. /\ m_max_trx_id \in Nat /\ v.low_limit_id \in Nat
      /\ v.low_limit_no \in Nat
      /\ \A t \in Trxs : id[t] \in Nat /\ no[t] \in Nat /\ number[t] \in Nat
      /\ \A t \in Trxs : id'[t] \in Nat /\ no'[t] \in Nat /\ number'[t] \in Nat
  BY DEF MvccTypeOK, TrxSysTypeOK, Views
<1>2. \A t \in Trxs : Advance(t)
  BY DEF Forward
<1>3. v.low_limit_no <= v.low_limit_id /\ v.low_limit_id <= m_max_trx_id'
  BY <1>1 DEF ViewOk, Forward
<1>4. ASSUME NEW t \in Trxs, tpc'[t] # "start", Vis(v, t)'
      PROVE  tpc'[t] = "committed"
  <2>1. CASE tpc[t] = "start"
    BY <1>1, <1>2, <1>4, <2>1 DEF Advance, ViewOk, Vis
  <2>2. CASE tpc[t] # "start"
    <3>1. t \in WithId /\ Vis(v, t)
      BY <1>2, <1>4, <2>2 DEF Advance, Vis, WithId
    <3> QED
      BY <1>2, <3>1 DEF Advance, ViewOk
  <2> QED
    BY <2>1, <2>2
<1>5. ASSUME NEW t \in Trxs, tpc'[t] # "committed"
      PROVE  /\ v.low_limit_no <= no'[t]
             /\ tpc'[t] = "number" => v.low_limit_no <= number'[t]
  <2>1. /\ tpc[t] # "committed" /\ v.low_limit_no <= no[t]
        /\ tpc[t] = "number" => v.low_limit_no <= number[t]
    BY <1>2, <1>5 DEF Advance, ViewOk
  <2>2. v.low_limit_no <= m_max_trx_id
    BY <1>1 DEF ViewOk
  <2> QED
    BY <1>2, <2>1, <2>2 DEF Advance
<1>6. ASSUME NEW t \in Trxs, no'[t] < v.low_limit_no
      PROVE  Vis(v, t)'
  <2>1. tpc'[t] = "committed"
    BY <1>1, <1>5, <1>6
  <2>2. no'[t] = no[t]
    BY <1>2, <2>1 DEF Advance
  <2>3. tpc[t] = "committed" /\ Vis(v, t)
    BY <1>1, <1>6, <2>2 DEF ViewOk
  <2> QED
    BY <1>2, <2>3 DEF Advance, Vis
<1> QED
  BY <1>3, <1>4, <1>5, <1>6 DEF ViewOk, WithId

\* Nor is a walk of the hash, nor what had committed before it, nor the order
\* of two views.
LEMMA WalkKept ==
    ASSUME MvccTypeOK, Forward, MvccTypeOK', NEW s \in Snappers,
           arg'[s] = arg[s], visited'[s] = visited[s], WalkOk(s)
    PROVE  WalkOk(s)'
<1>1. /\ m_max_trx_id \in Nat /\ arg[s].m_id \in Nat /\ arg[s].m_no \in Nat
      /\ m_max_trx_id' \in Nat
      /\ visited[s] \subseteq Trxs
      /\ \A t \in Trxs : id[t] \in Nat /\ no[t] \in Nat /\ number[t] \in Nat
  BY DEF MvccTypeOK, TrxSysTypeOK, Args
<1>2. \A t \in Trxs : Advance(t)
  BY DEF Forward
<1>3. arg[s].m_no <= arg[s].m_id /\ arg[s].m_id <= m_max_trx_id'
  BY <1>1 DEF WalkOk, Forward
<1>4. ASSUME NEW t \in Trxs
      PROVE  /\ tpc'[t] \in {"insert", "refresh"} => arg[s].m_id <= id'[t]
             /\ tpc'[t] = "number" => arg[s].m_id <= number'[t]
             /\ tpc'[t] = "publish" => arg[s].m_id <= no'[t]
  <2>1. /\ tpc[t] \in {"insert", "refresh"} => arg[s].m_id <= id[t]
        /\ tpc[t] = "number" => arg[s].m_id <= number[t]
        /\ tpc[t] = "publish" => arg[s].m_id <= no[t]
        /\ arg[s].m_id <= m_max_trx_id
    BY DEF WalkOk, NoGap
  <2> QED
    BY <1>2, <2>1 DEF Advance
<1>5. ASSUME NEW t \in visited[s]
      PROVE  /\ tpc'[t] # "start" /\ id'[t] = id[t]
             /\ id[t] < arg[s].m_id => /\ id[t] \in arg[s].ids
                                       /\ arg[s].m_no <= no'[t]
  <2>1. t \in Trxs /\ tpc[t] # "start" /\ Advance(t)
    BY <1>1, <1>2 DEF WalkOk, WithId
  <2>2. id[t] < arg[s].m_id => id[t] \in arg[s].ids /\ arg[s].m_no <= no[t]
    BY DEF WalkOk
  <2>3. tpc[t] = "number" => arg[s].m_no <= number[t]
    <3>1. tpc[t] = "number" => arg[s].m_id <= number[t]
      BY <2>1 DEF WalkOk, NoGap
    <3> QED
      BY <1>1, <1>3, <2>1, <3>1
  <2> QED
    BY <2>1, <2>2, <2>3 DEF Advance
<1>6. ASSUME NEW i \in arg[s].ids
      PROVE  \E t \in visited[s] : id'[t] = i /\ i < arg[s].m_id
  BY <1>5 DEF WalkOk
<1> QED
  BY <1>1, <1>3, <1>4, <1>5, <1>6 DEF WalkOk, NoGap, WithId

LEMMA BeforeKept ==
    ASSUME MvccTypeOK, Forward, NEW r \in Trxs, BeforeOk(r),
           before'[r] = before[r], read_view'[r] = read_view[r],
           m_open'[r] = m_open[r], reuse'[r] = reuse[r],
           spc'[r] = spc[r], arg'[r] = arg[r]
    PROVE  BeforeOk(r)'
<1>1. \A t \in before[r] : t \in Trxs /\ tpc[t] = "committed"
  BY DEF BeforeOk, Committed
<1>2. \A t \in before[r] : tpc'[t] = "committed" /\ id'[t] = id[t]
  BY <1>1 DEF Forward, Advance
<1> QED
  BY <1>1, <1>2 DEF BeforeOk, Committed, Vis, Snapshot

LEMMA NotOlderKept ==
    ASSUME MvccTypeOK, Forward
    PROVE  \A v, w \in Views :
              ViewOk(v) /\ NotOlder(v, w) => NotOlder(v, w)'
<1> SUFFICES ASSUME NEW v \in Views, NEW w \in Views, ViewOk(v),
                    NotOlder(v, w)
             PROVE  NotOlder(v, w)'
  OBVIOUS
<1>1. ASSUME NEW t \in Trxs, tpc'[t] # "start", Vis(v, t)'
      PROVE  Vis(w, t)'
  <2>1. Advance(t) /\ m_max_trx_id \in Nat /\ v.low_limit_id \in Nat
    BY DEF Forward, MvccTypeOK, TrxSysTypeOK, Views
  <2>2. CASE tpc[t] = "start"
    BY <1>1, <2>1, <2>2 DEF Advance, ViewOk, Vis
  <2>3. CASE tpc[t] # "start"
    BY <1>1, <2>1, <2>3 DEF Advance, NotOlder, Vis, WithId
  <2> QED
    BY <2>2, <2>3
<1> QED
  BY <1>1 DEF NotOlder, WithId

\* A step of a transaction alone leaves everything about views sound.
LEMMA ViewsKept ==
    ASSUME MvccInv, Forward, MvccTypeOK',
           UNCHANGED <<snapvars, read_view, m_open, reuse, purgevars, before>>
    PROVE  /\ \A s \in Snappers : SnapOk(s)'
           /\ ViewOk(purge_view)' /\ ViewOk(building)'
           /\ \A r \in Trxs : ViewOk(read_view[r])'
           /\ \A r \in Trxs : BeforeOk(r)'
           /\ PurgedAreCommitted'
<1> USE DEF MvccInv
<1>1. \A v \in Views : ViewOk(v) => ViewOk(v)'
  BY ViewKept DEF MvccTypeOK, TrxSysTypeOK
<1>2. ViewOk(purge_view)'
  BY <1>1 DEF ViewOk, Vis, purgevars, MvccTypeOK
<1>3. ViewOk(building)'
  BY <1>1 DEF ViewOk, Vis, purgevars, MvccTypeOK
<1>4. ASSUME NEW r \in Trxs PROVE ViewOk(read_view[r])'
  <2>1. read_view[r] \in Views /\ ViewOk(read_view[r]) /\ read_view' = read_view
    BY DEF MvccTypeOK
  <2> QED
    BY <1>1, <2>1 DEF ViewOk, Vis
<1>5. ASSUME NEW s \in Snappers PROVE SnapOk(s)'
  <2>1. spc' = spc /\ arg' = arg /\ visited' = visited /\ SnapOk(s)
    BY DEF snapvars
  <2>2. spc[s] = "walk" => WalkOk(s)'
    BY <2>1, WalkKept DEF SnapOk
  <2>3. spc[s] = "compare" => arg[s].m_id <= m_rw_trx_hash_version'
    <3>1. /\ arg[s].m_id \in Nat /\ m_rw_trx_hash_version \in Nat
          /\ m_rw_trx_hash_version' \in Nat
          /\ m_rw_trx_hash_version <= m_rw_trx_hash_version'
      BY DEF MvccTypeOK, TrxSysTypeOK, Args, Forward
    <3> QED
      BY <2>1, <3>1 DEF SnapOk
  <2> QED
    BY <2>1, <2>2, <2>3 DEF SnapOk
<1>6. ASSUME NEW r \in Trxs PROVE BeforeOk(r)'
  BY BeforeKept DEF snapvars
<1>7. PurgedAreCommitted'
  BY DEF PurgedAreCommitted, Forward, Advance, MvccTypeOK, purgevars
<1> QED
  BY <1>2, <1>3, <1>4, <1>5, <1>6, <1>7

-----------------------------------------------------------------------------
(* The life of a read-write transaction. *)

TrxInv ==
    /\ TrxSysTypeOK /\ Counted /\ UniqueIds
    /\ \A t \in Trxs : TrxOk(t)

\* A set that gains or loses one member.
LEMMA OneMore ==
    ASSUME NEW S, NEW T, IsFiniteSet(S), NEW x, x \notin S, T = S \cup {x}
    PROVE  Cardinality(T) = Cardinality(S) + 1
BY FS_AddElement

LEMMA OneLess ==
    ASSUME NEW S, NEW T, IsFiniteSet(S), NEW x, x \in S, T = S \ {x}
    PROVE  Cardinality(T) = Cardinality(S) - 1
BY FS_RemoveElement

\* Numbers are stored where there was none.
LEMMA TrxFacts ==
    ASSUME MvccInv
    PROVE  /\ TRX_ID_MAX \in Nat /\ m_max_trx_id \in Nat
           /\ 1 <= m_rw_trx_hash_version /\ m_rw_trx_hash_version \in Nat
           /\ m_max_trx_id < TRX_ID_MAX
           /\ \A t \in Trxs : /\ id[t] \in Nat /\ no[t] \in Nat
                              /\ number[t] \in Nat /\ id[t] < m_max_trx_id
           /\ 1 <= m_max_trx_id
<1>1. TRX_ID_MAX \in Nat /\ m_max_trx_id < TRX_ID_MAX
  BY CountFacts, TrxSysAssumption DEF MvccInv, TrxSysAssumption
<1>2. /\ m_max_trx_id \in Nat /\ m_rw_trx_hash_version \in Nat
      /\ 1 <= m_rw_trx_hash_version /\ 1 <= m_max_trx_id
      /\ \A t \in Trxs : id[t] \in Nat /\ no[t] \in Nat /\ number[t] \in Nat
  BY DEF MvccInv, MvccTypeOK, TrxSysTypeOK
<1> QED
  BY <1>1, <1>2 DEF MvccInv, TrxOk

LEMMA TakeIdInv ==
    ASSUME MvccInv, NEW t \in Trxs, t \in Writers, TakeId(t),
           UNCHANGED snapvars
    PROVE  TrxInv'
<1> USE DEF MvccInv
<1>1. /\ tpc[t] = "start" /\ tpc' = [tpc EXCEPT ![t] = "insert"]
      /\ id' = [id EXCEPT ![t] = m_max_trx_id]
      /\ m_max_trx_id' = m_max_trx_id + 1
      /\ m_rw_trx_hash_version' = m_rw_trx_hash_version
      /\ rw_trx_hash' = rw_trx_hash /\ no' = no /\ number' = number
      /\ tpc \in [Trxs -> TrxPC] /\ id \in [Trxs -> Nat]
  BY DEF TakeId, Step, MvccTypeOK, TrxSysTypeOK
<1>2. Counted'
  <2>1. Gap' = Gap \cup {t} /\ t \notin Gap
    BY <1>1 DEF Gap
  <2>2. WithId' = WithId \cup {t} /\ t \notin WithId
    BY <1>1 DEF WithId
  <2>3. WithNo' = WithNo
    BY <1>1 DEF WithNo
  <2>4. /\ Cardinality(Gap') = Cardinality(Gap) + 1
        /\ Cardinality(WithId') = Cardinality(WithId) + 1
    BY <2>1, <2>2, OneMore, CountFacts
  <2> QED
    BY <1>1, <2>3, <2>4, CountFacts, TrxFacts DEF Counted
<1>3. TrxSysTypeOK'
  BY <1>1, TrxFacts DEF MvccTypeOK, TrxSysTypeOK, TrxPC, snapvars
<1>4. ASSUME NEW u \in Trxs PROVE TrxOk(u)'
  <2>1. TrxOk(u)
    OBVIOUS
  <2>2. CASE u = t
    BY <1>1, <2>1, <2>2, TrxFacts DEF TrxOk
  <2>3. CASE u # t
    BY <1>1, <2>1, <2>3, TrxFacts DEF TrxOk
  <2> QED
    BY <2>2, <2>3
<1>5. UniqueIds'
  BY <1>1, TrxFacts DEF UniqueIds, WithId
<1> QED
  BY <1>2, <1>3, <1>4, <1>5 DEF TrxInv

LEMMA InsertInv ==
    ASSUME MvccInv, NEW t \in Trxs, Insert(t), UNCHANGED snapvars
    PROVE  TrxInv'
<1> USE DEF MvccInv
<1>1. /\ tpc[t] = "insert" /\ tpc' = [tpc EXCEPT ![t] = "refresh"]
      /\ rw_trx_hash' = rw_trx_hash \cup {t}
      /\ m_max_trx_id' = m_max_trx_id
      /\ m_rw_trx_hash_version' = m_rw_trx_hash_version
      /\ id' = id /\ no' = no /\ number' = number
      /\ tpc \in [Trxs -> TrxPC]
  BY DEF Insert, Step, MvccTypeOK, TrxSysTypeOK
<1>2. Counted'
  <2>1. Gap' = Gap /\ WithId' = WithId /\ WithNo' = WithNo
    BY <1>1 DEF Gap, WithId, WithNo
  <2> QED
    BY <1>1, <2>1 DEF Counted
<1>3. TrxSysTypeOK'
  BY <1>1 DEF MvccTypeOK, TrxSysTypeOK, TrxPC, snapvars
<1>4. ASSUME NEW u \in Trxs PROVE TrxOk(u)'
  BY <1>1, TrxFacts DEF TrxOk
<1>5. UniqueIds'
  BY <1>1 DEF UniqueIds, WithId
<1> QED
  BY <1>2, <1>3, <1>4, <1>5 DEF TrxInv

LEMMA RefreshInv ==
    ASSUME MvccInv, NEW t \in Trxs, UNCHANGED snapvars,
           Refresh(t) \/ Publish(t)
    PROVE  TrxInv'
<1> USE DEF MvccInv
<1>1. /\ \/ tpc[t] = "refresh" /\ tpc' = [tpc EXCEPT ![t] = "active"]
         \/ tpc[t] = "publish" /\ tpc' = [tpc EXCEPT ![t] = "serialised"]
      /\ m_rw_trx_hash_version' = m_rw_trx_hash_version + 1
      /\ rw_trx_hash' = rw_trx_hash /\ m_max_trx_id' = m_max_trx_id
      /\ id' = id /\ no' = no /\ number' = number
      /\ tpc \in [Trxs -> TrxPC]
  BY DEF Refresh, Publish, Step, MvccTypeOK, TrxSysTypeOK
<1>2. Counted' /\ m_rw_trx_hash_version' \in 1 .. m_max_trx_id'
  <2>1. Gap' = Gap \ {t} /\ t \in Gap
    BY <1>1 DEF Gap
  <2>2. WithId' = WithId /\ WithNo' = WithNo
    BY <1>1 DEF WithId, WithNo
  <2>3. Cardinality(Gap') = Cardinality(Gap) - 1
    BY <2>1, OneLess, CountFacts
  <2>4. IsFiniteSet(Gap') /\ Cardinality(Gap') \in Nat
    BY <2>1, CountFacts, FS_Subset, FS_CardinalityType
  <2> QED
    BY <1>1, <2>2, <2>3, <2>4, CountFacts, TrxFacts DEF Counted
<1>3. TrxSysTypeOK'
  BY <1>1, <1>2 DEF MvccTypeOK, TrxSysTypeOK, TrxPC, snapvars
<1>4. ASSUME NEW u \in Trxs PROVE TrxOk(u)'
  BY <1>1, TrxFacts DEF TrxOk
<1>5. UniqueIds'
  BY <1>1 DEF UniqueIds, WithId
<1> QED
  BY <1>2, <1>3, <1>4, <1>5 DEF TrxInv

LEMMA TakeNoInv ==
    ASSUME MvccInv, NEW t \in Trxs, TakeNo(t), UNCHANGED snapvars
    PROVE  TrxInv'
<1> USE DEF MvccInv
<1>1. /\ tpc[t] = "active" /\ tpc' = [tpc EXCEPT ![t] = "number"]
      /\ number' = [number EXCEPT ![t] = m_max_trx_id]
      /\ m_max_trx_id' = m_max_trx_id + 1
      /\ m_rw_trx_hash_version' = m_rw_trx_hash_version
      /\ rw_trx_hash' = rw_trx_hash /\ id' = id /\ no' = no
      /\ tpc \in [Trxs -> TrxPC] /\ number \in [Trxs -> Nat]
  BY DEF TakeNo, Step, MvccTypeOK, TrxSysTypeOK
<1>2. Counted'
  <2>1. Gap' = Gap \cup {t} /\ t \notin Gap
    BY <1>1 DEF Gap
  <2>2. WithNo' = WithNo \cup {t} /\ t \notin WithNo
    BY <1>1 DEF WithNo, TrxOk
  <2>3. WithId' = WithId
    BY <1>1 DEF WithId
  <2>4. /\ Cardinality(Gap') = Cardinality(Gap) + 1
        /\ Cardinality(WithNo') = Cardinality(WithNo) + 1
    BY <2>1, <2>2, OneMore, CountFacts
  <2> QED
    BY <1>1, <2>3, <2>4, CountFacts, TrxFacts DEF Counted
<1>3. TrxSysTypeOK'
  BY <1>1, TrxFacts DEF MvccTypeOK, TrxSysTypeOK, TrxPC, snapvars
<1>4. ASSUME NEW u \in Trxs PROVE TrxOk(u)'
  BY <1>1, TrxFacts DEF TrxOk
<1>5. UniqueIds'
  BY <1>1 DEF UniqueIds, WithId
<1> QED
  BY <1>2, <1>3, <1>4, <1>5 DEF TrxInv

LEMMA StoreNoInv ==
    ASSUME MvccInv, NEW t \in Trxs, StoreNo(t), UNCHANGED snapvars
    PROVE  TrxInv'
<1> USE DEF MvccInv
<1>1. /\ tpc[t] = "number" /\ tpc' = [tpc EXCEPT ![t] = "publish"]
      /\ no' = [no EXCEPT ![t] = number[t]]
      /\ number' = [number EXCEPT ![t] = 0]
      /\ m_max_trx_id' = m_max_trx_id
      /\ m_rw_trx_hash_version' = m_rw_trx_hash_version
      /\ rw_trx_hash' = rw_trx_hash /\ id' = id
      /\ tpc \in [Trxs -> TrxPC] /\ number \in [Trxs -> Nat]
      /\ no \in [Trxs -> Nat]
  BY DEF StoreNo, Step, MvccTypeOK, TrxSysTypeOK
<1>2. number[t] < TRX_ID_MAX /\ number[t] \in Nat
  BY <1>1, TrxFacts DEF TrxOk
<1>3. Counted'
  <2>1. Gap' = Gap
    BY <1>1 DEF Gap
  <2>2. WithId' = WithId
    BY <1>1 DEF WithId
  <2>3. WithNo' = WithNo
    BY <1>1, <1>2, TrxFacts DEF WithNo
  <2> QED
    BY <1>1, <2>1, <2>2, <2>3 DEF Counted
<1>4. TrxSysTypeOK'
  BY <1>1 DEF MvccTypeOK, TrxSysTypeOK, TrxPC, snapvars
<1>5. ASSUME NEW u \in Trxs PROVE TrxOk(u)'
  BY <1>1, <1>2, TrxFacts DEF TrxOk
<1>6. UniqueIds'
  BY <1>1 DEF UniqueIds, WithId
<1> QED
  BY <1>3, <1>4, <1>5, <1>6 DEF TrxInv

LEMMA DeregisterInv ==
    ASSUME MvccInv, NEW t \in Trxs, deregister_rw(t), UNCHANGED snapvars
    PROVE  TrxInv'
<1> USE DEF MvccInv
<1>1. /\ tpc[t] \in {"serialised", "active"}
      /\ tpc' = [tpc EXCEPT ![t] = "committed"]
      /\ rw_trx_hash' = rw_trx_hash \ {t}
      /\ m_max_trx_id' = m_max_trx_id
      /\ m_rw_trx_hash_version' = m_rw_trx_hash_version
      /\ id' = id /\ no' = no /\ number' = number
      /\ tpc \in [Trxs -> TrxPC]
  BY DEF deregister_rw, Step, MvccTypeOK, TrxSysTypeOK
<1>2. Counted'
  <2>1. Gap' = Gap /\ WithId' = WithId /\ WithNo' = WithNo
    BY <1>1 DEF Gap, WithId, WithNo
  <2> QED
    BY <1>1, <2>1 DEF Counted
<1>3. TrxSysTypeOK'
  BY <1>1 DEF MvccTypeOK, TrxSysTypeOK, TrxPC, snapvars
<1>4. ASSUME NEW u \in Trxs PROVE TrxOk(u)'
  BY <1>1, TrxFacts DEF TrxOk
<1>5. UniqueIds'
  BY <1>1 DEF UniqueIds, WithId
<1> QED
  BY <1>2, <1>3, <1>4, <1>5 DEF TrxInv

\* The three actions of a transaction that change it.
LEMMA RegisterRwInv ==
    ASSUME MvccInv, NEW t \in Trxs, RegisterRw(t)
    PROVE  MvccInv'
<1> USE DEF MvccInv
<1>1. /\ t \in Writers /\ register_rw(t)
      /\ UNCHANGED <<snapvars, read_view, m_open, reuse, purgevars, before>>
      /\ late' \in SUBSET Trxs
  BY DEF RegisterRw, MvccTypeOK
<1>2. TrxInv'
  <2>1. CASE TakeId(t)
    BY <1>1, <2>1, TakeIdInv
  <2>2. CASE Insert(t)
    BY <1>1, <2>2, InsertInv
  <2>3. CASE Refresh(t)
    BY <1>1, <2>3, RefreshInv
  <2> QED
    BY <1>1, <2>1, <2>2, <2>3 DEF register_rw
<1>3. m_creator' \in [Trxs -> Nat]
  BY TrxFacts DEF RegisterRw, MvccTypeOK
<1>4. MvccTypeOK'
  BY <1>1, <1>2, <1>3 DEF MvccTypeOK, TrxInv, purgevars
<1>5. Forward
  BY <1>1, ForwardTrx
<1>6. ASSUME NEW u \in Trxs PROVE ThreadOk(u)'
  <2>1. ThreadOk(u) /\ TrxOk(u)
    OBVIOUS
  <2>2. /\ spc' = spc /\ m_open' = m_open /\ reuse' = reuse
        /\ m_creator \in [Trxs -> Nat]
    BY <1>1 DEF snapvars, MvccTypeOK
  <2>3. CASE u # t
    <3>1. tpc'[u] = tpc[u] /\ id'[u] = id[u]
      BY <1>1, <2>3 DEF register_rw, TakeId, Insert, Refresh, Step, MvccTypeOK,
                        TrxSysTypeOK
    <3>2. m_creator'[u] = m_creator[u]
      BY <2>2, <2>3 DEF RegisterRw
    <3> QED
      BY <2>1, <2>2, <3>1, <3>2 DEF ThreadOk
  <2>4. CASE u = t
    <3>1. spc[t] = "-"
      <4>1. spc[t] # "-" => tpc[t] \in {"start", "active", "committed"}
        BY <2>1, <2>4 DEF ThreadOk
      <4> QED
        BY <4>1 DEF RegisterRw, Resting
    <3>2. CASE TakeId(t)
      <4>1. /\ tpc[t] = "start" /\ tpc'[t] = "insert" /\ id[t] = 0
            /\ m_creator[t] = 0 /\ m_creator' = m_creator
        BY <2>1, <2>4, <3>2
           DEF RegisterRw, TakeId, Step, TrxOk, ThreadOk, MvccTypeOK,
               TrxSysTypeOK
      <4> QED
        BY <2>1, <2>2, <2>4, <3>1, <4>1 DEF ThreadOk
    <3>3. CASE Insert(t)
      <4>1. tpc'[t] = "refresh" /\ id' = id /\ m_creator' = m_creator
        BY <3>3 DEF RegisterRw, Insert, Step, MvccTypeOK, TrxSysTypeOK
      <4> QED
        BY <2>1, <2>2, <2>4, <3>1, <4>1 DEF ThreadOk
    <3>4. CASE Refresh(t)
      <4>1. /\ tpc'[t] = "active" /\ id' = id
            /\ m_creator'[t] = IF m_open[t] THEN id[t] ELSE m_creator[t]
        BY <2>2, <3>4 DEF RegisterRw, Refresh, Step, MvccTypeOK, TrxSysTypeOK
      <4> QED
        BY <2>1, <2>2, <2>4, <3>1, <4>1 DEF ThreadOk
    <3> QED
      BY <1>1, <3>2, <3>3, <3>4 DEF register_rw
  <2> QED
    BY <2>3, <2>4
<1> QED
  BY <1>1, <1>2, <1>4, <1>5, <1>6, ViewsKept DEF TrxInv

LEMMA SerialiseInv ==
    ASSUME MvccInv, NEW t \in Trxs, Serialise(t)
    PROVE  MvccInv'
<1> USE DEF MvccInv
<1>1. /\ trx_serialise(t) /\ UNCHANGED <<snapvars, viewvars, purgevars, before>>
      /\ UNCHANGED snapvars
      /\ UNCHANGED <<snapvars, read_view, m_open, reuse, purgevars, before>>
  BY DEF Serialise, viewvars
<1>2. TrxInv'
  <2>1. CASE TakeNo(t)
    BY <1>1, <2>1, TakeNoInv
  <2>2. CASE StoreNo(t)
    BY <1>1, <2>2, StoreNoInv
  <2>3. CASE Publish(t)
    BY <1>1, <2>3, RefreshInv
  <2> QED
    BY <1>1, <2>1, <2>2, <2>3 DEF trx_serialise
<1>3. MvccTypeOK'
  BY <1>1, <1>2 DEF MvccTypeOK, TrxInv, viewvars, purgevars
<1>4. Forward
  BY <1>1, ForwardTrx
<1>5. ASSUME NEW u \in Trxs PROVE ThreadOk(u)'
  <2>1. ThreadOk(u)
    OBVIOUS
  <2>2. /\ spc' = spc /\ m_open' = m_open /\ reuse' = reuse /\ id' = id
        /\ m_creator' = m_creator
    BY <1>1 DEF snapvars, viewvars, trx_serialise, TakeNo, StoreNo, Publish
  <2>3. CASE u # t
    <3>1. tpc'[u] = tpc[u]
      BY <1>1, <2>3 DEF trx_serialise, TakeNo, StoreNo, Publish, Step,
                        MvccTypeOK, TrxSysTypeOK
    <3> QED
      BY <2>1, <2>2, <3>1 DEF ThreadOk
  <2>4. CASE u = t
    <3>1. spc[t] = "-"
      <4>1. spc[t] # "-" => tpc[t] \in {"start", "active", "committed"}
        BY <2>1, <2>4 DEF ThreadOk
      <4> QED
        BY <4>1 DEF Serialise, Resting
    <3>2. tpc'[t] # "active"
      BY <1>1 DEF trx_serialise, TakeNo, StoreNo, Publish, Step, MvccTypeOK,
                  TrxSysTypeOK
    <3> QED
      BY <2>1, <2>2, <2>4, <3>1, <3>2 DEF ThreadOk
  <2> QED
    BY <2>3, <2>4
<1> QED
  BY <1>1, <1>2, <1>3, <1>4, <1>5, ViewsKept DEF TrxInv

LEMMA CommitInv ==
    ASSUME MvccInv, NEW t \in Trxs, CommitInMemory(t)
    PROVE  MvccInv'
<1> USE DEF MvccInv
<1>1. /\ deregister_rw(t) /\ UNCHANGED <<snapvars, viewvars, purgevars, before>>
      /\ UNCHANGED snapvars
      /\ UNCHANGED <<snapvars, read_view, m_open, reuse, purgevars, before>>
  BY DEF CommitInMemory, viewvars
<1>2. TrxInv'
  BY <1>1, DeregisterInv
<1>3. MvccTypeOK'
  BY <1>1, <1>2 DEF MvccTypeOK, TrxInv, viewvars, purgevars
<1>4. Forward
  BY <1>1, ForwardTrx
<1>5. ASSUME NEW u \in Trxs PROVE ThreadOk(u)'
  <2>1. ThreadOk(u)
    OBVIOUS
  <2>2. /\ spc' = spc /\ m_open' = m_open /\ reuse' = reuse /\ id' = id
        /\ m_creator' = m_creator
    BY <1>1 DEF snapvars, viewvars, deregister_rw
  <2>3. tpc'[u] = tpc[u] \/ tpc'[u] = "committed"
    BY <1>1 DEF deregister_rw, Step, MvccTypeOK, TrxSysTypeOK
  <2> QED
    BY <2>1, <2>2, <2>3 DEF ThreadOk
<1> QED
  BY <1>1, <1>2, <1>3, <1>4, <1>5, ViewsKept DEF TrxInv

-----------------------------------------------------------------------------
(* Steps that leave the transactions alone. *)

LEMMA TrxsSame ==
    ASSUME MvccInv, UNCHANGED trxvars
    PROVE  /\ Counted' /\ UniqueIds' /\ (\A t \in Trxs : TrxOk(t)')
           /\ Forward
           /\ \A v \in Views : ViewOk(v) => ViewOk(v)'
           /\ purged' = purged => PurgedAreCommitted'
<1> USE DEF MvccInv
<1>1. /\ m_max_trx_id' = m_max_trx_id
      /\ m_rw_trx_hash_version' = m_rw_trx_hash_version
      /\ rw_trx_hash' = rw_trx_hash /\ id' = id /\ no' = no
      /\ number' = number /\ tpc' = tpc
  BY DEF trxvars
<1>2. Gap' = Gap /\ WithId' = WithId /\ WithNo' = WithNo
  BY <1>1 DEF Gap, WithId, WithNo
<1>3. Counted'
  BY <1>1, <1>2 DEF Counted
<1>4. UniqueIds'
  BY <1>1, <1>2 DEF UniqueIds
<1>5. \A t \in Trxs : TrxOk(t)'
  BY <1>1 DEF TrxOk
<1>6. Forward
  BY ForwardStutter
<1>7. \A v \in Views : ViewOk(v) => ViewOk(v)'
  BY <1>1, <1>6, ViewKept DEF MvccTypeOK, TrxSysTypeOK
<1> QED
  BY <1>1, <1>3, <1>4, <1>5, <1>6, <1>7 DEF PurgedAreCommitted

\* The snapshots that a step does not touch.
LEMMA SnapSame ==
    ASSUME MvccInv, UNCHANGED trxvars, MvccTypeOK', NEW s \in Snappers,
           spc'[s] = spc[s], arg'[s] = arg[s], visited'[s] = visited[s]
    PROVE  SnapOk(s)'
<1> USE DEF MvccInv
<1>1. Forward
  BY ForwardStutter
<1>2. WalkOk(s) => WalkOk(s)'
  BY <1>1, WalkKept
<1> QED
  BY <1>2 DEF SnapOk, trxvars

\* A walk that has passed all the elements that were there throughout.
LEMMA SnapshotSound ==
    ASSUME MvccInv, NEW s \in Snappers, WalkDone(s)
    PROVE  Snapshot(s) \in Views /\ ViewOk(Snapshot(s))
<1> USE DEF MvccInv
<1> DEFINE v == Snapshot(s)
<1>1. /\ v.low_limit_id = arg[s].m_id /\ v.ids = arg[s].ids
      /\ v.low_limit_no = arg[s].m_no
      /\ arg[s].m_id \in Nat /\ arg[s].m_no \in Nat /\ arg[s].ids \subseteq Nat
      /\ v \in Views
  BY DEF Snapshot, MvccTypeOK, TrxSysTypeOK, Args, Views
<1>2. WalkOk(s)
  BY DEF SnapOk, WalkDone
<1>3. /\ v.low_limit_no <= v.low_limit_id /\ v.low_limit_id <= m_max_trx_id
      /\ v.low_limit_no <= TRX_ID_MAX
  BY <1>1, <1>2, TrxFacts DEF WalkOk
<1> HIDE DEF v
<1>4. ASSUME NEW t \in Trxs, id[t] < arg[s].m_id, tpc[t] \notin {"start", "committed"}
      PROVE  t \in visited[s]
  <2>1. tpc[t] # "insert"
    BY <1>1, <1>2, <1>4, TrxFacts DEF WalkOk, NoGap
  <2>2. t \in rw_trx_hash
    <3>1. tpc[t] \in TrxPC /\ TrxOk(t)
      BY DEF MvccTypeOK, TrxSysTypeOK
    <3> QED
      BY <1>4, <2>1, <3>1 DEF TrxOk, TrxPC
  <2> QED
    BY <1>1, <1>4, <2>2, TrxFacts DEF WalkDone
<1>5. ASSUME NEW t \in WithId, Vis(v, t) PROVE tpc[t] = "committed"
  <2>1. t \in Trxs /\ tpc[t] # "start" /\ id[t] < arg[s].m_id
    BY <1>1, <1>5 DEF WithId, Vis
  <2>2. t \in visited[s] => id[t] \in arg[s].ids
    BY <1>2, <2>1 DEF WalkOk
  <2> QED
    BY <1>1, <1>4, <1>5, <2>1, <2>2 DEF Vis
<1>6. ASSUME NEW t \in Trxs, tpc[t] # "committed"
      PROVE  /\ v.low_limit_no <= no[t]
             /\ tpc[t] = "number" => v.low_limit_no <= number[t]
  <2>1. tpc[t] \in TrxPC /\ TrxOk(t)
    BY DEF MvccTypeOK, TrxSysTypeOK
  <2>2. CASE tpc[t] \in {"start", "insert", "refresh", "active"}
    BY <1>3, <2>1, <2>2 DEF TrxOk
  <2>3. CASE tpc[t] = "number"
    <3>1. arg[s].m_id <= number[t]
      BY <1>2, <2>3 DEF WalkOk, NoGap
    <3> QED
      BY <1>1, <1>3, <2>1, <2>3, <3>1, TrxFacts DEF TrxOk
  <2>4. CASE tpc[t] = "publish"
    <3>1. arg[s].m_id <= no[t]
      BY <1>2, <2>4 DEF WalkOk, NoGap
    <3> QED
      BY <1>1, <1>3, <2>4, <3>1, TrxFacts
  <2>5. CASE tpc[t] = "serialised"
    <3>1. CASE id[t] < arg[s].m_id
      <4>1. t \in visited[s]
        BY <1>4, <2>5, <3>1
      <4>2. arg[s].m_no <= no[t]
        BY <1>2, <3>1, <4>1 DEF WalkOk
      <4> QED
        BY <1>1, <2>5, <4>2
    <3>2. CASE ~(id[t] < arg[s].m_id)
      <4>1. id[t] < no[t]
        BY <2>1, <2>5 DEF TrxOk
      <4> QED
        BY <1>1, <1>3, <2>5, <3>2, <4>1, TrxFacts
    <3> QED
      BY <3>1, <3>2
  <2> QED
    BY <1>6, <2>1, <2>2, <2>3, <2>4, <2>5 DEF TrxPC
<1>7. ASSUME NEW t \in Trxs, no[t] < v.low_limit_no PROVE Vis(v, t)
  <2>1. tpc[t] = "committed"
    BY <1>1, <1>6, <1>7, TrxFacts
  <2>2. id[t] < no[t]
    BY <1>1, <1>3, <1>7, TrxFacts DEF TrxOk
  <2>3. id[t] < v.low_limit_id
    BY <1>1, <1>3, <1>7, <2>2, TrxFacts
  <2>4. ASSUME id[t] \in arg[s].ids PROVE FALSE
    <3>1. PICK u \in visited[s] : id[u] = id[t]
      BY <1>2, <2>4 DEF WalkOk
    <3>2. u = t
      BY <1>2, <2>1, <3>1 DEF WalkOk, UniqueIds, WithId
    <3>3. arg[s].m_no <= no[t]
      BY <1>1, <1>2, <2>3, <3>1, <3>2 DEF WalkOk
    <3> QED
      BY <1>1, <1>7, <3>3, TrxFacts
  <2> QED
    BY <1>1, <2>3, <2>4 DEF Vis
<1> QED
  BY <1>1, <1>3, <1>5, <1>6, <1>7 DEF ViewOk, v

\* The steps of snapshot_ids().
LEMMA CompareInv ==
    ASSUME MvccInv, NEW s \in Snappers, CompareMax(s),
           UNCHANGED <<trxvars, viewvars, purgevars, before>>
    PROVE  MvccInv'
<1> USE DEF MvccInv
<1>1. UNCHANGED trxvars /\ UNCHANGED viewvars /\ UNCHANGED purgevars
      /\ before' = before /\ visited' = visited
  BY DEF CompareMax
<1>2. /\ spc \in [Snappers -> SnapPC] /\ arg \in [Snappers -> Args]
      /\ arg[s] \in Args /\ spc[s] = "compare"
  BY DEF MvccTypeOK, TrxSysTypeOK, CompareMax
<1>3. /\ \A u \in Snappers : u # s => spc'[u] = spc[u] /\ arg'[u] = arg[u]
      /\ spc' \in [Snappers -> SnapPC] /\ arg' \in [Snappers -> Args]
  BY <1>2, TrxFacts DEF CompareMax, SnapPC, Args
<1>4. MvccTypeOK'
  BY <1>1, <1>3 DEF MvccTypeOK, TrxSysTypeOK, trxvars, viewvars, purgevars
<1>5. /\ arg[s].ids = {} /\ visited[s] = {}
      /\ arg[s].m_id <= m_rw_trx_hash_version
  BY <1>2 DEF SnapOk
<1>6. SnapOk(s)' /\ (s \in Trxs => BeforeOk(s)')
  <2>1. CASE arg[s].m_id = m_max_trx_id
    <3>1. /\ spc'[s] = "walk" /\ arg'[s].m_id = m_max_trx_id
          /\ arg'[s].m_no = m_max_trx_id /\ arg'[s].ids = {}
          /\ visited'[s] = {}
      BY <1>1, <1>2, <1>5, <2>1 DEF CompareMax, Args
    <3>2. Gap = {}
      <4>1. m_rw_trx_hash_version = m_max_trx_id
        BY <1>5, <2>1, TrxFacts DEF MvccTypeOK, TrxSysTypeOK
      <4> QED
        BY <4>1, CountFacts
    <3>3. NoGap(m_max_trx_id)'
      BY <1>1, <3>2 DEF NoGap, Gap, trxvars
    <3>4. WalkOk(s)'
      BY <1>1, <3>1, <3>3, TrxFacts DEF WalkOk, NoGap, trxvars
    <3>5. s \in Trxs => BeforeOk(s)'
      <4>1. ASSUME s \in Trxs, NEW t \in before[s]
            PROVE  t \in Trxs /\ tpc[t] = "committed" /\ id[t] < m_max_trx_id
        BY <4>1, TrxFacts DEF BeforeOk, Committed
      <4>2. Snapshot(s)' = [low_limit_id |-> m_max_trx_id, ids |-> {},
                            low_limit_no |-> m_max_trx_id]
        BY <3>1 DEF Snapshot
      <4>3. s \in Trxs => ~m_open[s] /\ ~reuse[s]
        BY <1>2 DEF ThreadOk
      <4> QED
        BY <1>1, <4>1, <4>2, <4>3 DEF BeforeOk, Committed, Vis, trxvars,
                                      viewvars
    <3> QED
      BY <3>1, <3>4, <3>5 DEF SnapOk
  <2>2. CASE arg[s].m_id # m_max_trx_id
    <3>1. /\ spc'[s] = "compare" /\ arg'[s].m_id = m_rw_trx_hash_version
          /\ arg'[s].ids = {} /\ visited'[s] = {}
      BY <1>1, <1>2, <1>5, <2>2 DEF CompareMax, Args
    <3>2. SnapOk(s)'
      BY <1>1, <3>1, TrxFacts DEF SnapOk, trxvars
    <3>3. s \in Trxs => BeforeOk(s)'
      BY <1>1, <3>1 DEF BeforeOk, Committed, Vis, trxvars, viewvars
    <3> QED
      BY <3>2, <3>3
  <2> QED
    BY <2>1, <2>2
<1>7. ASSUME NEW u \in Snappers PROVE SnapOk(u)'
  BY <1>1, <1>3, <1>4, <1>6, SnapSame
<1>8. ASSUME NEW r \in Trxs PROVE BeforeOk(r)'
  <2>1. CASE r = s
    BY <1>6, <2>1
  <2>2. CASE r # s
    <3>1. Forward /\ BeforeOk(r) /\ MvccTypeOK /\ r \in Snappers
      BY <1>1, TrxsSame DEF Snappers
    <3> QED
      BY <1>1, <1>3, <2>2, <3>1, BeforeKept DEF viewvars
  <2> QED
    BY <2>1, <2>2
<1>9. ASSUME NEW u \in Trxs PROVE ThreadOk(u)'
  <2>1. ThreadOk(u) /\ u \in Snappers /\ (spc'[u] # "-" <=> spc[u] # "-")
    <3>1. spc'[s] # "-" /\ spc[s] # "-"
      BY <1>2 DEF CompareMax
    <3> QED
      BY <1>3, <3>1 DEF Snappers
  <2> QED
    BY <1>1, <2>1 DEF ThreadOk, trxvars, viewvars
<1>10. /\ ViewOk(purge_view)' /\ ViewOk(building)'
       /\ \A r \in Trxs : ViewOk(read_view[r])'
  BY <1>1 DEF ViewOk, Vis, WithId, trxvars, viewvars, purgevars
<1> QED
  BY <1>1, <1>4, <1>7, <1>8, <1>9, <1>10, TrxsSame DEF purgevars

LEMMA CopyInv ==
    ASSUME MvccInv, NEW s \in Snappers, NEW t \in Trxs, CopyOneId(s, t),
           UNCHANGED <<trxvars, viewvars, purgevars, before>>
    PROVE  MvccInv'
<1> USE DEF MvccInv
<1>1. UNCHANGED trxvars /\ UNCHANGED viewvars /\ UNCHANGED purgevars
      /\ before' = before /\ spc' = spc
  BY DEF CopyOneId
<1>2. /\ arg \in [Snappers -> Args] /\ arg[s] \in Args
      /\ visited \in [Snappers -> SUBSET Trxs]
      /\ spc[s] = "walk" /\ t \in rw_trx_hash /\ WalkOk(s)
  BY DEF MvccTypeOK, TrxSysTypeOK, CopyOneId, SnapOk
<1>3. /\ t \in WithId /\ tpc[t] # "committed"
  <2>1. TrxOk(t)
    OBVIOUS
  <2> QED
    BY <1>2, <2>1 DEF TrxOk, WithId
<1>4. /\ visited' = [visited EXCEPT ![s] = visited[s] \cup {t}]
      /\ visited'[s] = visited[s] \cup {t}
      /\ visited' \in [Snappers -> SUBSET Trxs]
      /\ \A u \in Snappers : u # s => visited'[u] = visited[u]
  BY <1>2 DEF CopyOneId
<1>5. /\ arg' \in [Snappers -> Args]
      /\ \A u \in Snappers : u # s => arg'[u] = arg[u]
      /\ arg'[s].m_id = arg[s].m_id
      /\ id[t] < arg[s].m_id => /\ arg'[s].ids = arg[s].ids \cup {id[t]}
                                /\ arg'[s].m_no = Smaller(arg[s].m_no, no[t])
      /\ ~(id[t] < arg[s].m_id) => arg'[s] = arg[s]
  <2>1. CASE id[t] < arg[s].m_id
    <3>1. arg' = [arg EXCEPT ![s] =
                    [arg[s] EXCEPT !.ids = arg[s].ids \cup {id[t]},
                                   !.m_no = Smaller(arg[s].m_no, no[t])]]
      BY <1>2, <2>1 DEF CopyOneId, Args
    <3> QED
      BY <1>2, <2>1, <3>1, TrxFacts DEF Args, Smaller
  <2>2. CASE ~(id[t] < arg[s].m_id)
    BY <1>2, <2>2 DEF CopyOneId
  <2> QED
    BY <2>1, <2>2
<1>6. MvccTypeOK'
  BY <1>1, <1>4, <1>5 DEF MvccTypeOK, TrxSysTypeOK, trxvars, viewvars, purgevars
<1>7. WalkOk(s)'
  <2>1. /\ arg[s].m_id \in Nat /\ arg[s].m_no \in Nat
        /\ \A u \in Trxs : id[u] \in Nat /\ no[u] \in Nat
    BY <1>2, TrxFacts DEF Args
  <2>2. CASE id[t] < arg[s].m_id
    <3>1. /\ arg'[s].m_no <= arg[s].m_no /\ arg'[s].m_no <= no[t]
          /\ arg'[s].m_no <= arg'[s].m_id /\ arg'[s].m_no \in Nat
      BY <1>2, <1>5, <2>1, <2>2 DEF Smaller, WalkOk
    <3>2. \A u \in visited'[s] : id[u] < arg[s].m_id =>
             id[u] \in arg'[s].ids /\ arg'[s].m_no <= no[u]
      <4>1. ASSUME NEW u \in visited[s], id[u] < arg[s].m_id
            PROVE  id[u] \in arg'[s].ids /\ arg'[s].m_no <= no[u]
        <5>1. id[u] \in arg[s].ids /\ arg[s].m_no <= no[u] /\ u \in Trxs
          BY <1>2, <4>1 DEF WalkOk, WithId
        <5> QED
          BY <1>5, <2>1, <2>2, <3>1, <5>1
      <4> QED
        BY <1>4, <1>5, <2>2, <3>1, <4>1
    <3>3. \A i \in arg'[s].ids :
             \E u \in visited'[s] : id[u] = i /\ i < arg[s].m_id
      BY <1>2, <1>4, <1>5, <2>2 DEF WalkOk
    <3>4. visited'[s] \subseteq WithId
      BY <1>2, <1>3, <1>4 DEF WalkOk
    <3> QED
      BY <1>1, <1>2, <1>5, <3>1, <3>2, <3>3, <3>4
         DEF WalkOk, NoGap, WithId, trxvars
  <2>3. CASE ~(id[t] < arg[s].m_id)
    BY <1>1, <1>2, <1>3, <1>4, <1>5, <2>3 DEF WalkOk, NoGap, WithId, trxvars
  <2> QED
    BY <2>2, <2>3
<1>8. s \in Trxs => BeforeOk(s)'
  <2>1. ASSUME s \in Trxs, NEW u \in before[s]
        PROVE  /\ u \in Trxs /\ tpc[u] = "committed" /\ id[u] # id[t]
               /\ Vis(Snapshot(s), u)
    <3>1. u \in Trxs /\ tpc[u] = "committed" /\ Vis(Snapshot(s), u)
      BY <1>2, <2>1 DEF BeforeOk, Committed
    <3> QED
      BY <1>3, <3>1 DEF UniqueIds, WithId
  <2>2. /\ Snapshot(s).low_limit_id = arg[s].m_id
        /\ Snapshot(s).ids = arg[s].ids
        /\ Snapshot(s)'.low_limit_id = arg[s].m_id
        /\ Snapshot(s)'.ids \subseteq arg[s].ids \cup {id[t]}
    BY <1>5 DEF Snapshot
  <2>3. s \in Trxs => \A u \in before[s] : Vis(Snapshot(s), u)'
    BY <1>1, <2>1, <2>2 DEF Vis, trxvars
  <2>4. s \in Trxs => ~m_open[s] /\ ~reuse[s]
    BY <1>2 DEF ThreadOk
  <2> QED
    BY <1>1, <2>1, <2>3, <2>4 DEF BeforeOk, Committed, trxvars, viewvars
<1>9. ASSUME NEW u \in Snappers PROVE SnapOk(u)'
  <2>1. CASE u = s
    BY <1>1, <1>2, <1>7, <2>1 DEF SnapOk
  <2>2. CASE u # s
    BY <1>1, <1>4, <1>5, <1>6, <2>2, SnapSame
  <2> QED
    BY <2>1, <2>2
<1>10. ASSUME NEW r \in Trxs PROVE BeforeOk(r)'
  <2>1. CASE r = s
    BY <1>8, <2>1
  <2>2. CASE r # s
    <3>1. Forward /\ BeforeOk(r) /\ MvccTypeOK /\ r \in Snappers
      BY <1>1, TrxsSame DEF Snappers
    <3> QED
      BY <1>1, <1>5, <2>2, <3>1, BeforeKept DEF viewvars
  <2> QED
    BY <2>1, <2>2
<1>11. \A u \in Trxs : ThreadOk(u)'
  BY <1>1 DEF ThreadOk, trxvars, viewvars
<1>12. /\ ViewOk(purge_view)' /\ ViewOk(building)'
       /\ \A r \in Trxs : ViewOk(read_view[r])'
  BY <1>1 DEF ViewOk, Vis, WithId, trxvars, viewvars, purgevars
<1> QED
  BY <1>1, <1>6, <1>9, <1>10, <1>11, <1>12, TrxsSame DEF purgevars

-----------------------------------------------------------------------------
(* Opening and closing a view. *)

LEMMA OpenReuseInv ==
    ASSUME MvccInv, NEW t \in Trxs, open_reuse(t)
    PROVE  MvccInv'
<1> USE DEF MvccInv
<1>1. /\ UNCHANGED trxvars /\ UNCHANGED snapvars /\ UNCHANGED purgevars
      /\ read_view' = read_view /\ m_open' = m_open
      /\ reuse' = [reuse EXCEPT ![t] = TRUE]
      /\ m_creator' = [m_creator EXCEPT ![t] = 0]
      /\ before' = [before EXCEPT ![t] = Committed]
      /\ t \in Readers /\ t \in Autocommit /\ ~m_open[t] /\ spc[t] = "-"
      /\ read_view[t].ids = {} /\ read_view[t].low_limit_id = m_max_trx_id
      /\ late' \in SUBSET Trxs
  BY DEF open_reuse, Resting, MayReuse, MvccTypeOK
<1>2. /\ reuse \in [Trxs -> BOOLEAN] /\ m_creator \in [Trxs -> Nat]
      /\ before \in [Trxs -> SUBSET Trxs] /\ Committed \in SUBSET Trxs
  BY DEF MvccTypeOK, Committed
<1>3. MvccTypeOK'
  BY <1>1, <1>2 DEF MvccTypeOK, TrxSysTypeOK, trxvars, snapvars, purgevars
<1>4. ASSUME NEW u \in Trxs PROVE ThreadOk(u)'
  BY <1>1, <1>2 DEF ThreadOk, trxvars, snapvars
<1>5. ASSUME NEW r \in Trxs PROVE BeforeOk(r)'
  <2>1. CASE r = t
    <3>1. \A u \in Committed : Vis(read_view[t], u)
      BY <1>1, TrxFacts DEF Vis, Committed
    <3> QED
      BY <1>1, <1>2, <2>1, <3>1 DEF BeforeOk, Vis, Committed, trxvars, snapvars
  <2>2. CASE r # t
    <3>1. Forward /\ BeforeOk(r) /\ MvccTypeOK
      BY <1>1, TrxsSame
    <3> QED
      BY <1>1, <1>2, <2>2, <3>1, BeforeKept DEF snapvars
  <2> QED
    BY <2>1, <2>2
<1>6. ASSUME NEW u \in Snappers PROVE SnapOk(u)'
  BY <1>1, <1>3, SnapSame DEF snapvars
<1>7. /\ ViewOk(purge_view)' /\ ViewOk(building)'
      /\ \A r \in Trxs : ViewOk(read_view[r])'
  BY <1>1 DEF ViewOk, Vis, WithId, trxvars, purgevars
<1> QED
  BY <1>1, <1>3, <1>4, <1>5, <1>6, <1>7, TrxsSame DEF purgevars

LEMMA OpenReusedInv ==
    ASSUME MvccInv, NEW t \in Trxs, open_reused(t)
    PROVE  MvccInv'
<1> USE DEF MvccInv
<1>1. /\ UNCHANGED trxvars /\ UNCHANGED snapvars /\ UNCHANGED purgevars
      /\ read_view' = read_view /\ m_creator' = m_creator /\ before' = before
      /\ reuse' = [reuse EXCEPT ![t] = FALSE]
      /\ m_open' = [m_open EXCEPT ![t] = TRUE] /\ reuse[t]
      /\ late' \in SUBSET Trxs
  BY DEF open_reused, MvccTypeOK
<1>2. reuse \in [Trxs -> BOOLEAN] /\ m_open \in [Trxs -> BOOLEAN]
  BY DEF MvccTypeOK
<1>3. /\ t \in Autocommit /\ t \in Readers /\ spc[t] = "-"
      /\ tpc[t] = "start"
  <2>1. t \in Autocommit /\ t \in Readers /\ spc[t] = "-"
    BY <1>1 DEF ThreadOk
  <2> QED
    BY <2>1, MvccAssumption DEF MvccAssumption, TrxOk
<1>4. MvccTypeOK'
  BY <1>1, <1>2 DEF MvccTypeOK, TrxSysTypeOK, trxvars, snapvars, purgevars
<1>5. ASSUME NEW u \in Trxs PROVE ThreadOk(u)'
  BY <1>1, <1>2, <1>3 DEF ThreadOk, trxvars, snapvars
<1>6. ASSUME NEW r \in Trxs PROVE BeforeOk(r)'
  BY <1>1, <1>2 DEF BeforeOk, Vis, Committed, Snapshot, trxvars, snapvars
<1>7. ASSUME NEW u \in Snappers PROVE SnapOk(u)'
  BY <1>1, <1>4, SnapSame DEF snapvars
<1>8. /\ ViewOk(purge_view)' /\ ViewOk(building)'
      /\ \A r \in Trxs : ViewOk(read_view[r])'
  BY <1>1 DEF ViewOk, Vis, WithId, trxvars, purgevars
<1> QED
  BY <1>1, <1>4, <1>5, <1>6, <1>7, <1>8, TrxsSame DEF purgevars

\* The beginning and the end of a snapshot.
LEMMA LoadFacts ==
    ASSUME MvccInv, NEW s \in Snappers, LoadVersion(s), UNCHANGED trxvars,
           MvccTypeOK'
    PROVE  /\ spc'[s] = "compare" /\ SnapOk(s)'
           /\ \A u \in Snappers : u # s => spc'[u] = spc[u] /\ arg'[u] = arg[u]
           /\ \A u \in Snappers : SnapOk(u)'
<1> USE DEF MvccInv
<1>1. /\ spc \in [Snappers -> SnapPC] /\ arg \in [Snappers -> Args]
      /\ arg[s] \in Args /\ spc[s] = "-" /\ visited' = visited
      /\ SnapOk(s)
  BY DEF MvccTypeOK, TrxSysTypeOK, LoadVersion
<1>2. /\ spc'[s] = "compare" /\ arg'[s].m_id = m_rw_trx_hash_version
      /\ arg'[s].ids = arg[s].ids
      /\ \A u \in Snappers : u # s => spc'[u] = spc[u] /\ arg'[u] = arg[u]
  BY <1>1 DEF LoadVersion, Args
<1>3. SnapOk(s)'
  BY <1>1, <1>2, TrxFacts DEF SnapOk, trxvars
<1>4. ASSUME NEW u \in Snappers PROVE SnapOk(u)'
  BY <1>1, <1>2, <1>3, SnapSame
<1> QED
  BY <1>2, <1>3, <1>4

LEMMA LoadType ==
    ASSUME MvccInv, NEW s \in Snappers, LoadVersion(s), UNCHANGED trxvars
    PROVE  TrxSysTypeOK'
<1>1. /\ spc \in [Snappers -> SnapPC] /\ arg \in [Snappers -> Args]
      /\ arg[s] \in Args /\ visited' = visited
  BY DEF MvccInv, MvccTypeOK, TrxSysTypeOK, LoadVersion
<1>2. spc' \in [Snappers -> SnapPC] /\ arg' \in [Snappers -> Args]
  BY <1>1, TrxFacts DEF LoadVersion, SnapPC, Args
<1> QED
  BY <1>1, <1>2 DEF MvccInv, MvccTypeOK, TrxSysTypeOK, trxvars

LEMMA EndFacts ==
    ASSUME MvccInv, NEW s \in Snappers, EndSnapshot(s), UNCHANGED trxvars
    PROVE  /\ spc[s] = "walk" /\ spc'[s] = "-"
           /\ \A u \in Snappers : u # s => /\ spc'[u] = spc[u]
                                           /\ arg'[u] = arg[u]
                                           /\ visited'[u] = visited[u]
           /\ TrxSysTypeOK'
           /\ Snapshot(s) \in Views /\ ViewOk(Snapshot(s))
           /\ MvccTypeOK' => \A u \in Snappers : SnapOk(u)'
<1> USE DEF MvccInv
<1>1. /\ spc \in [Snappers -> SnapPC] /\ arg \in [Snappers -> Args]
      /\ visited \in [Snappers -> SUBSET Trxs]
      /\ spc' = [spc EXCEPT ![s] = "-"] /\ arg' = [arg EXCEPT ![s] = NoArg]
      /\ visited' = [visited EXCEPT ![s] = {}] /\ WalkDone(s)
      /\ NoArg \in Args
  BY DEF MvccTypeOK, TrxSysTypeOK, EndSnapshot, NoArg, Args
<1>2. /\ spc[s] = "walk" /\ spc'[s] = "-" /\ arg'[s].ids = {}
      /\ visited'[s] = {}
      /\ \A u \in Snappers : u # s => /\ spc'[u] = spc[u] /\ arg'[u] = arg[u]
                                      /\ visited'[u] = visited[u]
  BY <1>1 DEF WalkDone, NoArg
<1>3. TrxSysTypeOK'
  BY <1>1 DEF MvccTypeOK, TrxSysTypeOK, trxvars, SnapPC
<1>4. MvccTypeOK' => \A u \in Snappers : SnapOk(u)'
  <2>1. SnapOk(s)'
    BY <1>2 DEF SnapOk
  <2> QED
    BY <1>2, <2>1, SnapSame
<1> QED
  BY <1>1, <1>2, <1>3, <1>4, SnapshotSound

LEMMA OpenSnapshotInv ==
    ASSUME MvccInv, NEW t \in Trxs, open_snapshot(t)
    PROVE  MvccInv'
<1> USE DEF MvccInv
<1>1. /\ UNCHANGED trxvars /\ UNCHANGED purgevars /\ LoadVersion(t)
      /\ read_view' = read_view /\ m_open' = m_open /\ reuse' = reuse
      /\ before' = [before EXCEPT ![t] = Committed]
      /\ t \in Readers /\ ~m_open[t] /\ Resting(t) /\ t \in Snappers
      /\ late' \in SUBSET Trxs
  BY DEF open_snapshot, Snappers, MvccTypeOK
<1>2. /\ m_creator \in [Trxs -> Nat] /\ id \in [Trxs -> Nat]
      /\ before \in [Trxs -> SUBSET Trxs] /\ Committed \in SUBSET Trxs
      /\ m_creator' = [m_creator EXCEPT ![t] =
                         IF tpc[t] = "active" THEN id[t] ELSE 0]
  BY DEF MvccTypeOK, TrxSysTypeOK, Committed, open_snapshot
<1>3. MvccTypeOK'
  <2>1. TrxSysTypeOK'
    BY <1>1, LoadType
  <2>2. m_creator' \in [Trxs -> Nat] /\ before' \in [Trxs -> SUBSET Trxs]
    BY <1>1, <1>2
  <2> QED
    BY <1>1, <2>1, <2>2 DEF MvccTypeOK, purgevars
<1>4. /\ spc'[t] = "compare"
      /\ \A u \in Trxs : u # t => spc'[u] = spc[u] /\ arg'[u] = arg[u]
      /\ \A u \in Snappers : SnapOk(u)'
  BY <1>1, <1>3, LoadFacts DEF Snappers
<1>5. ASSUME NEW u \in Trxs PROVE ThreadOk(u)'
  <2>1. ThreadOk(u) /\ tpc' = tpc /\ id' = id
    BY <1>1 DEF trxvars
  <2>2. CASE u = t
    BY <1>1, <1>2, <1>4, <2>1, <2>2 DEF ThreadOk, Resting
  <2>3. CASE u # t
    BY <1>1, <1>2, <1>4, <2>1, <2>3 DEF ThreadOk
  <2> QED
    BY <2>2, <2>3
<1>6. ASSUME NEW r \in Trxs PROVE BeforeOk(r)'
  <2>1. CASE r = t
    BY <1>1, <1>2, <1>4, <2>1 DEF BeforeOk, Committed, Resting, trxvars
  <2>2. CASE r # t
    <3>1. Forward /\ BeforeOk(r) /\ MvccTypeOK
      BY <1>1, TrxsSame
    <3> QED
      BY <1>1, <1>2, <1>4, <2>2, <3>1, BeforeKept
  <2> QED
    BY <2>1, <2>2
<1>7. /\ ViewOk(purge_view)' /\ ViewOk(building)'
      /\ \A r \in Trxs : ViewOk(read_view[r])'
  BY <1>1 DEF ViewOk, Vis, WithId, trxvars, purgevars
<1> QED
  BY <1>1, <1>3, <1>4, <1>5, <1>6, <1>7, TrxsSame DEF purgevars

LEMMA OpenDoneInv ==
    ASSUME MvccInv, NEW t \in Trxs, open_done(t)
    PROVE  MvccInv'
<1> USE DEF MvccInv
<1>1. /\ UNCHANGED trxvars /\ UNCHANGED purgevars /\ EndSnapshot(t)
      /\ m_creator' = m_creator /\ reuse' = reuse /\ before' = before
      /\ read_view' = [read_view EXCEPT ![t] = Snapshot(t)]
      /\ m_open' = [m_open EXCEPT ![t] = TRUE]
      /\ t \in Readers /\ t \in Snappers
      /\ late' \in SUBSET Trxs
  BY DEF open_done, Snappers, MvccTypeOK
<1>2. /\ read_view \in [Trxs -> Views] /\ m_open \in [Trxs -> BOOLEAN]
  BY DEF MvccTypeOK
<1>3. /\ spc[t] = "walk" /\ spc'[t] = "-"
      /\ \A u \in Trxs : u # t => spc'[u] = spc[u] /\ arg'[u] = arg[u]
      /\ TrxSysTypeOK'
      /\ Snapshot(t) \in Views /\ ViewOk(Snapshot(t))
      /\ MvccTypeOK' => \A u \in Snappers : SnapOk(u)'
  BY <1>1, EndFacts DEF Snappers
<1>4. MvccTypeOK'
  BY <1>1, <1>2, <1>3 DEF MvccTypeOK, purgevars
<1>5. ASSUME NEW u \in Trxs PROVE ThreadOk(u)'
  <2>1. ThreadOk(u) /\ tpc' = tpc /\ id' = id
    BY <1>1 DEF trxvars
  <2>2. CASE u = t
    BY <1>1, <1>2, <1>3, <2>1, <2>2 DEF ThreadOk
  <2>3. CASE u # t
    BY <1>1, <1>2, <1>3, <2>1, <2>3 DEF ThreadOk
  <2> QED
    BY <2>2, <2>3
<1>6. ASSUME NEW r \in Trxs PROVE BeforeOk(r)'
  <2>1. CASE r = t
    <3>1. \A u \in before[t] : Vis(Snapshot(t), u)
      BY <1>3 DEF BeforeOk
    <3>2. read_view'[t] = Snapshot(t)
      BY <1>1, <1>2
    <3>3. \A u \in before[t] : Vis(read_view[t], u)'
      BY <1>1, <3>1, <3>2 DEF Vis, trxvars
    <3> QED
      BY <1>1, <1>3, <2>1, <3>3 DEF BeforeOk, Committed, trxvars
  <2>2. CASE r # t
    <3>1. Forward /\ BeforeOk(r) /\ MvccTypeOK
      BY <1>1, TrxsSame
    <3> QED
      BY <1>1, <1>2, <1>3, <2>2, <3>1, BeforeKept
  <2> QED
    BY <2>1, <2>2
<1>7. /\ ViewOk(purge_view)' /\ ViewOk(building)'
  BY <1>1 DEF ViewOk, Vis, WithId, trxvars, purgevars
<1>8. ASSUME NEW r \in Trxs PROVE ViewOk(read_view[r])'
  <2>1. read_view'[r] \in {Snapshot(t), read_view[r]}
    BY <1>1, <1>2
  <2>2. ViewOk(read_view[r]) /\ ViewOk(Snapshot(t))
    BY <1>3
  <2> QED
    BY <1>1, <2>1, <2>2 DEF ViewOk, Vis, WithId, trxvars
<1> QED
  BY <1>1, <1>3, <1>4, <1>5, <1>6, <1>7, <1>8, TrxsSame DEF purgevars

LEMMA CloseInv ==
    ASSUME MvccInv, NEW t \in Trxs, close(t)
    PROVE  MvccInv'
<1> USE DEF MvccInv
<1>1. /\ UNCHANGED trxvars /\ UNCHANGED snapvars /\ UNCHANGED purgevars
      /\ reuse' = reuse /\ m_open[t]
      /\ m_open' = [m_open EXCEPT ![t] = FALSE]
      /\ m_creator' = [m_creator EXCEPT ![t] = 0]
      /\ before' = [before EXCEPT ![t] = {}]
      /\ \A r \in Trxs : read_view'[r] \in {read_view[r], ZeroView}
      /\ \A r \in Trxs : r # t => read_view'[r] = read_view[r]
      /\ read_view' \in [Trxs -> Views]
      /\ late' \in SUBSET Trxs
  BY DEF close, MvccTypeOK, ZeroView, Views
<1>2. /\ m_open \in [Trxs -> BOOLEAN] /\ m_creator \in [Trxs -> Nat]
      /\ before \in [Trxs -> SUBSET Trxs] /\ spc[t] = "-"
  BY <1>1 DEF MvccTypeOK, ThreadOk
<1>3. MvccTypeOK'
  BY <1>1, <1>2 DEF MvccTypeOK, TrxSysTypeOK, trxvars, snapvars, purgevars
<1>4. ASSUME NEW u \in Trxs PROVE ThreadOk(u)'
  BY <1>1, <1>2 DEF ThreadOk, trxvars, snapvars
<1>5. ASSUME NEW r \in Trxs PROVE BeforeOk(r)'
  <2>1. CASE r = t
    BY <1>1, <1>2, <2>1 DEF BeforeOk, Committed
  <2>2. CASE r # t
    <3>1. Forward /\ BeforeOk(r) /\ MvccTypeOK
      BY <1>1, TrxsSame
    <3> QED
      BY <1>1, <1>2, <2>2, <3>1, BeforeKept DEF snapvars
  <2> QED
    BY <2>1, <2>2
<1>6. ASSUME NEW u \in Snappers PROVE SnapOk(u)'
  BY <1>1, <1>3, SnapSame DEF snapvars
<1>7. /\ ViewOk(purge_view)' /\ ViewOk(building)'
  BY <1>1 DEF ViewOk, Vis, WithId, trxvars, purgevars
<1>8. ASSUME NEW r \in Trxs PROVE ViewOk(read_view[r])'
  <2>1. ViewOk(ZeroView)
    BY TrxFacts DEF ViewOk, Vis, ZeroView, WithId
  <2>2. ViewOk(read_view[r]) /\ read_view'[r] \in {read_view[r], ZeroView}
    BY <1>1
  <2> QED
    BY <1>1, <2>1, <2>2 DEF ViewOk, Vis, WithId, trxvars
<1> QED
  BY <1>1, <1>3, <1>4, <1>5, <1>6, <1>7, <1>8, TrxsSame DEF purgevars

-----------------------------------------------------------------------------
(* The purge coordinator. *)

\* append(): the older of two sound views is sound.
LEMMA AppendSound ==
    ASSUME MvccInv, NEW v \in Views, NEW w \in Views, ViewOk(v), ViewOk(w)
    PROVE  append(v, w) \in Views /\ ViewOk(append(v, w))
<1>1. PICK a : a = append(v, w)
  OBVIOUS
<1>2. /\ a \in Views
      /\ a.low_limit_no <= v.low_limit_no /\ a.low_limit_no <= w.low_limit_no
      /\ a.low_limit_no \in {v.low_limit_no, w.low_limit_no}
      /\ a.low_limit_id \in {v.low_limit_id, w.low_limit_id}
      /\ a.low_limit_id <= v.low_limit_id /\ a.low_limit_id <= w.low_limit_id
      /\ \A t \in Trxs : Vis(a, t) <=> Vis(v, t) /\ Vis(w, t)
  BY <1>1, AppendFacts, TrxFacts DEF Vis
<1>3. /\ a.low_limit_no \in Nat /\ a.low_limit_id \in Nat
      /\ v.low_limit_no \in Nat /\ v.low_limit_id \in Nat
      /\ w.low_limit_no \in Nat /\ w.low_limit_id \in Nat
  BY <1>2 DEF Views
<1>4. a.low_limit_no <= a.low_limit_id /\ a.low_limit_id <= m_max_trx_id
  BY <1>2, <1>3, TrxFacts DEF ViewOk
<1>5. \A t \in WithId : Vis(a, t) => tpc[t] = "committed"
  BY <1>2 DEF ViewOk, WithId
<1>6. \A t \in Trxs : tpc[t] # "committed" =>
        /\ a.low_limit_no <= no[t]
        /\ tpc[t] = "number" => a.low_limit_no <= number[t]
  BY <1>2, <1>3, TrxFacts DEF ViewOk
<1>7. \A t \in Trxs : no[t] < a.low_limit_no => Vis(a, t)
  <2>1. \A t \in Trxs : no[t] < a.low_limit_no =>
          no[t] < v.low_limit_no /\ no[t] < w.low_limit_no
    BY <1>2, <1>3, TrxFacts
  <2> QED
    BY <1>2, <2>1 DEF ViewOk
<1> QED
  BY <1>1, <1>2, <1>4, <1>5, <1>6, <1>7 DEF ViewOk

LEMMA CloneBeginInv ==
    ASSUME MvccInv, clone_begin
    PROVE  MvccInv'
<1> USE DEF MvccInv
<1>1. /\ UNCHANGED trxvars /\ UNCHANGED purgevars /\ UNCHANGED viewvars
      /\ before' = before /\ LoadVersion(PURGE) /\ PURGE \in Snappers
      /\ PURGE \notin Trxs
  BY TrxSysAssumption DEF clone_begin, Snappers, TrxSysAssumption
<1>2. MvccTypeOK'
  <2>1. TrxSysTypeOK'
    BY <1>1, LoadType
  <2> QED
    BY <1>1, <2>1 DEF MvccTypeOK, purgevars, viewvars
<1>3. /\ \A u \in Trxs : spc'[u] = spc[u] /\ arg'[u] = arg[u]
      /\ \A u \in Snappers : SnapOk(u)'
  BY <1>1, <1>2, LoadFacts DEF Snappers
<1>4. \A u \in Trxs : ThreadOk(u)'
  BY <1>1, <1>3 DEF ThreadOk, viewvars, trxvars
<1>5. \A r \in Trxs : BeforeOk(r)'
  BY <1>1, <1>3 DEF BeforeOk, Vis, Committed, Snapshot, viewvars, trxvars
<1>6. /\ ViewOk(purge_view)' /\ ViewOk(building)'
      /\ \A r \in Trxs : ViewOk(read_view[r])'
  BY <1>1 DEF ViewOk, Vis, WithId, trxvars, purgevars, viewvars
<1> QED
  BY <1>1, <1>2, <1>3, <1>4, <1>5, <1>6, TrxsSame DEF purgevars

LEMMA CloneSnapshotInv ==
    ASSUME MvccInv, clone_snapshot
    PROVE  MvccInv'
<1> USE DEF MvccInv
<1>1. /\ UNCHANGED trxvars /\ UNCHANGED viewvars /\ purge_view' = purge_view
      /\ purged' = purged /\ before' = before /\ EndSnapshot(PURGE)
      /\ building' = Snapshot(PURGE) /\ to_append' = Readers
      /\ PURGE \in Snappers /\ PURGE \notin Trxs
      /\ late_building' = late_building /\ late_purge' = late_purge
  BY TrxSysAssumption DEF clone_snapshot, Snappers, TrxSysAssumption
<1>2. /\ \A u \in Trxs : spc'[u] = spc[u] /\ arg'[u] = arg[u]
      /\ TrxSysTypeOK'
      /\ Snapshot(PURGE) \in Views /\ ViewOk(Snapshot(PURGE))
      /\ MvccTypeOK' => \A u \in Snappers : SnapOk(u)'
  BY <1>1, EndFacts DEF Snappers
<1>3. MvccTypeOK'
  BY <1>1, <1>2, MvccAssumption DEF MvccTypeOK, viewvars, MvccAssumption
<1>4. \A u \in Trxs : ThreadOk(u)'
  BY <1>1, <1>2 DEF ThreadOk, viewvars, trxvars
<1>5. \A r \in Trxs : BeforeOk(r)'
  BY <1>1, <1>2 DEF BeforeOk, Vis, Committed, Snapshot, viewvars, trxvars
<1>6. ViewOk(purge_view)' /\ \A r \in Trxs : ViewOk(read_view[r])'
  BY <1>1 DEF ViewOk, Vis, WithId, trxvars, viewvars
<1>7. ViewOk(building)'
  BY <1>1, <1>2 DEF ViewOk, Vis, WithId, trxvars
<1> QED
  BY <1>1, <1>2, <1>3, <1>4, <1>5, <1>6, <1>7, TrxsSame

LEMMA AppendInv ==
    ASSUME MvccInv, NEW t \in Trxs, append_to(t)
    PROVE  MvccInv'
<1> USE DEF MvccInv
<1> DEFINE v == IF m_open[t] THEN append(building, read_view[t]) ELSE building
<1>1. /\ UNCHANGED trxvars /\ UNCHANGED viewvars /\ UNCHANGED snapvars
      /\ purged' = purged /\ before' = before
      /\ purge_view' \in {v, purge_view} /\ building' \in {v, ZeroView}
      /\ to_append' \in SUBSET Trxs
      /\ late_building' \in SUBSET Trxs /\ late_purge' \in SUBSET Trxs
  BY DEF append_to, MvccTypeOK
<1>2. v \in Views /\ ViewOk(v)
  BY AppendSound DEF MvccTypeOK
<1>3. ZeroView \in Views /\ ViewOk(ZeroView)
  BY TrxFacts DEF ViewOk, Vis, ZeroView, WithId, Views
<1> HIDE DEF v
<1>4. MvccTypeOK'
  BY <1>1, <1>2, <1>3 DEF MvccTypeOK, TrxSysTypeOK, viewvars, trxvars, snapvars
<1>5. \A u \in Trxs : ThreadOk(u)'
  BY <1>1 DEF ThreadOk, viewvars, trxvars, snapvars
<1>6. \A r \in Trxs : BeforeOk(r)'
  BY <1>1 DEF BeforeOk, Vis, Committed, Snapshot, viewvars, trxvars, snapvars
<1>7. \A r \in Trxs : ViewOk(read_view[r])'
  BY <1>1 DEF ViewOk, Vis, WithId, trxvars, viewvars
<1>8. ViewOk(purge_view)'
  BY <1>1, <1>2 DEF ViewOk, Vis, WithId, trxvars
<1>9. ViewOk(building)'
  BY <1>1, <1>2, <1>3 DEF ViewOk, Vis, WithId, trxvars
<1>10. ASSUME NEW u \in Snappers PROVE SnapOk(u)'
  BY <1>1, <1>4, SnapSame DEF snapvars
<1> QED
  BY <1>1, <1>4, <1>5, <1>6, <1>7, <1>8, <1>9, <1>10, TrxsSame

LEMMA PurgeHistoryInv ==
    ASSUME MvccInv, NEW t \in Trxs, purge_history(t)
    PROVE  MvccInv'
<1> USE DEF MvccInv
<1>1. /\ UNCHANGED trxvars /\ UNCHANGED viewvars /\ UNCHANGED snapvars
      /\ purge_view' = purge_view /\ building' = building
      /\ to_append' = to_append /\ before' = before
      /\ purged' = purged \cup {t} /\ no[t] < purge_view.low_limit_no
      /\ late_building' = late_building /\ late_purge' = late_purge
  BY DEF purge_history
<1>2. tpc[t] = "committed"
  <2>1. no[t] \in Nat /\ purge_view.low_limit_no \in Nat
    BY DEF MvccTypeOK, TrxSysTypeOK, Views
  <2> QED
    BY <1>1, <2>1 DEF ViewOk
<1>3. PurgedAreCommitted'
  BY <1>1, <1>2 DEF PurgedAreCommitted, trxvars
<1>4. MvccTypeOK'
  BY <1>1 DEF MvccTypeOK, TrxSysTypeOK, viewvars, trxvars, snapvars
<1>5. \A u \in Trxs : ThreadOk(u)'
  BY <1>1 DEF ThreadOk, viewvars, trxvars, snapvars
<1>6. \A r \in Trxs : BeforeOk(r)'
  BY <1>1 DEF BeforeOk, Vis, Committed, Snapshot, viewvars, trxvars, snapvars
<1>7. /\ ViewOk(purge_view)' /\ ViewOk(building)'
      /\ \A r \in Trxs : ViewOk(read_view[r])'
  BY <1>1 DEF ViewOk, Vis, WithId, trxvars, viewvars
<1>8. ASSUME NEW u \in Snappers PROVE SnapOk(u)'
  BY <1>1, <1>4, SnapSame DEF snapvars
<1> QED
  BY <1>1, <1>3, <1>4, <1>5, <1>6, <1>7, <1>8, TrxsSame

-----------------------------------------------------------------------------
(* The invariant. *)

LEMMA MvccInitInv == MvccInit => MvccInv
<1> SUFFICES ASSUME MvccInit PROVE MvccInv
  OBVIOUS
<1> USE DEF MvccInit, TrxSysInit
<1>1. MvccTypeOK
  BY TrxSysAssumption
     DEF MvccTypeOK, TrxSysTypeOK, TrxPC, SnapPC, Args, NoArg, ZeroView, Views,
         TrxSysAssumption
<1>2. Counted
  <2>1. Gap = {} /\ WithId = {} /\ WithNo = {}
    BY DEF Gap, WithId, WithNo
  <2>2. Cardinality({}) = 0
    BY FS_EmptySet
  <2> QED
    BY <2>1, <2>2 DEF Counted
<1>3. \A t \in Trxs : TrxOk(t)
  BY DEF TrxOk
<1>4. UniqueIds
  BY DEF UniqueIds, WithId
<1>5. \A t \in Trxs : ThreadOk(t)
  BY DEF ThreadOk, Snappers
<1>6. \A s \in Snappers : SnapOk(s)
  BY DEF SnapOk, NoArg
<1>7. ViewOk(ZeroView)
  BY TrxSysAssumption DEF ViewOk, Vis, ZeroView, WithId, TrxSysAssumption
<1>8. \A r \in Trxs : BeforeOk(r)
  BY DEF BeforeOk, Committed, Snappers
<1> QED
  BY <1>1, <1>2, <1>3, <1>4, <1>5, <1>6, <1>7, <1>8
     DEF MvccInv, PurgedAreCommitted

LEMMA MvccStepInv == MvccInv /\ [MvccNext]_mvccvars => MvccInv'
<1> SUFFICES ASSUME MvccInv, [MvccNext]_mvccvars PROVE MvccInv'
  OBVIOUS
<1>1. ASSUME NEW t \in Trxs, TrxStep(t) PROVE MvccInv'
  BY <1>1, RegisterRwInv, SerialiseInv, CommitInv, OpenReuseInv, OpenReusedInv,
     OpenSnapshotInv, OpenDoneInv, CloseInv DEF TrxStep
<1>2. ASSUME NEW s \in Snappers, SnapshotStep(s) PROVE MvccInv'
  BY <1>2, CompareInv, CopyInv DEF SnapshotStep, snapshot_ids
<1>3. CASE PurgeStep
  BY <1>3, CloneBeginInv, CloneSnapshotInv, AppendInv, PurgeHistoryInv
     DEF PurgeStep
<1>4. CASE UNCHANGED mvccvars
  <2> USE DEF MvccInv
  <2>1. /\ UNCHANGED trxvars /\ UNCHANGED snapvars /\ UNCHANGED viewvars
        /\ UNCHANGED purgevars /\ before' = before
    BY <1>4 DEF mvccvars
  <2>2. MvccTypeOK'
    BY <2>1 DEF MvccTypeOK, TrxSysTypeOK, viewvars, trxvars, snapvars, purgevars
  <2>3. \A u \in Trxs : ThreadOk(u)'
    BY <2>1 DEF ThreadOk, viewvars, trxvars, snapvars
  <2>4. Forward
    BY <2>1, ForwardStutter
  <2>5. UNCHANGED <<snapvars, read_view, m_open, reuse, purgevars, before>>
    BY <2>1 DEF viewvars
  <2> QED
    BY <2>1, <2>2, <2>3, <2>4, <2>5, ViewsKept, TrxsSame
<1> QED
  BY <1>1, <1>2, <1>3, <1>4 DEF MvccNext

\* The counters of trx_sys count what the hash does not show yet, ids are
\* unique, and every view is sound: in every reachable state, for any number
\* of transactions, with autocommit transactions that reuse their views too.
THEOREM MvccInvariant == MvccSafety => []MvccInv
BY MvccInitInv, MvccStepInv, PTL DEF MvccSafety

\* changes_visible() as the invariant says it.
LEMMA SeesDef ==
    ASSUME MvccInv, NEW t \in Trxs
    PROVE  /\ \A r \in Trxs : changes_visible(read_view[r], id[t])
                                <=> Vis(read_view[r], t)
           /\ changes_visible(purge_view, id[t]) <=> Vis(purge_view, t)
<1>1. id[t] \in Nat
  BY TrxFacts
<1>2. purge_view \in Views /\ \A r \in Trxs : read_view[r] \in Views
  BY DEF MvccInv, MvccTypeOK
<1> QED
  BY <1>1, <1>2, VisibleDef DEF Vis

\* Only its own transaction has the id m_creator_trx_id.
LEMMA CreatorIsOwn ==
    ASSUME MvccInv, NEW r \in Trxs, NEW t \in Trxs, r # t, HasId(t)
    PROVE  id[t] # m_creator[r]
<1>1. /\ TrxOk(t) /\ TrxOk(r) /\ t \in WithId /\ m_creator[r] \in {0, id[r]}
  BY DEF MvccInv, ThreadOk, WithId, HasId
<1>2. id[t] # 0
  BY <1>1, TrxFacts DEF TrxOk, WithId
<1>3. id[r] = id[t] => r \in WithId
  BY <1>1, <1>2 DEF TrxOk, WithId
<1> QED
  BY <1>1, <1>2, <1>3 DEF MvccInv, UniqueIds

\* register_rw() and snapshot_ids(): no view sees a transaction other than its
\* own before it has committed.
THEOREM MvccNoDirtyRead == MvccSafety => []NoDirtyRead
<1>1. MvccInv => NoDirtyRead
  <2> SUFFICES ASSUME MvccInv, NEW r \in Trxs, NEW t \in Trxs, m_open[r],
                      HasId(t), r # t, Sees(r, t)
               PROVE  tpc[t] = "committed"
    BY DEF NoDirtyRead
  <2>1. Vis(read_view[r], t)
    BY SeesDef, CreatorIsOwn DEF Sees
  <2>2. t \in WithId /\ ViewOk(read_view[r])
    BY DEF HasId, WithId, MvccInv
  <2> QED
    BY <2>1, <2>2 DEF ViewOk
<1> QED
  BY <1>1, MvccInvariant, PTL

\* ReadView::open(): a view sees all that had committed when open() began,
\* whether the snapshot is taken or reused.
THEOREM MvccSeesAllCommitted == MvccSafety => []SeesAllCommitted
<1>1. MvccInv => SeesAllCommitted
  <2> SUFFICES ASSUME MvccInv, NEW r \in Trxs, m_open[r], NEW t \in before[r]
               PROVE  Sees(r, t)
    BY DEF SeesAllCommitted
  <2>1. t \in Trxs /\ Vis(read_view[r], t)
    BY DEF MvccInv, BeforeOk, Committed
  <2> QED
    BY <2>1, SeesDef DEF Sees
<1> QED
  BY <1>1, MvccInvariant, PTL

\* trx_set_rw_mode(): a transaction sees what it writes itself.
THEOREM MvccSeesOwnChanges == MvccSafety => []SeesOwnChanges
<1>1. MvccInv => SeesOwnChanges
  BY DEF MvccInv, ThreadOk, SeesOwnChanges, Sees
<1> QED
  BY <1>1, MvccInvariant, PTL

\* trx_purge_fetch_next_rec(): a transaction is purged only after it has left
\* the hash.
THEOREM MvccPurgedAreCommitted == MvccSafety => []PurgedAreCommitted
<1>1. MvccInv => PurgedAreCommitted
  BY DEF MvccInv
<1> QED
  BY <1>1, MvccInvariant, PTL

-----------------------------------------------------------------------------
(* Purge and the age of views.                                              *)

\* Views without active transactions.
LEMMA EmptyStep ==
    ASSUME MvccInv, EmptyInv, [MvccNext]_mvccvars
    PROVE  EmptyInv'
<1> USE DEF MvccInv
<1>1. /\ spc \in [Snappers -> SnapPC] /\ arg \in [Snappers -> Args]
      /\ read_view \in [Trxs -> Views] /\ reuse \in [Trxs -> BOOLEAN]
      /\ Snappers = Trxs \cup {PURGE} /\ PURGE \notin Trxs
  BY TrxSysAssumption DEF MvccTypeOK, TrxSysTypeOK, Snappers, TrxSysAssumption
<1>2. ASSUME NEW u \in Snappers, spc'[u] = "walk" => spc[u] = "walk",
             spc'[u] = "walk" => arg'[u] = arg[u]
      PROVE  spc'[u] = "walk" => EmptyOk(Snapshot(u))'
  BY <1>2 DEF EmptyInv, EmptyOk, Snapshot
<1>3. ASSUME NEW r \in Trxs, read_view'[r] = read_view[r],
             reuse'[r] => reuse[r] \/ read_view[r].ids = {}
      PROVE  EmptyOk(read_view[r])' /\ (reuse'[r] => read_view'[r].ids = {})
  BY <1>3 DEF EmptyInv, EmptyOk
<1>4. ASSUME UNCHANGED <<snapvars, read_view, reuse>> PROVE EmptyInv'
  <2>1. spc' = spc /\ arg' = arg /\ read_view' = read_view /\ reuse' = reuse
    BY <1>4 DEF snapvars
  <2> QED
    BY <1>2, <1>3, <2>1 DEF EmptyInv
<1>5. ASSUME NEW t \in Trxs, TrxStep(t) PROVE EmptyInv'
  <2>1. CASE RegisterRw(t) \/ Serialise(t) \/ CommitInMemory(t)
    BY <1>4, <2>1 DEF RegisterRw, Serialise, CommitInMemory, viewvars
  <2>2. CASE open_reuse(t) \/ open_reused(t)
    <3>1. /\ spc' = spc /\ arg' = arg /\ read_view' = read_view
          /\ \A r \in Trxs : reuse'[r] => reuse[r] \/ read_view[r].ids = {}
      BY <1>1, <2>2 DEF open_reuse, open_reused, MayReuse, snapvars
    <3> QED
      BY <1>2, <1>3, <3>1 DEF EmptyInv
  <2>3. CASE open_snapshot(t)
    <3>1. /\ read_view' = read_view /\ reuse' = reuse
          /\ \A u \in Snappers : \/ spc'[u] = spc[u] /\ arg'[u] = arg[u]
                                 \/ spc'[u] = "compare"
      BY <1>1, <2>3 DEF open_snapshot, LoadVersion
    <3> QED
      BY <1>2, <1>3, <3>1 DEF EmptyInv
  <2>4. CASE open_done(t)
    <3>1. /\ read_view' = [read_view EXCEPT ![t] = Snapshot(t)]
          /\ reuse' = reuse /\ spc[t] = "walk" /\ t \in Snappers
          /\ \A u \in Snappers : \/ spc'[u] = spc[u] /\ arg'[u] = arg[u]
                                 \/ spc'[u] = "-"
      BY <1>1, <2>4 DEF open_done, EndSnapshot, WalkDone
    <3>2. /\ read_view'[t] = Snapshot(t) /\ ~reuse'[t]
          /\ \A r \in Trxs : r # t => read_view'[r] = read_view[r]
      BY <1>1, <3>1 DEF ThreadOk
    <3>3. EmptyOk(read_view[t])'
      BY <3>1, <3>2 DEF EmptyInv, EmptyOk
    <3> QED
      BY <1>2, <1>3, <3>1, <3>2, <3>3 DEF EmptyInv
  <2>5. CASE close(t)
    <3>1. /\ spc' = spc /\ arg' = arg /\ reuse' = reuse /\ m_open[t]
          /\ read_view'[t] \in {read_view[t], ZeroView}
          /\ \A r \in Trxs : r # t => read_view'[r] = read_view[r]
      BY <1>1, <2>5 DEF close, snapvars
    <3>2. EmptyOk(read_view[t])' /\ ~reuse'[t]
      BY <3>1 DEF EmptyInv, EmptyOk, ZeroView, ThreadOk
    <3> QED
      BY <1>2, <1>3, <3>1, <3>2 DEF EmptyInv
  <2> QED
    BY <1>5, <2>1, <2>2, <2>3, <2>4, <2>5 DEF TrxStep
<1>6. ASSUME NEW s \in Snappers, SnapshotStep(s) PROVE EmptyInv'
  <2>1. read_view' = read_view /\ reuse' = reuse
    BY <1>6 DEF SnapshotStep, viewvars
  <2>2. \A u \in Snappers : u # s => spc'[u] = spc[u] /\ arg'[u] = arg[u]
    BY <1>1, <1>6 DEF SnapshotStep, snapshot_ids, CompareMax, CopyOneId
  <2>3. spc'[s] = "walk" => EmptyOk(Snapshot(s))'
    <3>1. CASE CompareMax(s)
      <4>1. spc'[s] = "walk" => arg'[s].m_no = arg'[s].m_id
        BY <1>1, <3>1 DEF CompareMax, Args
      <4> QED
        BY <4>1 DEF EmptyOk, Snapshot
    <3>2. ASSUME NEW t \in Trxs, CopyOneId(s, t)
          PROVE  EmptyOk(Snapshot(s))'
      <4>1. CASE id[t] < arg[s].m_id
        <5>1. arg'[s].ids = arg[s].ids \cup {id[t]}
          BY <1>1, <3>2, <4>1 DEF CopyOneId, Args
        <5> QED
          BY <5>1 DEF EmptyOk, Snapshot
      <4>2. CASE ~(id[t] < arg[s].m_id)
        BY <3>2, <4>2 DEF CopyOneId, EmptyInv, EmptyOk, Snapshot
      <4> QED
        BY <4>1, <4>2
    <3> QED
      BY <1>6, <3>1, <3>2 DEF SnapshotStep, snapshot_ids
  <2> QED
    BY <1>2, <1>3, <2>1, <2>2, <2>3 DEF EmptyInv
<1>7. CASE clone_begin \/ clone_snapshot
  <2>1. /\ read_view' = read_view /\ reuse' = reuse
        /\ \A u \in Snappers : \/ spc'[u] = spc[u] /\ arg'[u] = arg[u]
                               \/ spc'[u] \in {"compare", "-"}
    BY <1>1, <1>7 DEF clone_begin, clone_snapshot, LoadVersion, EndSnapshot,
                      viewvars
  <2> QED
    BY <1>2, <1>3, <2>1 DEF EmptyInv
<1>8. ASSUME NEW t \in Trxs, append_to(t) \/ purge_history(t) PROVE EmptyInv'
  BY <1>4, <1>8 DEF append_to, purge_history, viewvars
<1>9. CASE UNCHANGED mvccvars
  BY <1>4, <1>9 DEF mvccvars, viewvars
<1> QED
  BY <1>5, <1>6, <1>7, <1>8, <1>9 DEF MvccNext, PurgeStep

\* Gone is a sound view that sees just what has been purged.
LEMMA GoneFacts ==
    MvccInv => Gone \in Views /\ ViewOk(Gone) /\ GoneSees
<1> SUFFICES ASSUME MvccInv PROVE Gone \in Views /\ ViewOk(Gone) /\ GoneSees
  OBVIOUS
<1>1. PICK g : g = Gone
  OBVIOUS
<1>2. /\ g.low_limit_id = m_max_trx_id /\ g.low_limit_no = 0
      /\ g.ids = {id[t] : t \in WithId \ purged}
  BY <1>1 DEF Gone
<1>3. g \in Views
  BY <1>1, TrxFacts DEF Gone, Views, WithId
<1>4. \A t \in WithId : Vis(g, t) <=> t \in purged
  BY <1>2, TrxFacts DEF Vis, UniqueIds, MvccInv, WithId
<1>5. \A t \in purged : tpc[t] = "committed"
  BY DEF MvccInv, PurgedAreCommitted
<1>6. ViewOk(g)
  BY <1>2, <1>4, <1>5, TrxFacts DEF ViewOk
<1> QED
  BY <1>1, <1>3, <1>4, <1>6 DEF GoneSees

\* What was behind it is so as long as nothing is purged.
LEMMA GoneSame ==
    ASSUME MvccInv, MvccInv', Forward, purged' = purged, NEW g, g = Gone
    PROVE  /\ \A t \in WithId' : Vis(Gone, t)' => Vis(g, t)'
           /\ Gone'.low_limit_no = g.low_limit_no
<1>1. \A t \in WithId' : Vis(Gone, t)' => t \in purged'
  <2>1. MvccInv' => GoneSees'
    BY GoneFacts, PTL
  <2> QED
    BY <2>1 DEF GoneSees
<1>2. \A t \in purged : t \in Trxs /\ tpc[t] = "committed"
  BY DEF MvccInv, MvccTypeOK, PurgedAreCommitted
<1>3. \A t \in purged : Vis(g, t)'
  <2> SUFFICES ASSUME NEW t \in purged PROVE Vis(g, t)'
    OBVIOUS
  <2>1. Vis(g, t)
    BY <1>2, GoneFacts DEF GoneSees, WithId
  <2>2. id'[t] = id[t]
    BY <1>2 DEF Forward, Advance
  <2> QED
    BY <2>1, <2>2 DEF Vis
<1>4. Gone'.low_limit_no = 0 /\ g.low_limit_no = 0
  BY DEF Gone
<1> QED
  BY <1>1, <1>3, <1>4

\* The relation is transitive, and the appended view is older than both.
LEMMA NotOlderTrans ==
    ASSUME NEW u \in Views, NEW v \in Views, NEW w \in Views,
           NotOlder(u, v), NotOlder(v, w)
    PROVE  NotOlder(u, w)
BY DEF NotOlder, Views

LEMMA AppendOlder ==
    ASSUME MvccInv, NEW v \in Views, NEW w \in Views
    PROVE  /\ append(v, w) \in Views
           /\ NotOlder(append(v, w), v) /\ NotOlder(append(v, w), w)
           /\ \A u \in Views : NotOlder(u, v) /\ NotOlder(u, w)
                                 => NotOlder(u, append(v, w))
<1>1. PICK a : a = append(v, w)
  OBVIOUS
<1>2. /\ a \in Views
      /\ a.low_limit_no <= v.low_limit_no /\ a.low_limit_no <= w.low_limit_no
      /\ a.low_limit_no \in {v.low_limit_no, w.low_limit_no}
      /\ \A t \in Trxs : Vis(a, t) <=> Vis(v, t) /\ Vis(w, t)
  BY <1>1, AppendFacts, TrxFacts DEF Vis
<1> QED
  BY <1>1, <1>2 DEF NotOlder, WithId

\* A step of snapshot_ids() keeps the view no older than any sound one.
LEMMA WalkNotOlder ==
    ASSUME MvccInv, NEW s \in Snappers, SnapshotStep(s), NEW v \in Views,
           ViewOk(v), spc[s] = "walk" => NotOlder(v, Snapshot(s)),
           spc'[s] = "walk"
    PROVE  NotOlder(v, Snapshot(s)')
<1> USE DEF MvccInv
<1>1. /\ arg \in [Snappers -> Args] /\ arg[s] \in Args
      /\ v.low_limit_no \in Nat /\ v.low_limit_id \in Nat
  BY DEF MvccTypeOK, TrxSysTypeOK, Views
<1>2. CASE CompareMax(s)
  <2>1. arg[s].ids = {} /\ spc[s] = "compare"
    BY <1>2 DEF SnapOk, CompareMax
  <2>2. /\ arg'[s].m_id = m_max_trx_id
        /\ arg'[s].m_no = m_max_trx_id /\ arg'[s].ids = {}
    BY <1>1, <1>2, <2>1 DEF CompareMax, Args
  <2>3. Snapshot(s)' = [low_limit_id |-> m_max_trx_id, ids |-> {},
                        low_limit_no |-> m_max_trx_id]
    BY <2>2 DEF Snapshot
  <2> QED
    BY <1>1, <2>3, TrxFacts DEF NotOlder, ViewOk, Vis, WithId
<1>3. ASSUME NEW t \in Trxs, CopyOneId(s, t)
      PROVE  NotOlder(v, Snapshot(s)')
  <2>1. spc[s] = "walk" /\ t \in rw_trx_hash /\ NotOlder(v, Snapshot(s))
    BY <1>3 DEF CopyOneId
  <2>2. t \in WithId /\ tpc[t] # "committed"
    <3>1. TrxOk(t)
      OBVIOUS
    <3> QED
      BY <2>1, <3>1 DEF TrxOk, WithId
  <2>3. CASE ~(id[t] < arg[s].m_id)
    <3>1. arg' = arg
      BY <1>3, <2>3 DEF CopyOneId
    <3> QED
      BY <2>1, <3>1 DEF Snapshot
  <2>4. CASE id[t] < arg[s].m_id
    <3>1. arg' = [arg EXCEPT ![s] =
                    [arg[s] EXCEPT !.ids = arg[s].ids \cup {id[t]},
                                   !.m_no = Smaller(arg[s].m_no, no[t])]]
      BY <1>1, <1>3, <2>4 DEF CopyOneId, Args
    <3>2. /\ Snapshot(s)'.low_limit_id = arg[s].m_id
          /\ Snapshot(s)'.ids = arg[s].ids \cup {id[t]}
          /\ Snapshot(s)'.low_limit_no \in {arg[s].m_no, no[t]}
          /\ Snapshot(s).low_limit_id = arg[s].m_id
          /\ Snapshot(s).ids = arg[s].ids
          /\ Snapshot(s).low_limit_no = arg[s].m_no
      BY <1>1, <3>1 DEF Snapshot, Smaller, Args
    <3>3. v.low_limit_no <= no[t]
      BY <2>2 DEF ViewOk, WithId
    <3>4. ASSUME NEW u \in WithId, Vis(v, u) PROVE Vis(Snapshot(s)', u)
      <4>1. tpc[u] = "committed" /\ Vis(Snapshot(s), u)
        BY <2>1, <3>4 DEF ViewOk, NotOlder
      <4>2. id[u] # id[t]
        BY <2>2, <4>1 DEF UniqueIds
      <4> QED
        BY <3>2, <4>1, <4>2 DEF Vis
    <3> QED
      BY <2>1, <3>2, <3>3, <3>4 DEF NotOlder
  <2> QED
    BY <2>3, <2>4
<1> QED
  BY <1>2, <1>3 DEF SnapshotStep, snapshot_ids

\* Where the view and the snapshot of s are not touched.
LEMMA BehindSame ==
    ASSUME MvccInv, Forward, NEW v \in Views, ViewOk(v), NEW s \in Snappers,
           Behind(v, s), spc'[s] = spc[s], arg'[s] = arg[s],
           s \in Trxs => m_open'[s] = m_open[s] /\ read_view'[s] = read_view[s],
           s \in late => s \in late'
    PROVE  Behind(v, s)'
<1>1. \A w \in Views : NotOlder(v, w) => NotOlder(v, w)'
  BY NotOlderKept DEF MvccInv
<1>2. s \in Trxs \ late' /\ m_open'[s] => NotOlder(v, read_view[s])'
  <2> SUFFICES ASSUME s \in Trxs \ late, m_open[s]
               PROVE  NotOlder(v, read_view[s])'
    OBVIOUS
  <2>1. read_view[s] \in Views /\ NotOlder(v, read_view[s])
    BY DEF Behind, MvccInv, MvccTypeOK
  <2> QED
    BY <1>1, <2>1 DEF NotOlder, Vis
<1>3. spc'[s] = "walk" => NotOlder(v, Snapshot(s))'
  <2> SUFFICES ASSUME spc[s] = "walk" PROVE NotOlder(v, Snapshot(s))'
    OBVIOUS
  <2>1. Snapshot(s) \in Views /\ NotOlder(v, Snapshot(s))
    BY DEF Behind, MvccInv, MvccTypeOK, TrxSysTypeOK, Snapshot, Args, Views
  <2>2. Snapshot(s)' = Snapshot(s)
    BY DEF Snapshot
  <2> QED
    BY <1>1, <2>1, <2>2 DEF NotOlder, Vis
<1> QED
  BY <1>2, <1>3 DEF Behind

\* No step makes an open view, or one that is being taken, older than a sound
\* view it was no older than.
LEMMA BehindStep ==
    ASSUME MvccInv, EmptyInv, [MvccNext]_mvccvars, NEW v \in Views,
           ViewOk(v), NEW s \in Snappers, Behind(v, s)
    PROVE  Behind(v, s)'
<1> USE DEF MvccInv
<1>1. /\ spc \in [Snappers -> SnapPC] /\ arg \in [Snappers -> Args]
      /\ m_open \in [Trxs -> BOOLEAN] /\ read_view \in [Trxs -> Views]
      /\ PURGE \notin Trxs
  BY TrxSysAssumption DEF MvccTypeOK, TrxSysTypeOK, TrxSysAssumption
<1>2. ASSUME NEW t \in Trxs, TrxStep(t) PROVE Behind(v, s)'
  <2>1. CASE RegisterRw(t) \/ Serialise(t) \/ CommitInMemory(t)
    <3>1. /\ register_rw(t) \/ trx_serialise(t) \/ deregister_rw(t)
          /\ spc' = spc /\ arg' = arg /\ m_open' = m_open
          /\ read_view' = read_view /\ late' = late
      BY <2>1 DEF RegisterRw, Serialise, CommitInMemory, snapvars, viewvars
    <3>2. Forward
      BY <3>1, ForwardTrx
    <3> QED
      BY <3>1, <3>2, BehindSame
  <2>2. CASE open_reuse(t)
    <3>1. /\ UNCHANGED trxvars /\ spc' = spc /\ arg' = arg
          /\ m_open' = m_open /\ read_view' = read_view /\ late' = late
      BY <2>2 DEF open_reuse, snapvars
    <3>2. Forward
      BY <3>1, TrxsSame
    <3> QED
      BY <3>1, <3>2, BehindSame
  <2>6. CASE open_reused(t)
    <3>1. /\ m_open' = [m_open EXCEPT ![t] = TRUE] /\ UNCHANGED trxvars
          /\ read_view' = read_view /\ spc' = spc /\ arg' = arg /\ reuse[t]
          /\ late \subseteq late'
          /\ t \notin late' => read_view[t].low_limit_id = m_max_trx_id
      BY <2>6 DEF open_reused, snapvars
    <3>2. CASE s = t
      <4>1. spc'[t] # "walk"
        BY <3>1 DEF ThreadOk
      <4>2. ASSUME t \notin late' PROVE NotOlder(v, read_view[t])
        <5>1. /\ read_view[t].low_limit_id = m_max_trx_id
              /\ read_view[t].ids = {}
              /\ read_view[t].low_limit_no = m_max_trx_id
          BY <3>1, <4>2 DEF EmptyInv, EmptyOk
        <5>2. \A u \in WithId : Vis(read_view[t], u)
          BY <5>1, TrxFacts DEF Vis, WithId
        <5>3. v.low_limit_no <= m_max_trx_id
          BY TrxFacts DEF ViewOk, Views
        <5> QED
          BY <5>1, <5>2, <5>3 DEF NotOlder
      <4>3. t \notin late' => NotOlder(v, read_view[t])'
        BY <3>1, <4>2 DEF NotOlder, Vis, WithId, trxvars
      <4> QED
        BY <3>2, <4>1, <4>3 DEF Behind
    <3>3. CASE s # t
      <4>1. Forward
        BY <3>1, TrxsSame
      <4> QED
        BY <1>1, <3>1, <3>3, <4>1, BehindSame
    <3> QED
      BY <3>2, <3>3
  <2>3. CASE open_snapshot(t)
    <3>1. /\ m_open' = m_open /\ read_view' = read_view /\ UNCHANGED trxvars
          /\ spc' = [spc EXCEPT ![t] = "compare"] /\ ~m_open[t]
          /\ \A u \in Snappers : u # t => arg'[u] = arg[u]
          /\ late' = late
      BY <1>1, <2>3 DEF open_snapshot, LoadVersion
    <3>2. CASE s = t
      BY <1>1, <3>1, <3>2 DEF Behind
    <3>3. CASE s # t
      <4>1. Forward
        BY <3>1, TrxsSame
      <4> QED
        BY <1>1, <3>1, <3>3, <4>1, BehindSame
    <3> QED
      BY <3>2, <3>3
  <2>4. CASE open_done(t)
    <3>1. /\ m_open' = [m_open EXCEPT ![t] = TRUE] /\ UNCHANGED trxvars
          /\ read_view' = [read_view EXCEPT ![t] = Snapshot(t)]
          /\ spc' = [spc EXCEPT ![t] = "-"] /\ spc[t] = "walk"
          /\ arg' = [arg EXCEPT ![t] = NoArg] /\ late' = late
      BY <2>4 DEF open_done, EndSnapshot, WalkDone
    <3>2. CASE s = t
      <4>1. NotOlder(v, Snapshot(t)) /\ read_view'[t] = Snapshot(t)
            /\ spc'[t] = "-"
        BY <1>1, <3>1, <3>2 DEF Behind
      <4>2. NotOlder(v, read_view[t])'
        BY <3>1, <4>1 DEF NotOlder, Vis, WithId, trxvars
      <4> QED
        BY <3>2, <4>1, <4>2 DEF Behind
    <3>3. CASE s # t
      <4>1. Forward
        BY <3>1, TrxsSame
      <4> QED
        BY <1>1, <3>1, <3>3, <4>1, BehindSame
    <3> QED
      BY <3>2, <3>3
  <2>5. CASE close(t)
    <3>1. /\ m_open' = [m_open EXCEPT ![t] = FALSE] /\ UNCHANGED trxvars
          /\ \A u \in Trxs : u # t => read_view'[u] = read_view[u]
          /\ spc' = spc /\ arg' = arg /\ m_open[t] /\ late' = late \ {t}
      BY <1>1, <2>5 DEF close, snapvars
    <3>2. CASE s = t
      <4>1. spc[t] = "-"
        BY <3>1 DEF ThreadOk
      <4> QED
        BY <1>1, <3>1, <3>2, <4>1 DEF Behind
    <3>3. CASE s # t
      <4>1. Forward
        BY <3>1, TrxsSame
      <4> QED
        BY <1>1, <3>1, <3>3, <4>1, BehindSame
    <3> QED
      BY <3>2, <3>3
  <2> QED
    BY <1>2, <2>1, <2>2, <2>3, <2>4, <2>5, <2>6 DEF TrxStep
<1>3. ASSUME NEW u \in Snappers, SnapshotStep(u) PROVE Behind(v, s)'
  <2>1. /\ UNCHANGED trxvars /\ m_open' = m_open /\ read_view' = read_view
        /\ \A w \in Snappers : w # u => spc'[w] = spc[w] /\ arg'[w] = arg[w]
        /\ spc[u] # "-" /\ late' = late
    BY <1>1, <1>3 DEF SnapshotStep, snapshot_ids, CompareMax, CopyOneId,
                      viewvars
  <2>2. CASE s = u
    <3>1. spc'[s] = "walk" => NotOlder(v, Snapshot(s)')
      BY <1>3, <2>2, WalkNotOlder DEF Behind
    <3>2. spc'[s] = "walk" => NotOlder(v, Snapshot(s))'
      BY <2>1, <3>1 DEF NotOlder, Vis, WithId, trxvars
    <3>3. s \in Trxs => ~m_open[s]
      BY <2>1, <2>2 DEF ThreadOk
    <3> QED
      BY <2>1, <3>2, <3>3 DEF Behind
  <2>3. CASE s # u
    <3>1. Forward
      BY <2>1, TrxsSame
    <3> QED
      BY <2>1, <2>3, <3>1, BehindSame
  <2> QED
    BY <2>2, <2>3
<1>4. CASE clone_begin \/ clone_snapshot
  <2>1. /\ UNCHANGED trxvars /\ m_open' = m_open /\ read_view' = read_view
        /\ \A w \in Snappers : w # PURGE => /\ spc'[w] = spc[w]
                                            /\ arg'[w] = arg[w]
        /\ spc'[PURGE] \in {"compare", "-"} /\ late' = late
    BY <1>1, <1>4 DEF clone_begin, clone_snapshot, LoadVersion, EndSnapshot,
                      viewvars, Snappers
  <2>2. CASE s = PURGE
    BY <1>1, <2>1, <2>2 DEF Behind
  <2>3. CASE s # PURGE
    <3>1. Forward
      BY <2>1, TrxsSame
    <3> QED
      BY <2>1, <2>3, <3>1, BehindSame
  <2> QED
    BY <2>2, <2>3
<1>5. ASSUME NEW t \in Trxs, append_to(t) \/ purge_history(t)
      PROVE  Behind(v, s)'
  <2>1. /\ UNCHANGED trxvars /\ m_open' = m_open /\ read_view' = read_view
        /\ spc' = spc /\ arg' = arg /\ late' = late
    BY <1>5 DEF append_to, purge_history, viewvars, snapvars
  <2>2. Forward
    BY <2>1, TrxsSame
  <2> QED
    BY <2>1, <2>2, BehindSame
<1>6. CASE UNCHANGED mvccvars
  <2>1. /\ UNCHANGED trxvars /\ m_open' = m_open /\ read_view' = read_view
        /\ spc' = spc /\ arg' = arg /\ late' = late
    BY <1>6 DEF mvccvars, viewvars, snapvars
  <2>2. Forward
    BY <2>1, TrxsSame
  <2> QED
    BY <2>1, <2>2, BehindSame
<1> QED
  BY <1>2, <1>3, <1>4, <1>5, <1>6 DEF MvccNext, PurgeStep

LEMMA ForwardStep ==
    ASSUME MvccInv, [MvccNext]_mvccvars
    PROVE  Forward
<1>1. ASSUME NEW t \in Trxs, TrxStep(t)
      PROVE  \/ register_rw(t) \/ trx_serialise(t) \/ deregister_rw(t)
             \/ UNCHANGED trxvars
  BY <1>1 DEF TrxStep, RegisterRw, Serialise, CommitInMemory, open_reuse,
              open_reused, open_snapshot, open_done, close
<1>2. ASSUME ~(\E t \in Trxs : TrxStep(t)) PROVE UNCHANGED trxvars
  BY <1>2 DEF MvccNext, SnapshotStep, PurgeStep, clone_begin, clone_snapshot,
              append_to, purge_history, mvccvars
<1> QED
  BY <1>1, <1>2, ForwardTrx, ForwardStutter DEF MvccInv

\* Where nothing is appended or purged, what was behind purge's views still is.
LEMMA PurgeKept ==
    ASSUME MvccInv, PurgeInv, [MvccNext]_mvccvars,
           purge_view' = purge_view, purged' = purged
    PROVE  /\ \A s \in Snappers : Behind(purge_view, s)' /\ Behind(Gone, s)'
           /\ late_purge = {} => NotOlder(Gone, purge_view)'
<1>1. PICK p : p = purge_view
  OBVIOUS
<1>2. PICK g : g = Gone
  OBVIOUS
<1>3. /\ p \in Views /\ ViewOk(p) /\ g \in Views /\ ViewOk(g)
      /\ Forward /\ EmptyInv
  BY <1>1, <1>2, GoneFacts, ForwardStep DEF MvccInv, MvccTypeOK, PurgeInv
<1>4. /\ \A t \in WithId' : Vis(Gone, t)' => Vis(g, t)'
      /\ Gone'.low_limit_no = g.low_limit_no
  BY <1>2, <1>3, MvccStepInv, GoneSame
<1>5. ASSUME NEW s \in Snappers PROVE Behind(purge_view, s)' /\ Behind(Gone, s)'
  <2>1. Behind(p, s) /\ Behind(g, s)
    BY <1>1, <1>2 DEF PurgeInv
  <2>2. Behind(p, s)' /\ Behind(g, s)'
    BY <1>3, <2>1, BehindStep
  <2>3. Behind(purge_view, s)'
    BY <1>1, <2>2 DEF Behind, NotOlder, Vis
  <2>4. Behind(Gone, s)'
    BY <1>4, <2>2 DEF Behind, NotOlder
  <2> QED
    BY <2>3, <2>4
<1>6. ASSUME late_purge = {} PROVE NotOlder(Gone, purge_view)'
  <2>1. NotOlder(g, p)'
    BY <1>1, <1>2, <1>3, <1>6, NotOlderKept DEF PurgeInv, MvccInv
  <2>2. NotOlder(Gone, p)'
    BY <1>4, <2>1 DEF NotOlder
  <2> QED
    BY <1>1, <2>2 DEF NotOlder, Vis
<1> QED
  BY <1>5, <1>6

\* Steps that do not touch what purge has built.
LEMMA PurgeSame ==
    ASSUME MvccInv, PurgeInv, [MvccNext]_mvccvars, UNCHANGED purgevars,
           to_append # {} => spc'[PURGE] = "-"
    PROVE  PurgeInv'
<1>1. /\ purge_view' = purge_view /\ building' = building
      /\ to_append' = to_append /\ purged' = purged
      /\ late_purge' = late_purge /\ late_building' = late_building
  BY DEF purgevars
<1>2. PICK p : p = purge_view
  OBVIOUS
<1>3. PICK b : b = building
  OBVIOUS
<1>4. PICK g : g = Gone
  OBVIOUS
<1>5. /\ p \in Views /\ b \in Views /\ g \in Views /\ ViewOk(p) /\ ViewOk(b)
      /\ ViewOk(g) /\ Trxs \subseteq Snappers /\ Forward /\ EmptyInv
  BY <1>2, <1>3, <1>4, GoneFacts, ForwardStep
     DEF MvccInv, MvccTypeOK, Snappers, PurgeInv
<1>6. /\ \A t \in WithId' : Vis(Gone, t)' => Vis(g, t)'
      /\ Gone'.low_limit_no = g.low_limit_no
  BY <1>1, <1>4, <1>5, MvccStepInv, GoneSame
<1>7. ASSUME to_append # {}, NEW s \in Trxs \ to_append
      PROVE  Behind(building, s)'
  <2>1. Behind(b, s)
    BY <1>3, <1>7 DEF PurgeInv
  <2>2. Behind(b, s)'
    BY <1>5, <1>7, <2>1, BehindStep
  <2> QED
    BY <1>1, <1>3, <2>2 DEF Behind, NotOlder, Vis
<1>8. ASSUME to_append # {}, late_building = {}
      PROVE  NotOlder(purge_view, building)' /\ NotOlder(Gone, building)'
  <2>1. NotOlder(p, b) /\ NotOlder(g, b)
    BY <1>2, <1>3, <1>4, <1>8 DEF PurgeInv
  <2>2. NotOlder(p, b)' /\ NotOlder(g, b)'
    BY <1>5, <2>1, NotOlderKept DEF MvccInv
  <2>3. NotOlder(Gone, b)'
    BY <1>6, <2>2 DEF NotOlder
  <2> QED
    BY <1>1, <1>2, <1>3, <2>2, <2>3 DEF NotOlder, Vis
<1>9. EmptyInv'
  BY <1>5, EmptyStep
<1> QED
  BY <1>1, <1>7, <1>8, <1>9, PurgeKept DEF PurgeInv

LEMMA PurgeInitInv == MvccInit => PurgeInv
<1> SUFFICES ASSUME MvccInit PROVE PurgeInv
  OBVIOUS
<1>1. ASSUME NEW s \in Snappers PROVE Behind(purge_view, s) /\ Behind(Gone, s)
  BY <1>1 DEF MvccInit, TrxSysInit, Behind
<1>2. WithId = {}
  BY DEF MvccInit, TrxSysInit, WithId
<1>3. NotOlder(Gone, purge_view)
  BY <1>2 DEF NotOlder, Gone, MvccInit, ZeroView
<1>4. EmptyInv
  BY DEF EmptyInv, EmptyOk, MvccInit, TrxSysInit, ZeroView
<1> QED
  BY <1>1, <1>3, <1>4 DEF PurgeInv, MvccInit

LEMMA PurgeCloneInv ==
    ASSUME MvccInv, PurgeInv, clone_snapshot
    PROVE  PurgeInv'
<1>1. /\ UNCHANGED trxvars /\ UNCHANGED viewvars /\ purge_view' = purge_view
      /\ purged' = purged /\ EndSnapshot(PURGE) /\ late_purge' = late_purge
      /\ building' = Snapshot(PURGE) /\ to_append' = Readers
      /\ PURGE \in Snappers /\ PURGE \notin Trxs /\ [MvccNext]_mvccvars
  BY TrxSysAssumption
     DEF clone_snapshot, Snappers, TrxSysAssumption, MvccNext, PurgeStep
<1>2. spc[PURGE] = "walk" /\ spc'[PURGE] = "-"
      /\ \A u \in Trxs : spc'[u] = spc[u]
  BY <1>1, EndFacts DEF Snappers
<1>3. EmptyInv'
  BY <1>1, EmptyStep DEF PurgeInv
<1>4. Gone' = Gone
  BY <1>1 DEF Gone, WithId, trxvars
<1>5. NotOlder(purge_view, building)' /\ NotOlder(Gone, building)'
  <2>1. NotOlder(purge_view, Snapshot(PURGE)) /\ NotOlder(Gone, Snapshot(PURGE))
    BY <1>1, <1>2 DEF PurgeInv, Behind
  <2> QED
    BY <1>1, <1>4, <2>1 DEF NotOlder, Vis, WithId, trxvars
<1>6. ASSUME NEW s \in Trxs \ Readers PROVE Behind(building, s)'
  <2>1. ~m_open[s] /\ spc[s] = "-"
    BY <1>6 DEF ThreadOk, MvccInv
  <2> QED
    BY <1>1, <1>2, <2>1 DEF Behind, viewvars
<1> QED
  BY <1>1, <1>2, <1>3, <1>5, <1>6, PurgeKept DEF PurgeInv

LEMMA PurgeAppendInv ==
    ASSUME MvccInv, PurgeInv, NEW t \in Trxs, append_to(t)
    PROVE  /\ PurgeInv'
           /\ late_purge' = {} =>
                purge_view.low_limit_no <= purge_view'.low_limit_no
<1>1. /\ UNCHANGED trxvars /\ m_open' = m_open /\ read_view' = read_view
      /\ spc' = spc /\ arg' = arg /\ purged' = purged /\ t \in to_append
      /\ to_append' = to_append \ {t} /\ spc[t] = "-" /\ late' = late
      /\ [MvccNext]_mvccvars
  BY DEF append_to, viewvars, snapvars, MvccNext, PurgeStep
<1>2. PICK v : v = IF m_open[t] THEN append(building, read_view[t])
                                ELSE building
  OBVIOUS
<1>3. PICK p : p = purge_view
  OBVIOUS
<1>g. PICK g : g = Gone
  OBVIOUS
<1>l. PICK l : l = late_building \cup ({t} \cap late)
  OBVIOUS
<1>4. /\ building \in Views /\ read_view[t] \in Views /\ p \in Views
      /\ \A s \in Trxs : read_view[s] \in Views
      /\ \A s \in Snappers : Snapshot(s) \in Views
      /\ spc[PURGE] = "-" /\ g \in Views
      /\ t \in Snappers /\ Snappers = Trxs \cup {PURGE} /\ PURGE \notin Trxs
  BY <1>1, <1>3, <1>g, GoneFacts, TrxSysAssumption
     DEF PurgeInv, MvccInv, MvccTypeOK, TrxSysTypeOK, Snapshot, Args, Views,
         Snappers, TrxSysAssumption
<1>5. /\ v \in Views /\ NotOlder(v, building)
      /\ m_open[t] => NotOlder(v, read_view[t])
      /\ l = {} => NotOlder(p, v) /\ NotOlder(g, v)
  <2>0. l = {} => /\ NotOlder(p, building) /\ NotOlder(g, building)
                  /\ t \notin late
    BY <1>1, <1>3, <1>g, <1>l DEF PurgeInv
  <2>1. CASE m_open[t]
    <3>1. l = {} => NotOlder(p, read_view[t]) /\ NotOlder(g, read_view[t])
      BY <1>3, <1>g, <1>4, <2>0, <2>1 DEF PurgeInv, Behind
    <3> QED
      BY <1>2, <1>4, <2>0, <2>1, <3>1, AppendOlder
  <2>2. CASE ~m_open[t]
    <3>1. NotOlder(building, building)
      BY <1>4 DEF NotOlder, Views
    <3> QED
      BY <1>2, <1>4, <2>0, <2>2, <3>1
  <2> QED
    BY <2>1, <2>2
<1>6. ASSUME NEW s \in Trxs \ (to_append \ {t}) PROVE Behind(v, s)
  <2>1. CASE s = t
    BY <1>1, <1>5, <2>1 DEF Behind
  <2>2. CASE s # t
    <3>1. Behind(building, s) /\ s \in Snappers
      BY <1>1, <1>4, <1>6, <2>2 DEF PurgeInv
    <3>2. s \in Trxs \ late /\ m_open[s] => NotOlder(v, read_view[s])
      BY <1>4, <1>5, <3>1, NotOlderTrans DEF Behind
    <3>3. spc[s] = "walk" => NotOlder(v, Snapshot(s))
      BY <1>4, <1>5, <3>1, NotOlderTrans DEF Behind
    <3> QED
      BY <3>2, <3>3 DEF Behind
  <2> QED
    BY <2>1, <2>2
<1>7. Behind(v, PURGE)
  BY <1>4 DEF Behind
<1>8. ASSUME NEW s \in Snappers, NEW w, Behind(w, s) PROVE Behind(w, s)'
  BY <1>1, <1>8 DEF Behind, NotOlder, Vis, WithId, Snapshot, trxvars
<1>9. EmptyInv' /\ Gone' = g
  <2>1. EmptyInv'
    BY <1>1, EmptyStep DEF PurgeInv
  <2> QED
    BY <1>1, <1>g, <2>1 DEF Gone, WithId, trxvars
<1>10. l = {} => p.low_limit_no <= v.low_limit_no
  BY <1>5 DEF NotOlder
<1>11. CASE to_append = {t}
  <2>1. purge_view' = v /\ to_append' = {} /\ late_purge' = l
    BY <1>1, <1>2, <1>l, <1>11 DEF append_to
  <2>2. ASSUME NEW s \in Snappers
        PROVE  Behind(purge_view, s)' /\ Behind(Gone, s)'
    <3>1. Behind(v, s) /\ Behind(g, s)
      BY <1>4, <1>6, <1>7, <1>g, <1>11 DEF PurgeInv
    <3>2. Behind(v, s)' /\ Behind(g, s)'
      BY <1>8, <3>1
    <3> QED
      BY <1>9, <2>1, <3>2 DEF Behind, NotOlder, Vis
  <2>3. late_purge' = {} => NotOlder(Gone, purge_view)'
    BY <1>1, <1>5, <1>9, <2>1 DEF NotOlder, Vis, WithId, trxvars
  <2> QED
    BY <1>3, <1>9, <1>10, <2>1, <2>2, <2>3 DEF PurgeInv
<1>12. CASE to_append # {t}
  <2>1. /\ purge_view' = p /\ building' = v /\ late_building' = l
        /\ late_purge' = late_purge
    BY <1>1, <1>2, <1>3, <1>l, <1>12 DEF append_to
  <2>2. /\ \A s \in Snappers : Behind(purge_view, s)' /\ Behind(Gone, s)'
        /\ late_purge = {} => NotOlder(Gone, purge_view)'
    BY <1>1, <1>3, <2>1, PurgeKept
  <2>3. ASSUME NEW s \in Trxs \ to_append' PROVE Behind(building, s)'
    <3>1. Behind(v, s) /\ s \in Snappers
      BY <1>1, <1>4, <1>6, <2>3
    <3> QED
      BY <1>8, <2>1, <3>1 DEF Behind, NotOlder, Vis
  <2>4. l = {} => NotOlder(purge_view, building)' /\ NotOlder(Gone, building)'
    BY <1>1, <1>5, <1>9, <2>1 DEF NotOlder, Vis, WithId, trxvars
  <2>5. purge_view.low_limit_no <= purge_view'.low_limit_no
    BY <1>3, <1>4, <2>1 DEF Views
  <2> QED
    BY <1>1, <1>4, <1>9, <2>1, <2>2, <2>3, <2>4, <2>5 DEF PurgeInv
<1> QED
  BY <1>11, <1>12

\* What is purged is seen by the purge view, and so by the views before it.
LEMMA PurgeHistoryStep ==
    ASSUME MvccInv, PurgeInv, NEW t \in Trxs, purge_history(t)
    PROVE  PurgeInv'
<1>1. /\ UNCHANGED trxvars /\ m_open' = m_open /\ read_view' = read_view
      /\ spc' = spc /\ arg' = arg /\ late' = late /\ to_append' = {}
      /\ purge_view' = purge_view /\ late_purge' = late_purge
      /\ purged' = purged \cup {t} /\ no[t] < purge_view.low_limit_no
      /\ [MvccNext]_mvccvars
  BY DEF purge_history, viewvars, snapvars, MvccNext, PurgeStep
<1>2. EmptyInv'
  BY <1>1, EmptyStep DEF PurgeInv
<1>3. Vis(purge_view, t)
  BY <1>1 DEF MvccInv, ViewOk
<1>4. \A u \in WithId : Vis(Gone, u)' => Vis(Gone, u) \/ u = t
  <2>1. WithId' = WithId /\ \A u \in WithId' : Vis(Gone, u)' => u \in purged'
    <3>1. MvccInv' => GoneSees'
      BY GoneFacts, PTL
    <3>2. MvccInv'
      BY <1>1, MvccStepInv
    <3> QED
      BY <1>1, <3>1, <3>2 DEF GoneSees, WithId, trxvars
  <2>2. \A u \in WithId : u \in purged => Vis(Gone, u)
    BY GoneFacts DEF GoneSees
  <2> QED
    BY <1>1, <2>1, <2>2
<1>5. Gone'.low_limit_no = 0 /\ Gone.low_limit_no = 0
  BY DEF Gone
<1>6. ASSUME NEW w, NotOlder(Gone, w), Vis(w, t)
      PROVE  NotOlder(Gone, w)'
  <2>1. WithId' = WithId /\ \A u : Vis(w, u)' <=> Vis(w, u)
    BY <1>1 DEF WithId, Vis, trxvars
  <2> QED
    BY <1>4, <1>5, <1>6, <2>1 DEF NotOlder
<1>7. ASSUME NEW w, NotOlder(purge_view, w) PROVE NotOlder(purge_view, w)'
  BY <1>1, <1>7 DEF NotOlder, Vis, WithId, trxvars
<1>8. t \in WithId
  BY <1>3 DEF MvccInv, ViewOk, WithId, purge_history
<1>9. ASSUME NEW s \in Snappers PROVE Behind(purge_view, s)' /\ Behind(Gone, s)'
  <2>1. Behind(purge_view, s) /\ Behind(Gone, s)
    BY DEF PurgeInv
  <2>2. ASSUME s \in Trxs \ late, m_open[s]
        PROVE  NotOlder(purge_view, read_view[s])' /\ NotOlder(Gone, read_view[s])'
    <3>1. PICK w : w = read_view[s]
      OBVIOUS
    <3>2. NotOlder(purge_view, w) /\ NotOlder(Gone, w) /\ Vis(w, t)
      BY <1>3, <1>8, <2>1, <2>2, <3>1 DEF Behind, NotOlder
    <3>3. NotOlder(purge_view, w)' /\ NotOlder(Gone, w)'
      BY <1>6, <1>7, <3>2
    <3> QED
      BY <1>1, <3>1, <3>3 DEF NotOlder, Vis
  <2>3. ASSUME spc[s] = "walk"
        PROVE  NotOlder(purge_view, Snapshot(s))' /\ NotOlder(Gone, Snapshot(s))'
    <3>1. PICK w : w = Snapshot(s)
      OBVIOUS
    <3>2. NotOlder(purge_view, w) /\ NotOlder(Gone, w) /\ Vis(w, t)
      BY <1>3, <1>8, <2>1, <2>3, <3>1 DEF Behind, NotOlder
    <3>3. NotOlder(purge_view, w)' /\ NotOlder(Gone, w)'
      BY <1>6, <1>7, <3>2
    <3>4. Snapshot(s)' = w
      BY <1>1, <3>1 DEF Snapshot
    <3> QED
      BY <3>3, <3>4 DEF NotOlder, Vis
  <2> QED
    BY <1>1, <2>2, <2>3 DEF Behind
<1>10. late_purge = {} => NotOlder(Gone, purge_view)'
  <2>1. PICK p : p = purge_view
    OBVIOUS
  <2>2. late_purge = {} => NotOlder(Gone, p)'
    BY <1>3, <1>6, <2>1 DEF PurgeInv
  <2> QED
    BY <1>1, <2>1, <2>2 DEF NotOlder, Vis
<1> QED
  BY <1>1, <1>2, <1>9, <1>10 DEF PurgeInv

LEMMA PurgeStepInv ==
    ASSUME MvccInv, PurgeInv, [MvccNext]_mvccvars
    PROVE  /\ PurgeInv'
           /\ late_purge' = {} =>
                purge_view.low_limit_no <= purge_view'.low_limit_no
<1>1. /\ purge_view.low_limit_no <= purge_view.low_limit_no
      /\ PURGE \in Snappers /\ PURGE \notin Trxs
      /\ spc \in [Snappers -> SnapPC]
  BY TrxSysAssumption
     DEF MvccInv, MvccTypeOK, TrxSysTypeOK, Views, Snappers, TrxSysAssumption
<1>2. ASSUME UNCHANGED purgevars, to_append # {} => spc'[PURGE] = "-"
      PROVE  PurgeInv' /\ purge_view.low_limit_no <= purge_view'.low_limit_no
  <2>1. purge_view' = purge_view
    BY <1>2 DEF purgevars
  <2> QED
    BY <1>1, <1>2, <2>1, PurgeSame
<1>3. to_append # {} => spc[PURGE] = "-"
  BY DEF PurgeInv
<1>4. ASSUME NEW t \in Trxs, TrxStep(t)
      PROVE  UNCHANGED purgevars /\ spc'[PURGE] = spc[PURGE]
  BY <1>1, <1>4
     DEF TrxStep, RegisterRw, Serialise, CommitInMemory, open_reuse,
         open_reused, open_snapshot, open_done, close, LoadVersion,
         EndSnapshot, snapvars
<1>5. ASSUME NEW s \in Snappers, SnapshotStep(s)
      PROVE  UNCHANGED purgevars /\ (to_append # {} => spc'[PURGE] = "-")
  BY <1>1, <1>3, <1>5
     DEF SnapshotStep, snapshot_ids, CompareMax, CopyOneId
<1>6. CASE clone_begin
  BY <1>2, <1>6 DEF clone_begin
<1>7. CASE clone_snapshot
  BY <1>1, <1>7, PurgeCloneInv DEF clone_snapshot
<1>8. ASSUME NEW t \in Trxs, append_to(t)
      PROVE  /\ PurgeInv'
             /\ late_purge' = {} =>
                  purge_view.low_limit_no <= purge_view'.low_limit_no
  BY <1>8, PurgeAppendInv
<1>9. ASSUME NEW t \in Trxs, purge_history(t)
      PROVE  PurgeInv' /\ purge_view.low_limit_no <= purge_view'.low_limit_no
  <2>1. purge_view' = purge_view
    BY <1>9 DEF purge_history
  <2> QED
    BY <1>1, <1>9, <2>1, PurgeHistoryStep
<1>10. CASE UNCHANGED mvccvars
  <2>1. UNCHANGED purgevars /\ spc' = spc
    BY <1>10 DEF mvccvars, snapvars
  <2> QED
    BY <1>2, <1>3, <2>1
<1> QED
  BY <1>2, <1>3, <1>4, <1>5, <1>6, <1>7, <1>8, <1>9, <1>10
     DEF MvccNext, PurgeStep

\* clone_oldest_view(): the purge view is no newer than any view that is open
\* or being taken, unless that was reused late, and sees what has been purged,
\* unless a late view went into it.
THEOREM PurgeInvariant == MvccSafety => []PurgeInv
<1>1. MvccInv /\ PurgeInv /\ [MvccNext]_mvccvars => PurgeInv'
  BY PurgeStepInv
<1> QED
  BY <1>1, PurgeInitInv, MvccInvariant, PTL DEF MvccSafety

\* trx_undo_get_undo_rec(): a purge view that no late view went into sees every
\* transaction whose history is gone, so the undo log of none is read.
THEOREM MvccPurgeCheckSound == MvccSafety => []PurgeCheckSound
<1>1. MvccInv /\ PurgeInv => PurgeCheckSound
  <2> SUFFICES ASSUME MvccInv, PurgeInv, late_purge = {}, NEW t \in purged
               PROVE  changes_visible(purge_view, id[t])
    BY DEF PurgeCheckSound
  <2>1. t \in Trxs /\ t \in WithId
    BY DEF MvccInv, MvccTypeOK, PurgedAreCommitted, WithId
  <2>2. Vis(purge_view, t)
    BY <2>1, GoneFacts DEF PurgeInv, NotOlder, GoneSees
  <2> QED
    BY <2>1, <2>2, SeesDef
<1> QED
  BY <1>1, PurgeInvariant, MvccInvariant, PTL

\* The same check turns no reader away (DB_MISSING_HISTORY) that did not reuse
\* its view late: what the purge view sees, its view sees.
THEOREM MvccNoMissingHistory == MvccSafety => []NoMissingHistory
<1>1. MvccInv /\ PurgeInv => NoMissingHistory
  <2> SUFFICES ASSUME MvccInv, PurgeInv, NEW r \in Trxs, NEW t \in Trxs,
                      m_open[r], r \notin late, HasId(t),
                      changes_visible(purge_view, id[t])
               PROVE  Sees(r, t)
    BY DEF NoMissingHistory
  <2>1. NotOlder(purge_view, read_view[r])
    BY DEF PurgeInv, Behind, Snappers
  <2>2. t \in WithId /\ Vis(purge_view, t)
    BY SeesDef DEF WithId, HasId
  <2> QED
    BY <2>1, <2>2, SeesDef DEF NotOlder, Sees
<1> QED
  BY <1>1, PurgeInvariant, MvccInvariant, PTL

\* FACT C of read0read.cc: every open view that was not reused late sees all
\* that has been purged.
THEOREM MvccPurgeBehindViews == MvccSafety => []PurgeBehindViews
<1>1. MvccInv /\ PurgeInv => PurgeBehindViews
  <2> SUFFICES ASSUME MvccInv, PurgeInv, NEW r \in Trxs, m_open[r],
                      r \notin late, NEW t \in purged
               PROVE  Sees(r, t)
    BY DEF PurgeBehindViews
  <2>1. NotOlder(Gone, read_view[r])
    BY DEF PurgeInv, Behind, Snappers
  <2>2. t \in Trxs /\ t \in WithId
    BY DEF MvccInv, MvccTypeOK, PurgedAreCommitted, WithId
  <2>3. Vis(read_view[r], t)
    BY <2>1, <2>2, GoneFacts DEF NotOlder, GoneSees
  <2> QED
    BY <2>2, <2>3, SeesDef DEF Sees
<1> QED
  BY <1>1, PurgeInvariant, MvccInvariant, PTL

\* clone_oldest_view(): the limit low_limit_no of the purge view does not move
\* back, unless a late view goes into the new one.
THEOREM MvccPurgeViewAdvances == MvccSafety => PurgeViewAdvances
<1>1. MvccInv /\ PurgeInv /\ [MvccNext]_mvccvars =>
        [late_purge' = {} =>
           purge_view.low_limit_no <= purge_view'.low_limit_no]_mvccvars
  BY PurgeStepInv
<1> QED
  BY <1>1, PurgeInvariant, MvccInvariant, PTL
     DEF MvccSafety, PurgeViewAdvances
=============================================================================
