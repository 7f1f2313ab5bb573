------------------------------ MODULE ReadView ------------------------------
(***************************************************************************)
(* ReadViewBase: what a read view is and which transactions it sees        *)
(* (storage/innobase/include/read0types.h).  The sorted array m_ids is a   *)
(* set here; ReadViewAppend keeps the array and its merge.                 *)
(***************************************************************************)
EXTENDS Integers

\* low_limit_id: no transaction with id >= this is seen;
\* ids: the read-write transactions that were active;
\* low_limit_no: history of transactions with no < this is not needed.
Views == [low_limit_id : Nat, ids : SUBSET Nat, low_limit_no : Nat]

ZeroView == [low_limit_id |-> 0, ids |-> {}, low_limit_no |-> 0]

Smaller(a, b) == IF a > b THEN b ELSE a

\* m_up_limit_id: the front of the sorted ids, or low_limit_id.
up_limit_id(v) ==
    IF v.ids = {} THEN v.low_limit_id
    ELSE CHOOSE i \in v.ids : \A j \in v.ids : i <= j

changes_visible(v, id) ==
    /\ id < v.low_limit_id
    /\ id < up_limit_id(v) \/ v.ids = {} \/ id \notin v.ids

\* append(): the older of two views, limit by limit.
append(v, other) ==
    LET limit == Smaller(v.low_limit_id, other.low_limit_id) IN
    [low_limit_id |-> limit,
     ids |-> {i \in v.ids \cup other.ids : i < limit},
     low_limit_no |-> Smaller(v.low_limit_no, other.low_limit_no)]
=============================================================================
