--------------------------- MODULE ReadViewAppend ---------------------------
(***************************************************************************)
(* ReadViewBase::append() as it is written: a merge of two sorted arrays   *)
(* in place, with one cursor (storage/innobase/include/read0types.h).      *)
(* snapshot_ids() may record an id more than once, so the arrays are       *)
(* sorted but need not be free of duplicates.                              *)
(***************************************************************************)
EXTENDS ReadView, SequencesExt

CONSTANTS MaxId, MaxLen   \* bounds on the ids and on the arrays

ASSUME AppendAssumption == MaxId \in Nat /\ MaxLen \in Nat

VARIABLES
    view,    \* *this: m_low_limit_id, m_low_limit_no, m_ids, m_up_limit_id
    other,   \* the argument
    dst,     \* the iterator into m_ids
    next,    \* the element of other.m_ids the loop is at
    at,      \* "limits", "loop", "erase" or "done"
    old      \* history: *this before the call

appendvars == <<view, other, dst, next, at, old>>

Ascending(s) == \A i \in 1 .. Len(s) - 1 : s[i] <= s[i + 1]

UpLimit(s, limit) == IF s = <<>> THEN limit ELSE s[1]

\* What snapshot() leaves: sorted ids below the limit, and a limit on numbers
\* that is not above it.
Snapshots ==
    UNION {{[low_limit_id |-> limit, low_limit_no |-> n, m_ids |-> s,
             up_limit_id |-> UpLimit(s, limit)] :
              n \in {1, limit},
              s \in {q \in BoundedSeq(1 .. limit - 1, MaxLen) : Ascending(q)}} :
           limit \in 1 .. MaxId + 1}

AppendInit ==
    /\ view \in Snapshots /\ other \in Snapshots
    /\ dst = 1 /\ next = 1 /\ at = "limits" /\ old = view

\* A mutant: m_low_limit_id is not lowered.
append_limits_KeepId ==
    /\ at = "limits"
    /\ view' = [view EXCEPT !.low_limit_no = Smaller(@, other.low_limit_no)]
    /\ at' = "loop"
    /\ UNCHANGED <<other, dst, next, old>>

append_limits ==
    /\ at = "limits"
    /\ view' = [view EXCEPT
                  !.low_limit_no = Smaller(@, other.low_limit_no),
                  !.low_limit_id = Smaller(@, other.low_limit_id)]
    /\ at' = "loop"
    /\ UNCHANGED <<other, dst, next, old>>

\* One element of other.m_ids, or one dst++ on the way to its place.
append_loop ==
    /\ at = "loop"
    /\ IF next > Len(other.m_ids) \/ other.m_ids[next] >= view.low_limit_id
         THEN at' = "erase" /\ UNCHANGED <<view, dst, next>>
         ELSE LET id == other.m_ids[next] IN
              /\ IF dst > Len(view.m_ids)
                   THEN /\ view' = [view EXCEPT !.m_ids = Append(@, id)]
                        /\ dst' = Len(view.m_ids) + 2 /\ next' = next + 1
                 ELSE IF view.m_ids[dst] < id
                   THEN dst' = dst + 1 /\ UNCHANGED <<view, next>>
                 ELSE IF view.m_ids[dst] > id
                   THEN /\ view' = [view EXCEPT !.m_ids = InsertAt(@, dst, id)]
                        /\ dst' = dst + 1 /\ next' = next + 1
                 ELSE next' = next + 1 /\ UNCHANGED <<view, dst>>
              /\ UNCHANGED at
    /\ UNCHANGED <<other, old>>

\* A mutant: this view's ids above the other's limit are kept.
append_erase_Nothing ==
    /\ at = "erase"
    /\ view' = [view EXCEPT !.up_limit_id = UpLimit(view.m_ids, view.low_limit_id)]
    /\ at' = "done"
    /\ UNCHANGED <<other, dst, next, old>>

\* erase(lower_bound(dst, end, m_low_limit_id), end) and m_up_limit_id.
append_erase ==
    /\ at = "erase"
    /\ LET keep == {i \in DOMAIN view.m_ids :
                      i < dst \/ view.m_ids[i] < view.low_limit_id}
           s == SubSeq(view.m_ids, 1, Cardinality(keep))
       IN  view' = [view EXCEPT !.m_ids = s,
                                !.up_limit_id = UpLimit(s, view.low_limit_id)]
    /\ at' = "done"
    /\ UNCHANGED <<other, dst, next, old>>

AppendNext == append_limits \/ append_loop \/ append_erase

AppendSpec ==
    AppendInit /\ [][AppendNext]_appendvars /\ WF_appendvars(AppendNext)

-----------------------------------------------------------------------------
AsView(v) == [low_limit_id |-> v.low_limit_id, ids |-> ToSet(v.m_ids),
              low_limit_no |-> v.low_limit_no]

\* binary_search() and front() of later calls need a sorted array, and the
\* merge computes the oldest view in the sense of module ReadView.
MergeIsAppend ==
    at = "done" =>
        /\ AsView(view) = append(AsView(old), AsView(other))
        /\ Ascending(view.m_ids)
        /\ view.up_limit_id = up_limit_id(AsView(view))

\* The comment on append(): the result is the "oldest view": it sees exactly
\* the transactions that both views see.
SeesWhatBothSee ==
    at = "done" =>
        \A id \in 0 .. MaxId + 2 :
            changes_visible(AsView(view), id)
                <=> /\ changes_visible(AsView(old), id)
                    /\ changes_visible(AsView(other), id)

=============================================================================
