------------------------ MODULE ReadViewAppendProofs ------------------------
(***************************************************************************)
(* The in-place merge of ReadViewBase::append() computes the oldest view,  *)
(* for views of any length.  The argument is a loop invariant, Merging:    *)
(* the array stays sorted, it holds its own ids and the ones taken so far, *)
(* and what is before the cursor is below the new limit and not above the  *)
(* next id to merge.                                                       *)
(***************************************************************************)
EXTENDS ReadViewAppend, FiniteSetTheorems, SequenceTheorems,
        WellFoundedInduction, TLAPS

Limit == Smaller(old.low_limit_id, other.low_limit_id)

\* A sorted array of ids below a limit.
SortedBelow(s, limit) ==
    /\ s \in Seq(Nat)
    /\ \A i, j \in 1 .. Len(s) : i <= j => s[i] <= s[j]
    /\ \A i \in 1 .. Len(s) : s[i] < limit

WellFormed(v) ==
    /\ v = [low_limit_id |-> v.low_limit_id, low_limit_no |-> v.low_limit_no,
            m_ids |-> v.m_ids, up_limit_id |-> v.up_limit_id]
    /\ v.low_limit_id \in Nat /\ v.low_limit_no \in Nat
    /\ v.up_limit_id \in Nat
    /\ v.m_ids \in Seq(Nat)

\* What the loop has merged when it is about to look at element n of q with
\* its cursor at d in the array s, which was s0.
Merging(s, d, n, s0, q, limit) ==
    /\ d \in 1 .. Len(s) + 1 /\ n \in 1 .. Len(q) + 1
    /\ \A i, j \in 1 .. Len(s) : i <= j => s[i] <= s[j]
    /\ \A x : (\E i \in 1 .. Len(s) : s[i] = x)
                <=> \/ \E i \in 1 .. Len(s0) : s0[i] = x
                    \/ \E j \in 1 .. n - 1 : q[j] = x
    /\ \A i \in 1 .. d - 1 : s[i] < limit
    /\ \A i \in 1 .. d - 1 : n <= Len(q) => s[i] <= q[n]
    /\ \A j \in 1 .. n - 1 : q[j] < limit

AppendInv ==
    /\ WellFormed(old) /\ SortedBelow(old.m_ids, old.low_limit_id)
    /\ WellFormed(other) /\ SortedBelow(other.m_ids, other.low_limit_id)
    /\ WellFormed(view)
    /\ at \in {"limits", "loop", "erase", "done"}
    /\ at = "limits" => view = old /\ dst = 1 /\ next = 1
    /\ at \in {"loop", "erase"} =>
          /\ view.low_limit_id = Limit
          /\ view.low_limit_no = Smaller(old.low_limit_no, other.low_limit_no)
          /\ Merging(view.m_ids, dst, next, old.m_ids, other.m_ids, Limit)
    /\ at = "erase" /\ next <= Len(other.m_ids) => other.m_ids[next] >= Limit
    /\ MergeIsAppend

-----------------------------------------------------------------------------
(* Numbers and views. *)

LEMMA LeastNat ==
    ASSUME NEW T \in SUBSET Nat, T # {}
    PROVE  \E x \in T : \A y \in T : x <= y
<1> DEFINE R == OpToRel(<, Nat)
<1>1. IsWellFoundedOn(R, Nat)
  BY NatLessThanWellFounded
<1>2. PICK x \in T : \A y \in T : ~(<<y, x>> \in R)
  <2> HIDE DEF R
  <2> QED
    BY <1>1, WFMin
<1>3. \A y \in T : ~(y < x)
  BY <1>2 DEF OpToRel
<1> QED
  BY <1>3

\* The comparison with m_up_limit_id in changes_visible() is a shortcut: a
\* view sees what is below its limit and was not active.
LEMMA VisibleIs ==
    ASSUME NEW v, v.low_limit_id \in Nat, v.ids \in SUBSET Nat, NEW id \in Nat
    PROVE  changes_visible(v, id) <=> id < v.low_limit_id /\ id \notin v.ids
<1>1. CASE v.ids = {}
  BY <1>1 DEF changes_visible
<1>2. CASE v.ids # {}
  <2>1. \E x \in v.ids : \A y \in v.ids : x <= y
    BY <1>2, LeastNat
  <2>2. up_limit_id(v) \in v.ids /\ \A y \in v.ids : up_limit_id(v) <= y
    BY <1>2, <2>1 DEF up_limit_id
  <2>3. id < up_limit_id(v) => id \notin v.ids
    BY <2>2
  <2> QED
    BY <1>2, <2>3 DEF changes_visible
<1> QED
  BY <1>1, <1>2

\* m_up_limit_id is the front of the sorted array.
LEMMA UpLimitIs ==
    ASSUME NEW v, v.m_ids \in Seq(Nat),
           \A i, j \in 1 .. Len(v.m_ids) : i <= j => v.m_ids[i] <= v.m_ids[j]
    PROVE  UpLimit(v.m_ids, v.low_limit_id) = up_limit_id(AsView(v))
<1>1. PICK s : s = v.m_ids
  OBVIOUS
<1>2. AsView(v).ids = {s[i] : i \in 1 .. Len(s)}
  BY <1>1 DEF AsView, ToSet
<1>3. AsView(v).low_limit_id = v.low_limit_id
  BY DEF AsView
<1>4. CASE s = <<>>
  <2>1. AsView(v).ids = {}
    BY <1>2, <1>4
  <2> QED
    BY <1>1, <1>3, <1>4, <2>1 DEF UpLimit, up_limit_id
<1>5. CASE s # <<>>
  <2>1. Len(s) \in Nat /\ Len(s) # 0
    BY <1>1, <1>5, EmptySeq, LenProperties
  <2>2. s[1] \in AsView(v).ids /\ AsView(v).ids # {}
    BY <1>2, <2>1
  <2>3. \A y \in AsView(v).ids : s[1] <= y
    BY <1>1, <1>2, <2>1
  <2>4. \A x \in AsView(v).ids : x \in Nat
    BY <1>1, <1>2
  <2>5. up_limit_id(AsView(v)) =
          CHOOSE x \in AsView(v).ids : \A y \in AsView(v).ids : x <= y
    BY <2>2 DEF up_limit_id
  <2>6. ASSUME NEW x \in AsView(v).ids, \A y \in AsView(v).ids : x <= y
        PROVE  x = s[1]
    BY <2>2, <2>3, <2>4, <2>6
  <2>7. up_limit_id(AsView(v)) = s[1]
    BY <2>2, <2>3, <2>5, <2>6
  <2> QED
    BY <1>1, <1>5, <2>7 DEF UpLimit
<1> QED
  BY <1>4, <1>5


\* Sorted neighbours make a sorted array.
LEMMA AscendingIsSorted ==
    ASSUME NEW s \in Seq(Nat), Ascending(s)
    PROVE  \A i, j \in 1 .. Len(s) : i <= j => s[i] <= s[j]
<1>1. Len(s) \in Nat /\ \A k \in 1 .. Len(s) : s[k] \in Nat
  OBVIOUS
<1>2. SUFFICES ASSUME NEW i \in 1 .. Len(s) PROVE
        \A j \in 1 .. Len(s) : i <= j => s[i] <= s[j]
  OBVIOUS
<1> DEFINE T == {j \in 1 .. Len(s) : i <= j /\ ~(s[i] <= s[j])}
<1>3. SUFFICES ASSUME T # {} PROVE FALSE
  OBVIOUS
<1>4. T \in SUBSET Nat
  BY <1>1
<1>5. PICK j \in T : \A k \in T : j <= k
  <2> HIDE DEF T
  <2> QED
    BY <1>3, <1>4, LeastNat
<1>6. j \in 1 .. Len(s) /\ i <= j /\ ~(s[i] <= s[j])
  BY <1>5
<1>7. j # i /\ j \in Nat /\ i \in Nat
  BY <1>1, <1>6
<1>8. j - 1 \in 1 .. Len(s) - 1 /\ j - 1 \in 1 .. Len(s) /\ i <= j - 1
  BY <1>1, <1>6, <1>7
<1>9. ~(j <= j - 1) /\ (j - 1) + 1 = j
  BY <1>7
<1>10. j - 1 \notin T
  <2> HIDE DEF T
  <2> QED
    BY <1>5, <1>9
<1>11. s[i] <= s[j - 1]
  BY <1>8, <1>10
<1>12. s[j - 1] <= s[j]
  BY <1>8, <1>9 DEF Ascending
<1> QED
  BY <1>1, <1>6, <1>8, <1>11, <1>12

LEMMA SortedIsAscending ==
    ASSUME NEW s \in Seq(Nat),
           \A i, j \in 1 .. Len(s) : i <= j => s[i] <= s[j]
    PROVE  Ascending(s)
<1>1. Len(s) \in Nat
  OBVIOUS
<1>2. ASSUME NEW i \in 1 .. Len(s) - 1
      PROVE  i \in 1 .. Len(s) /\ i + 1 \in 1 .. Len(s) /\ i <= i + 1
  BY <1>1
<1> QED
  BY <1>2 DEF Ascending

\* Every view snapshot() leaves is well formed.
LEMMA SnapshotFacts ==
    ASSUME NEW v \in Snapshots
    PROVE  WellFormed(v) /\ SortedBelow(v.m_ids, v.low_limit_id)
<1>1. PICK limit \in 1 .. MaxId + 1 :
        \E n \in {1, limit},
           s \in {q \in BoundedSeq(1 .. limit - 1, MaxLen) : Ascending(q)} :
             v = [low_limit_id |-> limit, low_limit_no |-> n, m_ids |-> s,
                  up_limit_id |-> UpLimit(s, limit)]
  BY DEF Snapshots
<1>2. PICK n \in {1, limit},
           s \in {q \in BoundedSeq(1 .. limit - 1, MaxLen) : Ascending(q)} :
             v = [low_limit_id |-> limit, low_limit_no |-> n, m_ids |-> s,
                  up_limit_id |-> UpLimit(s, limit)]
  BY <1>1
<1>3. limit \in Nat /\ n \in Nat
  BY AppendAssumption
<1>4. PICK m \in 0 .. MaxLen : s \in [1 .. m -> 1 .. limit - 1]
  BY DEF BoundedSeq, SeqOf
<1>5. m \in Nat
  BY AppendAssumption
<1>6. s \in Seq(Nat) /\ Len(s) = m
  BY <1>3, <1>4, <1>5
<1>7. \A i \in 1 .. Len(s) : s[i] < limit /\ s[i] \in Nat
  BY <1>3, <1>4, <1>6
<1>8. \A i, j \in 1 .. Len(s) : i <= j => s[i] <= s[j]
  BY <1>2, <1>6, AscendingIsSorted
<1>9. UpLimit(s, limit) \in Nat
  BY <1>3, <1>5, <1>6, <1>7, EmptySeq DEF UpLimit
<1>10. WellFormed(v)
  BY <1>2, <1>3, <1>6, <1>9 DEF WellFormed
<1>11. v.m_ids = s /\ v.low_limit_id = limit
  BY <1>2
<1> QED
  BY <1>6, <1>7, <1>8, <1>10, <1>11 DEF SortedBelow


-----------------------------------------------------------------------------
(* The loop. *)

\* r is s with e put in at d.
Inserted(r, s, d, e) ==
    /\ r \in Seq(Nat) /\ Len(r) = Len(s) + 1
    /\ \A i \in 1 .. Len(s) + 1 :
          r[i] = IF i < d THEN s[i] ELSE IF i = d THEN e ELSE s[i - 1]

LEMMA InsertFacts ==
    ASSUME NEW s \in Seq(Nat), NEW d \in 1 .. Len(s), NEW e \in Nat
    PROVE  Inserted(InsertAt(s, d, e), s, d, e)
<1>1. PICK n \in Nat : n = Len(s)
  BY LenProperties
<1>2. d \in 1 .. n /\ d \in Nat
  BY <1>1
<1>3. PICK a : a = SubSeq(s, 1, d - 1)
  OBVIOUS
<1>4. PICK b : b = SubSeq(s, d, n)
  OBVIOUS
<1>5. /\ a \in Seq(Nat) /\ Len(a) = d - 1
      /\ \A i \in 1 .. d - 1 : a[i] = s[i]
  BY <1>1, <1>2, <1>3
<1>6. /\ b \in Seq(Nat) /\ Len(b) = n - d + 1
      /\ \A i \in 1 .. n - d + 1 : b[i] = s[d + i - 1]
  BY <1>1, <1>2, <1>4
<1>7. PICK c : c = a \o <<e>>
  OBVIOUS
<1>8. /\ c \in Seq(Nat) /\ Len(c) = d
      /\ \A i \in 1 .. d - 1 : c[i] = s[i]
      /\ c[d] = e
  <2>1. <<e>> \in Seq(Nat) /\ Len(<<e>>) = 1 /\ <<e>>[1] = e
    OBVIOUS
  <2>2. /\ c \in Seq(Nat) /\ Len(c) = Len(a) + 1
        /\ \A i \in 1 .. Len(a) + 1 :
              c[i] = IF i <= Len(a) THEN a[i] ELSE <<e>>[i - Len(a)]
    BY <1>5, <1>7, <2>1, ConcatProperties
  <2>3. d \in 1 .. Len(a) + 1 /\ ~(d <= Len(a)) /\ d - Len(a) = 1
    BY <1>2, <1>5
  <2>4. c[d] = e
    BY <2>1, <2>2, <2>3
  <2>5. ASSUME NEW i \in 1 .. d - 1
        PROVE  i \in 1 .. Len(a) + 1 /\ i <= Len(a)
    BY <1>2, <1>5
  <2>6. \A i \in 1 .. d - 1 : c[i] = s[i]
    BY <1>5, <2>2, <2>5
  <2> QED
    BY <1>2, <1>5, <2>2, <2>4, <2>6
<1>9. PICK r : r = c \o b
  OBVIOUS
<1>10. r = InsertAt(s, d, e)
  BY <1>1, <1>3, <1>4, <1>7, <1>9 DEF InsertAt
<1>11. /\ r \in Seq(Nat) /\ Len(r) = n + 1
       /\ \A i \in 1 .. d : r[i] = c[i]
       /\ \A i \in d + 1 .. n + 1 : r[i] = b[i - d]
  <2>1. /\ r \in Seq(Nat) /\ Len(r) = Len(c) + Len(b)
        /\ \A i \in 1 .. Len(c) + Len(b) :
              r[i] = IF i <= Len(c) THEN c[i] ELSE b[i - Len(c)]
    BY <1>6, <1>8, <1>9, ConcatProperties
  <2>2. Len(c) + Len(b) = n + 1
    BY <1>2, <1>6, <1>8
  <2>3. ASSUME NEW i \in 1 .. d PROVE i \in 1 .. n + 1 /\ i <= Len(c)
    BY <1>2, <1>8
  <2>4. ASSUME NEW i \in d + 1 .. n + 1
        PROVE  i \in 1 .. n + 1 /\ ~(i <= Len(c))
    BY <1>2, <1>8
  <2> QED
    BY <1>8, <2>1, <2>2, <2>3, <2>4
<1>12. \A i \in d + 1 .. n + 1 : r[i] = s[i - 1]
  <2> TAKE i \in d + 1 .. n + 1
  <2>1. i - d \in 1 .. n - d + 1 /\ d + (i - d) - 1 = i - 1
    BY <1>2
  <2> QED
    BY <1>6, <1>11, <2>1
<1>13. \A i \in 1 .. n + 1 :
         r[i] = IF i < d THEN s[i] ELSE IF i = d THEN e ELSE s[i - 1]
  <2> TAKE i \in 1 .. n + 1
  <2>1. CASE i < d
    <3>1. i \in 1 .. d - 1 /\ i \in 1 .. d
      BY <1>2, <2>1
    <3> QED
      BY <1>8, <1>11, <2>1, <3>1
  <2>2. CASE i = d
    <3>1. d \in 1 .. d /\ ~(d < d)
      BY <1>2
    <3> QED
      BY <1>8, <1>11, <2>2, <3>1
  <2>3. CASE i > d
    BY <1>2, <1>12, <2>3
  <2> QED
    BY <1>2, <2>1, <2>2, <2>3
<1> QED
  BY <1>1, <1>10, <1>11, <1>13 DEF Inserted

\* Where the loop is, with the facts it has about the other array.
AtElement(s, d, n, s0, q, limit) ==
    /\ s \in Seq(Nat) /\ q \in Seq(Nat) /\ limit \in Nat
    /\ \A i, j \in 1 .. Len(q) : i <= j => q[i] <= q[j]
    /\ Merging(s, d, n, s0, q, limit)
    /\ n <= Len(q) /\ q[n] < limit

\* The types and bounds that come with it.
ElementOk(s, d, n, q, limit) ==
    /\ Len(s) \in Nat /\ Len(q) \in Nat /\ limit \in Nat
    /\ d \in Nat /\ n \in Nat /\ d \in 1 .. Len(s) + 1 /\ d >= 1 /\ n >= 1
    /\ n \in 1 .. Len(q) /\ n + 1 \in 1 .. Len(q) + 1
    /\ n + 1 <= Len(q) => q[n + 1] \in Nat /\ q[n] <= q[n + 1]
    /\ \A i \in 1 .. Len(s) : s[i] \in Nat
    /\ q[n] \in Nat /\ q[n] < limit
    /\ \A i \in 1 .. d - 1 :
          i \in 1 .. Len(s) /\ s[i] < limit /\ s[i] <= q[n]

LEMMA ElementFacts ==
    ASSUME NEW s, NEW d, NEW n, NEW s0, NEW q, NEW limit,
           AtElement(s, d, n, s0, q, limit)
    PROVE  ElementOk(s, d, n, q, limit)
<1>1. Len(s) \in Nat /\ Len(q) \in Nat /\ limit \in Nat
  BY DEF AtElement
<1>2. d \in 1 .. Len(s) + 1 /\ n \in 1 .. Len(q) + 1
  BY DEF AtElement, Merging
<1>3. d \in Nat /\ n \in Nat /\ n \in 1 .. Len(q) /\ n + 1 \in 1 .. Len(q) + 1
  BY <1>1, <1>2 DEF AtElement
<1>4. /\ \A i \in 1 .. Len(s) : s[i] \in Nat
      /\ \A i \in 1 .. Len(q) : q[i] \in Nat
  BY DEF AtElement
<1>5. n + 1 <= Len(q) => n + 1 \in 1 .. Len(q) /\ q[n] <= q[n + 1]
  BY <1>1, <1>3 DEF AtElement
<1>6. \A i \in 1 .. d - 1 : i \in 1 .. Len(s)
  BY <1>1, <1>2, <1>3
<1>7. \A i \in 1 .. d - 1 : s[i] < limit /\ s[i] <= q[n]
  BY DEF AtElement, Merging
<1> QED
  BY <1>1, <1>2, <1>3, <1>4, <1>5, <1>6, <1>7 DEF AtElement, ElementOk

\* The id just merged is one of the new array's, and the rest are as before.
LEMMA OneMore ==
    ASSUME NEW n \in Nat, n >= 1, NEW q, NEW x
    PROVE  (\E j \in 1 .. (n + 1) - 1 : q[j] = x)
             <=> (\E j \in 1 .. n - 1 : q[j] = x) \/ q[n] = x
<1>1. \A j : j \in 1 .. (n + 1) - 1 <=> j \in 1 .. n - 1 \/ j = n
  OBVIOUS
<1> QED
  BY <1>1

LEMMA SkipKeepsMerging ==
    ASSUME NEW s, NEW d, NEW n, NEW s0, NEW q, NEW limit,
           AtElement(s, d, n, s0, q, limit),
           d <= Len(s), s[d] < q[n]
    PROVE  Merging(s, d + 1, n, s0, q, limit)
<1>1. /\ Len(s) \in Nat /\ d \in Nat /\ d >= 1 /\ n \in Nat /\ limit \in Nat
      /\ \A i \in 1 .. Len(s) : s[i] \in Nat
      /\ q[n] \in Nat /\ q[n] < limit
      /\ \A i \in 1 .. d - 1 : s[i] < limit /\ s[i] <= q[n]
  <2>1. ElementOk(s, d, n, q, limit)
    BY ElementFacts
  <2> QED
    BY <2>1 DEF ElementOk
<1>2. d + 1 \in 1 .. Len(s) + 1
  BY <1>1
<1>3. \A i \in 1 .. (d + 1) - 1 : i \in 1 .. d - 1 \/ i = d
  BY <1>1
<1>4. d \in 1 .. Len(s)
  BY <1>1
<1>5. s[d] < limit /\ s[d] <= q[n]
  BY <1>1, <1>4
<1>6. \A i \in 1 .. (d + 1) - 1 : s[i] < limit /\ s[i] <= q[n]
  BY <1>1, <1>3, <1>5
<1>7. Merging(s, d, n, s0, q, limit)
  BY DEF AtElement
<1> QED
  BY <1>2, <1>6, <1>7 DEF Merging

LEMMA EqualKeepsMerging ==
    ASSUME NEW s, NEW d, NEW n, NEW s0, NEW q, NEW limit,
           AtElement(s, d, n, s0, q, limit),
           d <= Len(s), s[d] = q[n]
    PROVE  Merging(s, d, n + 1, s0, q, limit)
<1>1. /\ Len(s) \in Nat /\ d \in Nat /\ d >= 1 /\ n \in Nat /\ n >= 1
      /\ limit \in Nat /\ n + 1 \in 1 .. Len(q) + 1
      /\ n + 1 <= Len(q) =>
           q[n + 1] \in Nat /\ q[n] <= q[n + 1]
      /\ q[n] \in Nat /\ q[n] < limit
      /\ \A i \in 1 .. Len(s) : s[i] \in Nat
      /\ \A i \in 1 .. d - 1 : i \in 1 .. Len(s) /\ s[i] <= q[n]
  <2>1. ElementOk(s, d, n, q, limit)
    BY ElementFacts
  <2> QED
    BY <2>1 DEF ElementOk
<1>2. Merging(s, d, n, s0, q, limit)
  BY DEF AtElement
<1>3. d \in 1 .. Len(s)
  BY <1>1
<1>4. ASSUME NEW x
      PROVE  (\E i \in 1 .. Len(s) : s[i] = x)
               <=> \/ \E i \in 1 .. Len(s0) : s0[i] = x
                   \/ \E j \in 1 .. (n + 1) - 1 : q[j] = x
  <2>1. (\E i \in 1 .. Len(s) : s[i] = x)
               <=> \/ \E i \in 1 .. Len(s0) : s0[i] = x
                   \/ \E j \in 1 .. n - 1 : q[j] = x
    BY <1>2 DEF Merging
  <2>2. q[n] = x => \E i \in 1 .. Len(s) : s[i] = x
    BY <1>3
  <2>3. (\E j \in 1 .. (n + 1) - 1 : q[j] = x)
          <=> (\E j \in 1 .. n - 1 : q[j] = x) \/ q[n] = x
    BY <1>1, OneMore
  <2> QED
    BY <2>1, <2>2, <2>3
<1>5. \A j \in 1 .. (n + 1) - 1 : q[j] < limit
  <2>1. \A j \in 1 .. n - 1 : q[j] < limit
    BY <1>2 DEF Merging
  <2> QED
    BY <1>1, <2>1
<1>6. \A i \in 1 .. d - 1 : n + 1 <= Len(q) => s[i] <= q[n + 1]
  BY <1>1
<1> QED
  BY <1>1, <1>2, <1>4, <1>5, <1>6 DEF Merging


\* Both ways to put the id into the array: push_back() and insert().
LEMMA InsertKeepsMerging ==
    ASSUME NEW s, NEW d, NEW n, NEW s0, NEW q, NEW limit,
           AtElement(s, d, n, s0, q, limit),
           d <= Len(s) => q[n] <= s[d],
           NEW r, Inserted(r, s, d, q[n])
    PROVE  Merging(r, d + 1, n + 1, s0, q, limit)
<1>1. /\ Len(s) \in Nat /\ d \in Nat /\ d \in 1 .. Len(s) + 1
      /\ n \in Nat /\ n >= 1 /\ limit \in Nat /\ n + 1 \in 1 .. Len(q) + 1
      /\ n + 1 <= Len(q) =>
           q[n + 1] \in Nat /\ q[n] <= q[n + 1]
      /\ q[n] \in Nat /\ q[n] < limit
      /\ \A i \in 1 .. Len(s) : s[i] \in Nat
      /\ \A i \in 1 .. d - 1 :
            i \in 1 .. Len(s) /\ s[i] <= q[n] /\ s[i] < limit
  <2>1. ElementOk(s, d, n, q, limit)
    BY ElementFacts
  <2> QED
    BY <2>1 DEF ElementOk
<1>2. Merging(s, d, n, s0, q, limit)
  BY DEF AtElement
<1>3. PICK m \in Nat : m = Len(s)
  BY <1>1
<1>4. /\ \A i \in 1 .. d - 1 : i \in 1 .. m /\ r[i] = s[i]
      /\ r[d] = q[n]
      /\ \A i \in d + 1 .. m + 1 : i - 1 \in d .. m /\ i - 1 \in 1 .. m /\ r[i] = s[i - 1]
      /\ \A i \in 1 .. m + 1 : i \in 1 .. d - 1 \/ i = d \/ i \in d + 1 .. m + 1
  BY <1>1, <1>3 DEF Inserted
<1>5. \A i, j \in 1 .. m : i <= j => s[i] <= s[j]
  BY <1>2, <1>3 DEF Merging
<1>6. \A i \in d .. m : i \in 1 .. m /\ q[n] <= s[i]
  <2> TAKE i \in d .. m
  <2>1. d \in 1 .. m /\ i \in 1 .. m /\ d <= i /\ d <= m
    BY <1>1, <1>3
  <2>2. s[d] \in Nat /\ s[i] \in Nat /\ q[n] \in Nat
    BY <1>1, <1>3, <2>1
  <2>3. s[d] <= s[i] /\ q[n] <= s[d]
    BY <1>3, <1>5, <2>1
  <2> QED
    BY <2>1, <2>2, <2>3
<1>7. ASSUME NEW i \in 1 .. m + 1, NEW j \in 1 .. m + 1, i <= j
      PROVE  r[i] <= r[j]
  <2>1. CASE i \in 1 .. d - 1 /\ j \in 1 .. d - 1
    BY <1>4, <1>5, <1>7, <2>1
  <2>2. CASE i \in 1 .. d - 1 /\ j = d
    BY <1>1, <1>4, <2>2
  <2>3. CASE i \in 1 .. d - 1 /\ j \in d + 1 .. m + 1
    <3>1. i \in 1 .. m /\ j - 1 \in 1 .. m /\ i <= j - 1
      BY <1>1, <1>4, <2>3
    <3> QED
      BY <1>4, <1>5, <2>3, <3>1
  <2>4. CASE i = d /\ j = d
    BY <1>1, <1>4, <2>4
  <2>5. CASE i = d /\ j \in d + 1 .. m + 1
    BY <1>4, <1>6, <2>5
  <2>6. CASE i \in d + 1 .. m + 1 /\ j \in d + 1 .. m + 1
    <3>1. i - 1 \in 1 .. m /\ j - 1 \in 1 .. m /\ i - 1 <= j - 1
      BY <1>1, <1>4, <1>7, <2>6
    <3> QED
      BY <1>4, <1>5, <2>6, <3>1
  <2>7. ~(j < i)
    BY <1>3, <1>7
  <2> QED
    BY <1>1, <1>4, <2>1, <2>2, <2>3, <2>4, <2>5, <2>6, <2>7
<1>8. ASSUME NEW x
      PROVE  (\E i \in 1 .. m + 1 : r[i] = x)
               <=> (\E i \in 1 .. m : s[i] = x) \/ q[n] = x
  <2>1. ASSUME NEW i \in 1 .. m + 1, r[i] = x
        PROVE  (\E k \in 1 .. m : s[k] = x) \/ q[n] = x
    BY <1>4, <2>1
  <2>2. ASSUME NEW i \in 1 .. m, s[i] = x PROVE \E k \in 1 .. m + 1 : r[k] = x
    <3>1. CASE i < d
      <4>1. i \in 1 .. d - 1 /\ i \in 1 .. m + 1
        BY <1>1, <3>1
      <4> QED
        BY <1>4, <2>2, <4>1
    <3>2. CASE ~(i < d)
      <4>1. i + 1 \in d + 1 .. m + 1 /\ i + 1 \in 1 .. m + 1 /\ (i + 1) - 1 = i
        BY <1>1, <3>2
      <4> QED
        BY <1>4, <2>2, <4>1
    <3> QED
      BY <3>1, <3>2
  <2>3. q[n] = x => \E k \in 1 .. m + 1 : r[k] = x
    <3>1. d \in 1 .. m + 1
      BY <1>1, <1>3
    <3> QED
      BY <1>4, <3>1
  <2> QED
    BY <2>1, <2>2, <2>3
<1>9. ASSUME NEW x
      PROVE  (\E i \in 1 .. m + 1 : r[i] = x)
               <=> \/ \E i \in 1 .. Len(s0) : s0[i] = x
                   \/ \E j \in 1 .. (n + 1) - 1 : q[j] = x
  <2>1. (\E i \in 1 .. m : s[i] = x)
               <=> \/ \E i \in 1 .. Len(s0) : s0[i] = x
                   \/ \E j \in 1 .. n - 1 : q[j] = x
    BY <1>2, <1>3 DEF Merging
  <2>2. (\E j \in 1 .. (n + 1) - 1 : q[j] = x)
          <=> (\E j \in 1 .. n - 1 : q[j] = x) \/ q[n] = x
    BY <1>1, OneMore
  <2>3. (\E i \in 1 .. m + 1 : r[i] = x)
          <=> (\E i \in 1 .. m : s[i] = x) \/ q[n] = x
    BY <1>8
  <2> QED
    BY <2>1, <2>2, <2>3
<1>10. \A j \in 1 .. (n + 1) - 1 : q[j] < limit
  <2>1. \A j \in 1 .. n - 1 : q[j] < limit
    BY <1>2 DEF Merging
  <2> QED
    BY <1>1, <2>1
<1>11. \A i \in 1 .. (d + 1) - 1 : r[i] < limit /\ r[i] <= q[n] /\ r[i] \in Nat
  <2> TAKE i \in 1 .. (d + 1) - 1
  <2>1. i \in 1 .. d - 1 \/ i = d
    BY <1>1
  <2> QED
    BY <1>1, <1>4, <2>1
<1>12. \A i \in 1 .. (d + 1) - 1 : n + 1 <= Len(q) => r[i] <= q[n + 1]
  BY <1>1, <1>11
<1>13. d + 1 \in 1 .. (m + 1) + 1 /\ Len(r) = m + 1
  BY <1>1, <1>3 DEF Inserted
<1> QED
  BY <1>1, <1>7, <1>9, <1>10, <1>11, <1>12, <1>13 DEF Merging

\* Appending is inserting behind the last element.
LEMMA PushFacts ==
    ASSUME NEW s \in Seq(Nat), NEW e \in Nat
    PROVE  /\ Append(s, e) \in Seq(Nat)
           /\ Len(Append(s, e)) = Len(s) + 1
           /\ \A i \in 1 .. Len(s) + 1 :
                 Append(s, e)[i] = IF i < Len(s) + 1 THEN s[i] ELSE e
<1>1. /\ Append(s, e) \in Seq(Nat) /\ Len(Append(s, e)) = Len(s) + 1
      /\ \A i \in 1 .. Len(s) : Append(s, e)[i] = s[i]
      /\ Append(s, e)[Len(s) + 1] = e
  BY AppendProperties
<1>2. Len(s) \in Nat
  OBVIOUS
<1>3. \A i \in 1 .. Len(s) + 1 :
         /\ i < Len(s) + 1 => i \in 1 .. Len(s)
         /\ ~(i < Len(s) + 1) => i = Len(s) + 1
  BY <1>2
<1> QED
  BY <1>1, <1>3


-----------------------------------------------------------------------------
(* The invariant. *)

LEMMA AppendInitInv == AppendInit => AppendInv
  BY SnapshotFacts DEF AppendInit, AppendInv, MergeIsAppend

LEMMA SmallerIs ==
    ASSUME NEW a \in Nat, NEW b \in Nat
    PROVE  /\ Smaller(a, b) \in Nat
           /\ \A x \in Nat : x < Smaller(a, b) <=> x < a /\ x < b
  BY DEF Smaller

LEMMA LimitIs ==
    ASSUME AppendInv
    PROVE  /\ Limit \in Nat
           /\ \A x \in Nat :
                 x < Limit <=> x < old.low_limit_id /\ x < other.low_limit_id
  BY SmallerIs DEF AppendInv, WellFormed, Limit

LEMMA LimitsKeepInv ==
    ASSUME AppendInv, append_limits
    PROVE  AppendInv'
<1>1. /\ at = "limits" /\ at' = "loop" /\ other' = other /\ old' = old
      /\ dst' = 1 /\ next' = 1 /\ view = old
      /\ view' = [view EXCEPT
                  !.low_limit_no = Smaller(@, other.low_limit_no),
                  !.low_limit_id = Smaller(@, other.low_limit_id)]
  BY DEF append_limits, AppendInv
<1>2. /\ WellFormed(old) /\ SortedBelow(old.m_ids, old.low_limit_id)
      /\ WellFormed(other) /\ SortedBelow(other.m_ids, other.low_limit_id)
  BY DEF AppendInv
<1>3. view = [low_limit_id |-> view.low_limit_id,
              low_limit_no |-> view.low_limit_no,
              m_ids |-> view.m_ids, up_limit_id |-> view.up_limit_id]
  BY <1>1, <1>2 DEF WellFormed
<1>4. view' = [low_limit_id |-> Limit,
               low_limit_no |-> Smaller(old.low_limit_no, other.low_limit_no),
               m_ids |-> old.m_ids, up_limit_id |-> old.up_limit_id]
  BY <1>1, <1>3 DEF Limit
<1>5. /\ Limit \in Nat /\ Smaller(old.low_limit_no, other.low_limit_no) \in Nat
      /\ old.m_ids \in Seq(Nat) /\ old.up_limit_id \in Nat
  BY <1>2, LimitIs, SmallerIs DEF WellFormed
<1>6. WellFormed(view')
  BY <1>4, <1>5 DEF WellFormed
<1>7. Limit' = Limit
  BY <1>1 DEF Limit
<1>8. Len(old.m_ids) \in Nat /\ Len(other.m_ids) \in Nat
  BY <1>2 DEF WellFormed
<1>9. Merging(old.m_ids, 1, 1, old.m_ids, other.m_ids, Limit)
  <2>1. /\ 1 \in 1 .. Len(old.m_ids) + 1 /\ 1 \in 1 .. Len(other.m_ids) + 1
        /\ 1 .. 1 - 1 = {}
    BY <1>8
  <2> QED
    BY <1>2, <2>1 DEF Merging, SortedBelow
<1>10. /\ view'.low_limit_id = Limit /\ view'.m_ids = old.m_ids
       /\ view'.low_limit_no = Smaller(old.low_limit_no, other.low_limit_no)
  BY <1>4
<1> QED
  BY <1>1, <1>2, <1>6, <1>7, <1>9, <1>10 DEF AppendInv, MergeIsAppend

\* Only the array of the view changes in the loop.
LEMMA LoopStepKeepsInv ==
    ASSUME AppendInv, at = "loop", at' = "loop", other' = other, old' = old,
           NEW r, view' = [view EXCEPT !.m_ids = r], r \in Seq(Nat),
           Merging(r, dst', next', old.m_ids, other.m_ids, Limit)
    PROVE  AppendInv'
<1>1. view' = [low_limit_id |-> view.low_limit_id,
               low_limit_no |-> view.low_limit_no,
               m_ids |-> r, up_limit_id |-> view.up_limit_id]
  BY DEF AppendInv, WellFormed
<1>2. WellFormed(view')
  BY <1>1 DEF AppendInv, WellFormed
<1>3. Limit' = Limit
  BY DEF Limit
<1> QED
  BY <1>1, <1>2, <1>3 DEF AppendInv, MergeIsAppend

LEMMA LoopKeepsInv ==
    ASSUME AppendInv, append_loop
    PROVE  AppendInv'
<1> DEFINE m == view.m_ids
           q == other.m_ids
<1>1. at = "loop" /\ other' = other /\ old' = old
  BY DEF append_loop
<1>2. /\ m \in Seq(Nat) /\ q \in Seq(Nat) /\ Limit \in Nat
      /\ \A i, j \in 1 .. Len(q) : i <= j => q[i] <= q[j]
      /\ Merging(m, dst, next, old.m_ids, q, Limit)
      /\ view.low_limit_id = Limit
  BY <1>1, LimitIs DEF AppendInv, WellFormed, SortedBelow
<1>3. /\ Len(q) \in Nat /\ Len(m) \in Nat
      /\ next \in 1 .. Len(q) + 1 /\ dst \in 1 .. Len(m) + 1
  BY <1>2 DEF Merging
<1>4. \A i \in 1 .. Len(q) : q[i] \in Nat
  BY <1>2
<1>5. CASE next > Len(q) \/ q[next] >= Limit
  <2>1. at' = "erase" /\ UNCHANGED <<view, dst, next>>
    BY <1>1, <1>2, <1>5 DEF append_loop
  <2>2. next <= Len(q) => q[next] >= Limit
    BY <1>3, <1>5
  <2>3. Limit' = Limit
    BY <1>1 DEF Limit
  <2> QED
    BY <1>1, <2>1, <2>2, <2>3 DEF AppendInv, MergeIsAppend
<1>6. CASE ~(next > Len(q) \/ q[next] >= Limit)
  <2>1. next <= Len(q) /\ next \in 1 .. Len(q)
    BY <1>3, <1>6
  <2>2. q[next] \in Nat /\ q[next] < Limit
    BY <1>2, <1>4, <1>6, <2>1
  <2>3. AtElement(m, dst, next, old.m_ids, q, Limit)
    BY <1>2, <2>1, <2>2 DEF AtElement
  <2>4. at' = "loop"
    BY <1>1, <1>2, <1>6 DEF append_loop
  <2>5. view = [view EXCEPT !.m_ids = m]
    BY DEF AppendInv, WellFormed
  <2>6. CASE dst > Len(m)
    <3>1. /\ view' = [view EXCEPT !.m_ids = Append(m, q[next])]
          /\ dst' = Len(m) + 2 /\ next' = next + 1
      BY <1>1, <1>2, <1>6, <2>6 DEF append_loop
    <3>2. dst = Len(m) + 1 /\ dst' = dst + 1
      BY <1>3, <2>6, <3>1
    <3>3. PICK r : r = Append(m, q[next])
      OBVIOUS
    <3>4. /\ r \in Seq(Nat) /\ Len(r) = Len(m) + 1
          /\ \A i \in 1 .. Len(m) + 1 :
               r[i] = IF i < Len(m) + 1 THEN m[i] ELSE q[next]
      BY <1>2, <2>2, <3>3, PushFacts
    <3>5. \A i \in 1 .. Len(m) + 1 :
             r[i] = IF i < dst THEN m[i]
                    ELSE IF i = dst THEN q[next] ELSE m[i - 1]
      <4> TAKE i \in 1 .. Len(m) + 1
      <4>1. i < dst \/ i = dst
        BY <1>3, <3>2
      <4> QED
        BY <1>3, <3>2, <3>4, <4>1
    <3>6. ~(dst <= Len(m))
      BY <1>3, <2>6
    <3>7. Inserted(r, m, dst, q[next])
      BY <3>4, <3>5 DEF Inserted
    <3>8. Merging(r, dst + 1, next + 1, old.m_ids, q, Limit)
      BY <2>3, <3>6, <3>7, InsertKeepsMerging
    <3> QED
      BY <1>1, <2>4, <3>1, <3>2, <3>3, <3>4, <3>8, LoopStepKeepsInv
  <2>7. CASE dst <= Len(m) /\ m[dst] < q[next]
    <3>1. dst' = dst + 1 /\ UNCHANGED <<view, next>>
      BY <1>1, <1>2, <1>3, <1>6, <2>7 DEF append_loop
    <3>2. Merging(m, dst + 1, next, old.m_ids, q, Limit)
      BY <2>3, <2>7, SkipKeepsMerging
    <3>3. /\ Merging(m, dst', next', old.m_ids, q, Limit)
          /\ view' = [view EXCEPT !.m_ids = m]
      BY <2>5, <3>1, <3>2
    <3> QED
      BY <1>1, <1>2, <2>4, <3>3, LoopStepKeepsInv
  <2>8. CASE dst <= Len(m) /\ m[dst] > q[next]
    <3>1. dst \in 1 .. Len(m) /\ m[dst] \in Nat
      <4>1. dst \in 1 .. Len(m)
        BY <1>3, <2>8
      <4> HIDE DEF m
      <4> QED
        BY <1>2, <4>1, ElementOfSeq
    <3>2. ~(dst > Len(m)) /\ ~(m[dst] < q[next]) /\ q[next] <= m[dst]
      BY <1>3, <2>2, <2>8, <3>1
    <3>3. /\ view' = [view EXCEPT !.m_ids = InsertAt(m, dst, q[next])]
          /\ dst' = dst + 1 /\ next' = next + 1
      BY <1>1, <1>2, <1>6, <2>8, <3>2 DEF append_loop
    <3>4. PICK r : r = InsertAt(m, dst, q[next])
      OBVIOUS
    <3>5. Inserted(r, m, dst, q[next])
      BY <1>2, <2>2, <3>1, <3>4, InsertFacts
    <3>6. Merging(r, dst + 1, next + 1, old.m_ids, q, Limit)
      BY <2>3, <3>2, <3>5, InsertKeepsMerging
    <3>7. r \in Seq(Nat)
      BY <3>5 DEF Inserted
    <3> QED
      BY <1>1, <2>4, <3>3, <3>4, <3>6, <3>7, LoopStepKeepsInv
  <2>9. CASE dst <= Len(m) /\ m[dst] = q[next]
    <3>1. ~(dst > Len(m)) /\ ~(m[dst] < q[next]) /\ ~(m[dst] > q[next])
      BY <1>3, <2>2, <2>9
    <3>2. next' = next + 1 /\ UNCHANGED <<view, dst>>
      BY <1>1, <1>2, <1>6, <3>1 DEF append_loop
    <3>3. Merging(m, dst, next + 1, old.m_ids, q, Limit)
      BY <2>3, <2>9, EqualKeepsMerging
    <3>4. /\ Merging(m, dst', next', old.m_ids, q, Limit)
          /\ view' = [view EXCEPT !.m_ids = m]
      BY <2>5, <3>2, <3>3
    <3> QED
      BY <1>1, <1>2, <2>4, <3>4, LoopStepKeepsInv
  <2>10. /\ dst > Len(m) \/ dst <= Len(m)
         /\ dst <= Len(m) => \/ m[dst] < q[next]
                             \/ m[dst] > q[next]
                             \/ m[dst] = q[next]
    <3>1. dst <= Len(m) => dst \in 1 .. Len(m)
      BY <1>3
    <3>2. dst <= Len(m) => m[dst] \in Nat
      BY <1>2, <3>1, ElementOfSeq
    <3> QED
      BY <1>3, <2>2, <3>2
  <2> QED
    BY <2>6, <2>7, <2>8, <2>9, <2>10
<1> QED
  BY <1>5, <1>6


\* The result of erase(), as append_erase writes it, and what it is meant to be.
Erased(s, d, limit) ==
    SubSeq(s, 1, Cardinality({i \in DOMAIN s : i < d \/ s[i] < limit}))

Below(r, s, limit) ==
    /\ r \in Seq(Nat)
    /\ \A i, j \in 1 .. Len(r) : i <= j => r[i] <= r[j]
    /\ \A x : (\E i \in 1 .. Len(r) : r[i] = x)
                <=> x < limit /\ \E i \in 1 .. Len(s) : s[i] = x

\* What erase() keeps of a sorted array: the part below the limit, which
\* includes all that is before the cursor.
LEMMA KeptFacts ==
    ASSUME NEW s \in Seq(Nat), NEW d, NEW limit \in Nat,
           \A i, j \in 1 .. Len(s) : i <= j => s[i] <= s[j],
           \A i \in 1 .. d - 1 : s[i] < limit,
           d \in Nat
    PROVE  Below(Erased(s, d, limit), s, limit)
<1>1. PICK n \in Nat : n = Len(s)
  OBVIOUS
<1>2. DOMAIN s = 1 .. n /\ \A i \in 1 .. n : s[i] \in Nat
  BY <1>1
<1> DEFINE T == {i \in 1 .. n + 1 : i = n + 1 \/ s[i] >= limit}
<1>3. T \in SUBSET Nat /\ T # {}
  <2>1. n + 1 \in T
    BY <1>1
  <2> QED
    BY <1>1, <2>1
<1>4. PICK t \in T : \A k \in T : t <= k
  <2> HIDE DEF T
  <2> QED
    BY <1>3, LeastNat
<1>5. t \in 1 .. n + 1 /\ t \in Nat /\ t >= 1 /\ (t = n + 1 \/ s[t] >= limit)
  BY <1>4
<1>6. PICK k \in Nat : t = k + 1 /\ k <= n
  <2>1. t - 1 \in Nat /\ t = (t - 1) + 1 /\ t - 1 <= n
    BY <1>5
  <2> QED
    BY <2>1
<1>7. ASSUME NEW i \in 1 .. n PROVE i \in 1 .. k <=> s[i] < limit
  <2>1. i \in Nat /\ s[i] \in Nat
    BY <1>2
  <2>2. CASE i <= k
    <3>1. ~(t <= i) /\ i \in 1 .. n + 1 /\ i # n + 1
      BY <1>6, <2>1, <2>2
    <3>2. i \notin T
      <4> HIDE DEF T
      <4> QED
        BY <1>4, <3>1
    <3>3. ~(s[i] >= limit)
      BY <3>1, <3>2
    <3> QED
      BY <2>1, <2>2, <3>3
  <2>3. CASE ~(i <= k)
    <3>1. t <= i /\ t \in 1 .. n /\ t # n + 1
      BY <1>5, <1>6, <2>1, <2>3
    <3>2. s[t] <= s[i] /\ s[t] \in Nat /\ s[t] >= limit
      BY <1>1, <1>2, <1>5, <3>1
    <3> QED
      BY <2>1, <2>3, <3>2
  <2> QED
    BY <2>2, <2>3
<1> HIDE DEF T
<1> DEFINE keep == {i \in DOMAIN s : i < d \/ s[i] < limit}
<1>8. ASSUME NEW i PROVE i \in keep <=> i \in 1 .. k
  <2>1. CASE i \in 1 .. n
    <3>1. i < d => i \in 1 .. d - 1
      BY <2>1
    <3>2. i < d => s[i] < limit
      BY <3>1
    <3> QED
      BY <1>2, <1>7, <2>1, <3>2
  <2>2. CASE i \notin 1 .. n
    BY <1>2, <1>6, <2>2
  <2> QED
    BY <2>1, <2>2
<1>9. keep = 1 .. k
  <2> HIDE DEF keep
  <2> QED
    BY <1>8
<1>10. Cardinality(keep) = k
  <2> HIDE DEF keep
  <2>1. 1 \in Int /\ k \in Int
    BY <1>6
  <2>2. Cardinality(1 .. k) = IF 1 > k THEN 0 ELSE k - 1 + 1
    BY <2>1, FS_Interval
  <2>3. (IF 1 > k THEN 0 ELSE k - 1 + 1) = k
    BY <1>6
  <2> QED
    BY <1>9, <2>2, <2>3
<1>11. PICK r : r = SubSeq(s, 1, k)
  OBVIOUS
<1>12. r \in Seq(Nat) /\ Len(r) = k /\ \A i \in 1 .. k : r[i] = s[i]
  BY <1>1, <1>6, <1>11
<1>13. \A i \in 1 .. k : i \in 1 .. n
  BY <1>6
<1>14. \A i, j \in 1 .. k : i <= j => r[i] <= r[j]
  BY <1>1, <1>12, <1>13
<1>15. ASSUME NEW x
       PROVE  (\E i \in 1 .. k : r[i] = x)
                <=> x < limit /\ \E i \in 1 .. n : s[i] = x
  BY <1>7, <1>12, <1>13
<1>16. Below(r, s, limit)
  BY <1>1, <1>12, <1>14, <1>15 DEF Below
<1>17. r = Erased(s, d, limit)
  BY <1>10, <1>11 DEF Erased
<1> QED
  BY <1>16, <1>17

LEMMA EraseKeepsInv ==
    ASSUME AppendInv, append_erase
    PROVE  AppendInv'
<1>1. PICK m, q, s0, L, n, d :
        /\ m = view.m_ids /\ q = other.m_ids /\ s0 = old.m_ids /\ L = Limit
        /\ n = next /\ d = dst
  OBVIOUS
<1>2. at = "erase" /\ at' = "done" /\ other' = other /\ old' = old
  BY DEF append_erase
<1>3. /\ m \in Seq(Nat) /\ q \in Seq(Nat) /\ L \in Nat
      /\ view.low_limit_id = L
      /\ view.low_limit_no = Smaller(old.low_limit_no, other.low_limit_no)
      /\ Merging(m, d, n, s0, q, L)
      /\ n <= Len(q) => q[n] >= L
      /\ \A i, j \in 1 .. Len(q) : i <= j => q[i] <= q[j]
  BY <1>1, <1>2, LimitIs DEF AppendInv, WellFormed, SortedBelow
<1>4. /\ \A i, j \in 1 .. Len(m) : i <= j => m[i] <= m[j]
      /\ \A i \in 1 .. d - 1 : m[i] < L
      /\ d \in Nat /\ n \in Nat /\ n >= 1 /\ Len(q) \in Nat /\ n <= Len(q) + 1
      /\ \A j \in 1 .. Len(q) : q[j] \in Nat
  BY <1>3 DEF Merging
<1>5. PICK r : r = Erased(m, d, L)
  OBVIOUS
<1>6. /\ r \in Seq(Nat)
      /\ \A i, j \in 1 .. Len(r) : i <= j => r[i] <= r[j]
      /\ \A x : (\E i \in 1 .. Len(r) : r[i] = x)
                  <=> x < L /\ \E i \in 1 .. Len(m) : m[i] = x
  <2>1. Below(Erased(m, d, L), m, L)
    BY <1>3, <1>4, KeptFacts
  <2> QED
    BY <1>5, <2>1 DEF Below
<1>7. view' = [view EXCEPT !.m_ids = r, !.up_limit_id = UpLimit(r, L)]
  BY <1>1, <1>3, <1>5 DEF append_erase, Erased
<1>8. view' = [low_limit_id |-> L, low_limit_no |-> view.low_limit_no,
               m_ids |-> r, up_limit_id |-> UpLimit(r, L)]
  BY <1>3, <1>7 DEF AppendInv, WellFormed
<1>9. /\ view'.low_limit_id = L /\ view'.m_ids = r
      /\ view'.low_limit_no = Smaller(old.low_limit_no, other.low_limit_no)
      /\ view'.up_limit_id = UpLimit(r, L)
  BY <1>3, <1>8
<1>10. ASSUME NEW x \in Nat
       PROVE  (\E i \in 1 .. Len(r) : r[i] = x)
                <=> /\ x < L
                    /\ \/ \E i \in 1 .. Len(s0) : s0[i] = x
                       \/ \E j \in 1 .. Len(q) : q[j] = x
  <2>1. (\E i \in 1 .. Len(m) : m[i] = x)
          <=> \/ \E i \in 1 .. Len(s0) : s0[i] = x
              \/ \E j \in 1 .. n - 1 : q[j] = x
    BY <1>3 DEF Merging
  <2>2. ASSUME NEW j \in 1 .. Len(q), q[j] = x, x < L PROVE j \in 1 .. n - 1
    <3>1. CASE n <= j
      <4>1. n \in 1 .. Len(q) /\ n <= Len(q)
        BY <1>4, <3>1
      <4>2. q[n] <= q[j] /\ q[n] >= L /\ q[n] \in Nat
        BY <1>3, <1>4, <3>1, <4>1
      <4> QED
        BY <1>3, <2>2, <4>2
    <3>2. CASE ~(n <= j)
      BY <1>4, <3>2
    <3> QED
      BY <3>1, <3>2
  <2>3. \A j \in 1 .. n - 1 : j \in 1 .. Len(q)
    BY <1>4
  <2>4. x < L => ((\E j \in 1 .. n - 1 : q[j] = x)
                    <=> (\E j \in 1 .. Len(q) : q[j] = x))
    BY <2>2, <2>3
  <2>5. (\E i \in 1 .. Len(r) : r[i] = x)
          <=> x < L /\ \E i \in 1 .. Len(m) : m[i] = x
    BY <1>6
  <2> QED
    BY <2>1, <2>4, <2>5
<1>11. s0 \in Seq(Nat)
  BY <1>1 DEF AppendInv, WellFormed
<1>12. ToSet(r) = {x \in ToSet(s0) \cup ToSet(q) : x < L}
  <2>1. /\ ToSet(r) = {r[i] : i \in 1 .. Len(r)}
        /\ ToSet(s0) = {s0[i] : i \in 1 .. Len(s0)}
        /\ ToSet(q) = {q[i] : i \in 1 .. Len(q)}
    <3>1. r \in Seq(Nat) /\ s0 \in Seq(Nat) /\ q \in Seq(Nat)
      BY <1>3, <1>6, <1>11
    <3>2. /\ DOMAIN r = 1 .. Len(r) /\ DOMAIN s0 = 1 .. Len(s0)
          /\ DOMAIN q = 1 .. Len(q)
      BY <3>1
    <3> QED
      BY <3>2 DEF ToSet
  <2>2. \A x \in ToSet(r) \cup ToSet(s0) \cup ToSet(q) : x \in Nat
    BY <1>3, <1>6, <1>11, <2>1
  <2>3. ASSUME NEW x \in Nat
        PROVE  x \in ToSet(r) <=> x < L /\ (x \in ToSet(s0) \/ x \in ToSet(q))
    <3>1. /\ x \in ToSet(r) <=> \E i \in 1 .. Len(r) : r[i] = x
          /\ x \in ToSet(s0) <=> \E i \in 1 .. Len(s0) : s0[i] = x
          /\ x \in ToSet(q) <=> \E i \in 1 .. Len(q) : q[i] = x
      BY <2>1
    <3> QED
      BY <1>10, <3>1
  <2> QED
    BY <2>2, <2>3
<1>13. AsView(view') = append(AsView(old), AsView(other))
  BY <1>1, <1>9, <1>12 DEF AsView, append, Limit
<1>14. Ascending(r)
  BY <1>6, SortedIsAscending
<1>15. UpLimit(r, L) = up_limit_id(AsView(view'))
  <2>1. PICK v : v = view'
    OBVIOUS
  <2>2. v.m_ids = r /\ v.low_limit_id = L
    BY <1>9, <2>1
  <2>3. UpLimit(v.m_ids, v.low_limit_id) = up_limit_id(AsView(v))
    BY <1>6, <2>2, UpLimitIs
  <2> QED
    BY <2>1, <2>2, <2>3
<1>16. MergeIsAppend'
  BY <1>2, <1>9, <1>13, <1>14, <1>15 DEF MergeIsAppend
<1>17. WellFormed(view')
  <2>1. UpLimit(r, L) \in Nat
    <3>1. r # <<>> => r[1] \in Nat
      BY <1>6, EmptySeq, LenProperties
    <3> QED
      BY <1>3, <3>1 DEF UpLimit
  <2>2. view.low_limit_no \in Nat
    BY DEF AppendInv, WellFormed
  <2> QED
    BY <1>3, <1>6, <1>8, <2>1, <2>2 DEF WellFormed
<1> QED
  BY <1>2, <1>16, <1>17 DEF AppendInv

\* The loop invariant of append() holds at each of its steps: what is merged
\* so far is sorted and complete, for views of any size.
THEOREM AppendInvariant == AppendSpec => []AppendInv
<1>1. AppendInv /\ [AppendNext]_appendvars => AppendInv'
  <2> SUFFICES ASSUME AppendInv, [AppendNext]_appendvars PROVE AppendInv'
    OBVIOUS
  <2>1. CASE append_limits
    BY <2>1, LimitsKeepInv
  <2>2. CASE append_loop
    BY <2>2, LoopKeepsInv
  <2>3. CASE append_erase
    BY <2>3, EraseKeepsInv
  <2>4. CASE UNCHANGED appendvars
    BY <2>4 DEF appendvars, AppendInv, MergeIsAppend, Limit
  <2> QED
    BY <2>1, <2>2, <2>3, <2>4 DEF AppendNext
<1> QED
  BY <1>1, AppendInitInv, PTL DEF AppendSpec

\* The array merge of append() computes the oldest view on sets, leaves a
\* sorted array and the right m_up_limit_id.
THEOREM AppendIsMerge == AppendSpec => []MergeIsAppend
<1>1. AppendInv => MergeIsAppend
  BY DEF AppendInv
<1> QED
  BY <1>1, AppendInvariant, PTL

\* The view append() leaves sees exactly the transactions both views see.
THEOREM AppendSeesWhatBothSee == AppendSpec => []SeesWhatBothSee
<1>1. AppendInv => SeesWhatBothSee
  <2> SUFFICES ASSUME AppendInv, at = "done", NEW id \in 0 .. MaxId + 2
               PROVE  changes_visible(AsView(view), id)
                        <=> /\ changes_visible(AsView(old), id)
                            /\ changes_visible(AsView(other), id)
    BY DEF SeesWhatBothSee
  <2>1. id \in Nat
    BY AppendAssumption
  <2>2. PICK v, o, w : v = AsView(view) /\ o = AsView(old) /\ w = AsView(other)
    OBVIOUS
  <2>3. /\ o.low_limit_id \in Nat /\ o.ids \in SUBSET Nat
        /\ w.low_limit_id \in Nat /\ w.ids \in SUBSET Nat
        /\ v.low_limit_id \in Nat /\ v.ids \in SUBSET Nat
    <3>1. ASSUME NEW x, WellFormed(x)
          PROVE  /\ AsView(x).low_limit_id \in Nat
                 /\ AsView(x).ids \in SUBSET Nat
      <4>1. x.low_limit_id \in Nat /\ \A i \in DOMAIN x.m_ids : x.m_ids[i] \in Nat
        BY <3>1 DEF WellFormed
      <4> QED
        BY <4>1 DEF AsView, ToSet
    <3> QED
      BY <2>2, <3>1 DEF AppendInv
  <2>4. v = append(o, w)
    BY <2>2 DEF AppendInv, MergeIsAppend
  <2>5. /\ v.low_limit_id = Smaller(o.low_limit_id, w.low_limit_id)
        /\ v.ids = {i \in o.ids \cup w.ids : i < v.low_limit_id}
    BY <2>4 DEF append
  <2>6. id < v.low_limit_id <=> id < o.low_limit_id /\ id < w.low_limit_id
    BY <2>1, <2>3, <2>5, SmallerIs
  <2>7. /\ changes_visible(v, id) <=> id < v.low_limit_id /\ id \notin v.ids
        /\ changes_visible(o, id) <=> id < o.low_limit_id /\ id \notin o.ids
        /\ changes_visible(w, id) <=> id < w.low_limit_id /\ id \notin w.ids
    BY <2>1, <2>3, VisibleIs
  <2> QED
    BY <2>2, <2>5, <2>6, <2>7
<1> QED
  BY <1>1, AppendInvariant, PTL
=============================================================================
