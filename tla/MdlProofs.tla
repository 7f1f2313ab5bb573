------------------------------ MODULE MdlProofs ------------------------------
(***************************************************************************)
(* Proofs about the metadata locks for any number of sessions, objects and *)
(* calls.                                                                  *)
(*                                                                         *)
(* The argument.  Tickets are counted.  A context is in the waiting list   *)
(* of k with one ticket while it waits for k and its slot does not say     *)
(* GRANTED, else with none; the granted list has as many tickets of it as  *)
(* it holds, and one more between the grant and the moment when it takes   *)
(* it (ListOk).  reschedule_waiters() moves a ticket and sets the slot in  *)
(* one step, so it moves one term of the equation into another.  Counters  *)
(* and bitmaps agree with their list (Good) because every ticket that is   *)
(* removed is in the list it is removed from: for Merge because the old    *)
(* ticket is still held (CallOk), for Withdraw because the slot does not   *)
(* say GRANTED.  It may say so if acquire_lock() left it open, and then    *)
(* the ticket is taken off the wrong list: all is shown up to the first    *)
(* such step (NoneOvertaken).                                              *)
(* A lock is granted against a list without conflicts only if nothing in   *)
(* it is in the way, or if its context holds a stronger one there.         *)
(*                                                                         *)
(* That no grant is missed is a second invariant on top of this one; its   *)
(* argument is at its place below.                                         *)
(***************************************************************************)
EXTENDS Mdl, FiniteSetTheorems, SequenceTheorems, FunctionTheorems,
        WellFoundedInduction, TLAPS

\* a request, also what MDL_context keeps of a ticket it holds
Reqs == [key : Keys, type : Types, dur : {"TRANSACTION", "EXPLICIT"}]
\* what MDL_lock keeps of a ticket
Tickets == [ctx : Ctx, type : Types]
TicketList == [list : Seq(Tickets), count : [Types -> Nat], bitmap : SUBSET Types]
Calls == [kind : {"none", "acquire", "locks", "upgrade"}, more : Seq(Keys),
          svp : Nat, old : Reqs \cup {NONE}]
Statuses == {"EMPTY", "GRANTED", "VICTIM", "TIMEOUT", "KILLED"}
Results == Statuses \cup {"DISCONNECT"}
\* from the queueing of a ticket to its end
Waiting == {"added", "detect", "victim", "wait", "woken", "withdraw"}
Labels == Waiting \cup {"run", "more", "merge", "rollback", "release", "end"}

MdlTypes ==
    /\ m_granted \in [Keys -> TicketList] /\ m_waiting \in [Keys -> TicketList]
    /\ m_tickets \in [Ctx -> Seq(Reqs)]
    /\ m_wait \in [Ctx -> Statuses] /\ result \in [Ctx -> Results]
    /\ pc \in [Ctx -> Labels]
    /\ cur \in [Ctx -> Reqs \cup {NoRequest}] /\ call \in [Ctx -> Calls]

\* how many elements of s are in S, how often x is in s
Occ(s, S) == Cardinality({i \in DOMAIN s : s[i] \in S})
OfType(t) == {x \in Tickets : x.type = t}
OfLock(k, t) == {r \in Reqs : r.key = k /\ r.type = t}
Mult(s, x) == Occ(s, {x})

\* counters and bitmap say what is in the list
Agrees(tl) ==
    \A t \in Types : /\ tl.count[t] = Occ(tl.list, OfType(t))
                     /\ t \in tl.bitmap <=> tl.count[t] > 0
Good(tl) == tl \in TicketList /\ Agrees(tl)

WaitsIn(c, k, t) == pc[c] \in Waiting /\ cur[c].key = k /\ cur[c].type = t
PendingIn(c, k, t) == IF WaitsIn(c, k, t) /\ m_wait[c] # "GRANTED" THEN 1 ELSE 0
OnItsWay(c, k, t) == IF WaitsIn(c, k, t) /\ m_wait[c] = "GRANTED" THEN 1 ELSE 0

\* every ticket in the lists of k is accounted for, and every one due is there
ListOk(k) ==
    /\ Good(m_granted[k]) /\ Good(m_waiting[k])
    /\ \A c \in Ctx, t \in Types :
          /\ Mult(m_waiting[k].list, Ticket(c, t)) = PendingIn(c, k, t)
          /\ Mult(m_granted[k].list, Ticket(c, t)) =
                 Occ(m_tickets[c], OfLock(k, t)) + OnItsWay(c, k, t)

HasIt(s, r) == \E i \in DOMAIN s : s[i] = r
Stronger(s, r) == \E i \in DOMAIN s :
    s[i].key = r.key /\ has_stronger_or_equal_type(Namespace[r.key], s[i].type, r.type)

\* an upgrade that waits still holds the old ticket and has got no other
UpgradeOk(s, r, cl) ==
    cl.kind = "upgrade" => /\ cl.old \in Reqs /\ cl.old.key = r.key
                           /\ Len(s) = cl.svp /\ HasIt(s, cl.old)
\* one that has been granted has the new type: it was held, or is in front
MergeOk(s, r, cl) ==
    /\ cl.old \in Reqs /\ cl.old.key = r.key
    /\ \/ Len(s) = cl.svp /\ HasIt(s, cl.old) /\ Stronger(s, r)
       \/ Len(s) = cl.svp + 1 /\ Head(s) = r /\ HasIt(Tail(s), cl.old)

\* what a wait that has ended with r knows of its slot w
Told(r, w) == r # "EMPTY" /\ (r # "DISCONNECT" => w = r)
\* the locals of a call; a slot that has been closed does not change any more
CallOk(c) ==
    /\ pc[c] \in Waiting \cup {"merge"} => cur[c] \in Reqs
    /\ pc[c] = "woken" => Told(result[c], m_wait[c])
    /\ pc[c] = "withdraw" => Told(result[c], m_wait[c]) /\ result[c] # "GRANTED"
    /\ pc[c] = "more" => call[c].more # <<>> /\ call[c].kind # "upgrade"
    /\ call[c].more # <<>> => "X" \in Types
    /\ pc[c] \in Waiting => UpgradeOk(m_tickets[c], cur[c], call[c])
    /\ pc[c] = "merge" => MergeOk(m_tickets[c], cur[c], call[c])

Compatible(k, x, y) ==
    x.ctx # y.ctx => x.type \notin Incompatible(k, y.type) \/ y.type \notin Incompatible(k, x.type)
NoConflict(k, s) == \A x, y \in Tickets :
    Mult(s, x) > 0 /\ Mult(s, y) > 0 => Compatible(k, x, y)
NoConflicts == \A k \in Keys : NoConflict(k, m_granted[k].list)

\* A weaker type than one that is held conflicts with nothing that the held one
\* does not conflict with.  True of schemas and tables, not of BACKUP.
Clash(k, t, u) == t \in Incompatible(k, u) /\ u \in Incompatible(k, t)
Clonable ==
    \A k \in Keys : \A held, t, u \in Types :
        has_stronger_or_equal_type(Namespace[k], held, t) /\ Clash(k, t, u) => Clash(k, held, u)

\* the inductive invariant
MdlInv ==
    /\ MdlTypes
    /\ \A k \in Keys : ListOk(k)
    /\ \A c \in Ctx : CallOk(c)
    /\ Clonable => NoConflicts

-----------------------------------------------------------------------------
(* Counting the elements of a sequence *)

\* A nonempty set of natural numbers has a least element.
LEMMA LeastNat ==
    ASSUME NEW T \in SUBSET Nat, T # {}
    PROVE  \E x \in T : \A y \in T : x <= y
<1> DEFINE R == OpToRel(<, Nat)
<1>1. IsWellFoundedOn(R, Nat)
  BY NatLessThanWellFounded
<1>2. PICK x \in T : \A y \in T : ~(<<y, x>> \in R)
  <2> HIDE DEF R
  <2> QED
    BY <1>1, WFMin
<1>3. \A y \in T : ~(y < x)
  BY <1>2 DEF OpToRel
<1> QED
  BY <1>3

Places(s, S) == {i \in DOMAIN s : s[i] \in S}
In(x, S) == IF x \in S THEN 1 ELSE 0

\* The places of a sequence whose element is in S are finitely many.
LEMMA PlacesFinite ==
    ASSUME NEW X, NEW s \in Seq(X), NEW S
    PROVE  /\ IsFiniteSet(Places(s, S))
           /\ Occ(s, S) = Cardinality(Places(s, S))
           /\ Places(s, S) = {i \in 1 .. Len(s) : s[i] \in S}
<1>1. DOMAIN s = 1 .. Len(s) /\ Len(s) \in Nat
  BY LenProperties
<1>2. IsFiniteSet(1 .. Len(s))
  BY <1>1, FS_Interval
<1>3. Places(s, S) \subseteq 1 .. Len(s)
  BY <1>1 DEF Places
<1>4. IsFiniteSet(Places(s, S))
  BY <1>2, <1>3, FS_Subset
<1> QED
  BY <1>1, <1>4 DEF Occ, Places

\* A count is a natural number, positive iff an element is there.
LEMMA OccFacts ==
    ASSUME NEW X, NEW s \in Seq(X), NEW S
    PROVE  /\ Occ(s, S) \in Nat /\ Occ(s, S) <= Len(s)
           /\ Occ(s, S) > 0 <=> \E i \in 1 .. Len(s) : s[i] \in S
           /\ Occ(s, S) = 1 => \A i, j \in 1 .. Len(s) :
                                  s[i] \in S /\ s[j] \in S => i = j
<1>1. /\ IsFiniteSet(Places(s, S))
      /\ Occ(s, S) = Cardinality(Places(s, S))
      /\ Places(s, S) = {i \in 1 .. Len(s) : s[i] \in S}
  BY PlacesFinite
<1>2. Occ(s, S) \in Nat
  BY <1>1, FS_CardinalityType
<1>3. Occ(s, S) = 0 <=> Places(s, S) = {}
  BY <1>1, FS_EmptySet
<1>4. Occ(s, S) = 1 => \E i : Places(s, S) = {i}
  BY <1>1, FS_Singleton
<1>5. Occ(s, S) <= Len(s)
  <2>1. Len(s) \in Nat
    BY LenProperties
  <2>2. PICK n \in Nat : n = Len(s)
    BY <2>1
  <2>3. /\ IsFiniteSet(1 .. n)
        /\ Cardinality(1 .. n) = IF 1 > n THEN 0 ELSE n - 1 + 1
    BY FS_Interval
  <2>4. (IF 1 > n THEN 0 ELSE n - 1 + 1) = n
    OBVIOUS
  <2>5. Places(s, S) \subseteq 1 .. n
    BY <1>1, <2>2
  <2>6. Cardinality(Places(s, S)) <= Cardinality(1 .. n)
    BY <2>3, <2>5, FS_Subset
  <2> QED
    BY <1>1, <2>2, <2>3, <2>4, <2>6
<1>6. Occ(s, S) > 0 <=> \E i \in 1 .. Len(s) : s[i] \in S
  <2>1. Places(s, S) # {} <=> \E i \in 1 .. Len(s) : s[i] \in S
    BY <1>1
  <2> QED
    BY <1>2, <1>3, <2>1
<1>7. ASSUME Occ(s, S) = 1, NEW i \in 1 .. Len(s), NEW j \in 1 .. Len(s),
             s[i] \in S, s[j] \in S
      PROVE  i = j
  <2>1. i \in Places(s, S) /\ j \in Places(s, S)
    BY <1>1, <1>7
  <2> QED
    BY <1>4, <1>7, <2>1
<1> QED
  BY <1>2, <1>5, <1>6, <1>7

\* t is s with one more element, at place p.
Longer(s, p, t) ==
    /\ Len(t) = Len(s) + 1 /\ p \in 1 .. Len(t)
    /\ \A i \in 1 .. Len(s) : t[IF i < p THEN i ELSE i + 1] = s[i]

\* One more element, one more count: the places after p are shifted by one.
LEMMA OccLonger ==
    ASSUME NEW X, NEW s \in Seq(X), NEW t \in Seq(X), NEW p, Longer(s, p, t), NEW S
    PROVE  Occ(t, S) = Occ(s, S) + In(t[p], S)
<1>0. Len(s) \in Nat /\ Len(t) \in Nat
  BY LenProperties
<1> DEFINE A == Places(s, S)
           B == Places(t, S) \ {p}
           f == [i \in A |-> IF i < p THEN i ELSE i + 1]
<1>1. A = {i \in 1 .. Len(s) : s[i] \in S} /\ IsFiniteSet(A) /\ Occ(s, S) = Cardinality(A)
  BY PlacesFinite
<1>2. B = {i \in 1 .. Len(t) : t[i] \in S /\ i # p}
  BY PlacesFinite
<1>2a. /\ IsFiniteSet(Places(t, S)) /\ Occ(t, S) = Cardinality(Places(t, S))
       /\ p \in Places(t, S) <=> t[p] \in S
  <2>1. p \in 1 .. Len(t)
    BY DEF Longer
  <2> QED
    BY <2>1, PlacesFinite
<1> HIDE DEF A, B
<1>3. f \in [A -> B]
  <2> SUFFICES ASSUME NEW i \in A PROVE (IF i < p THEN i ELSE i + 1) \in B
    OBVIOUS
  <2>1. i \in 1 .. Len(s) /\ s[i] \in S
    BY <1>1
  <2>2. t[IF i < p THEN i ELSE i + 1] = s[i]
    BY <2>1 DEF Longer
  <2>3. (IF i < p THEN i ELSE i + 1) \in 1 .. Len(t) /\ (IF i < p THEN i ELSE i + 1) # p
    BY <1>0, <2>1 DEF Longer
  <2> QED
    BY <1>2, <2>1, <2>2, <2>3
<1>4. \A a, b \in A : f[a] = f[b] => a = b
  BY <1>0, <1>1 DEF Longer
<1>5. \A j \in B : \E i \in A : f[i] = j
  <2> SUFFICES ASSUME NEW j \in B PROVE \E i \in A : f[i] = j
    OBVIOUS
  <2> DEFINE i == IF j < p THEN j ELSE j - 1
  <2>1. j \in 1 .. Len(t) /\ t[j] \in S /\ j # p
    BY <1>2
  <2>2. i \in 1 .. Len(s) /\ (IF i < p THEN i ELSE i + 1) = j
    BY <1>0, <2>1 DEF Longer
  <2> HIDE DEF i
  <2>3. t[j] = s[i]
    BY <2>2 DEF Longer
  <2>4. i \in A
    BY <1>1, <2>1, <2>2, <2>3
  <2> QED
    BY <2>2, <2>4
<1> HIDE DEF f
<1>6. f \in Bijection(A, B)
  BY <1>3, <1>4, <1>5, Fun_IsBij
<1>7. Cardinality(B) = Cardinality(A) /\ IsFiniteSet(B)
  BY <1>1, <1>6, FS_Bijection, Fun_ExistsBij
<1>8. Cardinality(B) = IF p \in Places(t, S) THEN Occ(t, S) - 1 ELSE Occ(t, S)
  BY <1>2a, FS_RemoveElement DEF B
<1>9. Occ(t, S) \in Nat /\ Occ(s, S) \in Nat
  BY OccFacts
<1> QED
  BY <1>1, <1>2a, <1>7, <1>8, <1>9 DEF In

\* What push_back() does to a count.
LEMMA OccAppend ==
    ASSUME NEW X, NEW s \in Seq(X), NEW x \in X, NEW S
    PROVE  Append(s, x) \in Seq(X) /\ Occ(Append(s, x), S) = Occ(s, S) + In(x, S)
<1> DEFINE t == Append(s, x)
<1>1. /\ t \in Seq(X) /\ Len(t) = Len(s) + 1 /\ Len(s) \in Nat
      /\ \A i \in 1 .. Len(s) : t[i] = s[i]
      /\ t[Len(s) + 1] = x
  BY AppendProperties, LenProperties
<1> HIDE DEF t
<1>2. Longer(s, Len(s) + 1, t)
  BY <1>1 DEF Longer
<1>3. Occ(t, S) = Occ(s, S) + In(t[Len(s) + 1], S)
  BY <1>1, <1>2, OccLonger
<1> QED
  BY <1>1, <1>3 DEF t

\* What push_front() does to a count.
LEMMA OccCons ==
    ASSUME NEW X, NEW s \in Seq(X), NEW x \in X, NEW S
    PROVE  <<x>> \o s \in Seq(X) /\ Occ(<<x>> \o s, S) = Occ(s, S) + In(x, S)
<1> DEFINE t == <<x>> \o s
<1>0. <<x>> \in Seq(X) /\ Len(<<x>>) = 1 /\ <<x>>[1] = x /\ Len(s) \in Nat
  BY LenProperties
<1>1. /\ t \in Seq(X) /\ Len(t) = 1 + Len(s)
      /\ \A i \in 1 .. 1 + Len(s) : t[i] = IF i <= 1 THEN <<x>>[i] ELSE s[i - 1]
  BY <1>0, ConcatProperties
<1>2. t[1] = x /\ \A i \in 1 .. Len(s) : t[i + 1] = s[i]
  <2> HIDE DEF t
  <2> QED
    BY <1>0, <1>1
<1> HIDE DEF t
<1>3. Longer(s, 1, t)
  BY <1>0, <1>1, <1>2 DEF Longer
<1>4. Occ(t, S) = Occ(s, S) + In(t[1], S)
  BY <1>1, <1>3, OccLonger
<1> QED
  BY <1>1, <1>2, <1>4 DEF t

\* s without the element at p
LEMMA RemoveAtFacts ==
    ASSUME NEW X, NEW s \in Seq(X), NEW p \in 1 .. Len(s)
    PROVE  /\ RemoveAt(s, p) \in Seq(X) /\ Len(RemoveAt(s, p)) = Len(s) - 1
           /\ Longer(RemoveAt(s, p), p, s)
<1> DEFINE a == SubSeq(s, 1, p - 1)
           b == SubSeq(s, p + 1, Len(s))
           t == RemoveAt(s, p)
<1>0. Len(s) \in Nat /\ (\A i \in 1 .. Len(s) : s[i] \in X) /\ p \in Int
  BY LenProperties, ElementOfSeq
<1>1. a \in Seq(X) /\ Len(a) = p - 1 /\ \A i \in 1 .. p - 1 : a[i] = s[i]
  <2>1. \A i \in 1 .. p - 1 : s[i] \in X
    BY <1>0
  <2>2. /\ a \in Seq(X) /\ Len(a) = (IF 1 <= p - 1 THEN p - 1 - 1 + 1 ELSE 0)
        /\ \A i \in 1 .. p - 1 - 1 + 1 : a[i] = s[1 + i - 1]
    BY <1>0, <2>1, SubSeqProperties
  <2> HIDE DEF a
  <2> QED
    BY <1>0, <2>2
<1>2. /\ b \in Seq(X) /\ Len(b) = Len(s) - p
      /\ \A i \in 1 .. Len(s) - p : b[i] = s[p + i]
  <2>1. \A i \in p + 1 .. Len(s) : s[i] \in X
    BY <1>0
  <2>2. /\ b \in Seq(X)
        /\ Len(b) = (IF p + 1 <= Len(s) THEN Len(s) - (p + 1) + 1 ELSE 0)
        /\ \A i \in 1 .. Len(s) - (p + 1) + 1 : b[i] = s[p + 1 + i - 1]
    BY <1>0, <2>1, SubSeqProperties
  <2> HIDE DEF b
  <2> QED
    BY <1>0, <2>2
<1>3. t = a \o b
  BY DEF RemoveAt
<1> HIDE DEF a, b, t
<1>4. /\ t \in Seq(X) /\ Len(t) = Len(a) + Len(b)
      /\ \A i \in 1 .. Len(a) + Len(b) : t[i] = IF i <= Len(a) THEN a[i] ELSE b[i - Len(a)]
  BY <1>1, <1>2, <1>3, ConcatProperties
<1>5. Len(t) = Len(s) - 1
  BY <1>0, <1>1, <1>2, <1>4
<1>6. ASSUME NEW i \in 1 .. Len(t) PROVE s[IF i < p THEN i ELSE i + 1] = t[i]
  <2>1. i \in 1 .. Len(a) + Len(b)
    BY <1>4
  <2>2. CASE i < p
    BY <1>0, <1>1, <1>4, <2>1, <2>2
  <2>3. CASE ~(i < p)
    <3>1. t[i] = b[i - (p - 1)]
      BY <1>0, <1>1, <1>4, <2>1, <2>3
    <3>2. i - (p - 1) \in 1 .. Len(s) - p
      BY <1>0, <1>5, <2>3
    <3>3. b[i - (p - 1)] = s[p + (i - (p - 1))]
      BY <1>2, <3>2
    <3>4. p + (i - (p - 1)) = i + 1
      BY <1>0
    <3> QED
      BY <2>3, <3>1, <3>3, <3>4
  <2> QED
    BY <2>2, <2>3
<1>7. Longer(t, p, s)
  BY <1>0, <1>5, <1>6 DEF Longer
<1> QED
  BY <1>4, <1>5, <1>7 DEF t

\* What removing the element at place p does to a count.
LEMMA OccRemoveAt ==
    ASSUME NEW X, NEW s \in Seq(X), NEW p \in 1 .. Len(s), NEW S
    PROVE  Occ(RemoveAt(s, p), S) = Occ(s, S) - In(s[p], S)
<1>1. RemoveAt(s, p) \in Seq(X) /\ Longer(RemoveAt(s, p), p, s)
  BY RemoveAtFacts
<1>2. Occ(s, S) = Occ(RemoveAt(s, p), S) + In(s[p], S)
  BY <1>1, OccLonger
<1>3. Occ(s, S) \in Nat /\ Occ(RemoveAt(s, p), S) \in Nat
  BY <1>1, OccFacts
<1> QED
  BY <1>2, <1>3 DEF In

\* What removing the first element does to a count.
LEMMA OccTail ==
    ASSUME NEW X, NEW s \in Seq(X), s # <<>>, NEW S
    PROVE  Tail(s) \in Seq(X) /\ Occ(Tail(s), S) = Occ(s, S) - In(Head(s), S)
<1> DEFINE t == Tail(s)
<1>1. /\ t \in Seq(X) /\ Len(t) = Len(s) - 1 /\ Len(s) \in Nat \ {0}
      /\ \A i \in 1 .. Len(t) : t[i] = s[i + 1]
  BY HeadTailProperties, EmptySeq
<1>2. Head(s) = s[1]
  OBVIOUS
<1> HIDE DEF t
<1>3. Longer(t, 1, s)
  BY <1>1 DEF Longer
<1>4. Occ(s, S) = Occ(t, S) + In(s[1], S)
  BY <1>1, <1>3, OccLonger
<1>5. Occ(s, S) \in Nat /\ Occ(t, S) \in Nat
  BY <1>1, OccFacts
<1>6. Occ(t, S) = Occ(s, S) - In(s[1], S)
  BY <1>4, <1>5 DEF In
<1> QED
  BY <1>1, <1>2, <1>6 DEF t

\* t is s with x at place p
Replaced(s, p, x, t) ==
    Len(t) = Len(s) /\ \A j \in 1 .. Len(s) : t[j] = IF j = p THEN x ELSE s[j]

\* EXCEPT on a sequence replaces one element.
LEMMA ReplaceFacts ==
    ASSUME NEW X, NEW s \in Seq(X), NEW p \in 1 .. Len(s), NEW x \in X
    PROVE  [s EXCEPT ![p] = x] \in Seq(X) /\ Replaced(s, p, x, [s EXCEPT ![p] = x])
<1> DEFINE t == [s EXCEPT ![p] = x]
<1>1. /\ t \in Seq(X) /\ Len(t) = Len(s)
      /\ \A j \in 1 .. Len(s) : t[j] = IF j = p THEN x ELSE s[j]
  BY ExceptSeq
<1> HIDE DEF t
<1>2. t \in Seq(X) /\ Replaced(s, p, x, t)
  BY <1>1 DEF Replaced
<1> QED
  BY <1>2 DEF t

\* What replacing an element does to a count.
LEMMA OccReplace ==
    ASSUME NEW X, NEW s \in Seq(X), NEW p \in 1 .. Len(s), NEW x \in X,
           NEW t \in Seq(X), Replaced(s, p, x, t), NEW S
    PROVE  Occ(t, S) = Occ(s, S) - In(s[p], S) + In(x, S)
<1>1. /\ t \in Seq(X) /\ Len(t) = Len(s)
      /\ \A j \in 1 .. Len(s) : t[j] = IF j = p THEN x ELSE s[j]
  BY DEF Replaced
<1>2. Places(s, S) = {i \in 1 .. Len(s) : s[i] \in S} /\ IsFiniteSet(Places(s, S))
      /\ Occ(s, S) = Cardinality(Places(s, S))
  BY PlacesFinite
<1>3. Places(t, S) = {i \in 1 .. Len(s) : t[i] \in S} /\ IsFiniteSet(Places(t, S))
      /\ Occ(t, S) = Cardinality(Places(t, S))
  BY <1>1, PlacesFinite
<1>4. Places(s, S) \ {p} = Places(t, S) \ {p}
  BY <1>1, <1>2, <1>3
<1>5. Cardinality(Places(s, S) \ {p}) = Occ(s, S) - In(s[p], S)
  <2>1. p \in Places(s, S) <=> s[p] \in S
    BY <1>2
  <2>2. Occ(s, S) \in Nat
    BY OccFacts
  <2>3. Cardinality(Places(s, S) \ {p}) = IF p \in Places(s, S) THEN Occ(s, S) - 1 ELSE Occ(s, S)
    BY <1>2, FS_RemoveElement
  <2> QED
    BY <2>1, <2>2, <2>3 DEF In
<1>6. Cardinality(Places(t, S) \ {p}) = Occ(t, S) - In(x, S)
  <2>1. p \in Places(t, S) <=> x \in S
    BY <1>1, <1>3
  <2>2. Occ(t, S) \in Nat
    BY <1>1, OccFacts
  <2>3. Cardinality(Places(t, S) \ {p}) = IF p \in Places(t, S) THEN Occ(t, S) - 1 ELSE Occ(t, S)
    BY <1>3, FS_RemoveElement
  <2> QED
    BY <2>1, <2>2, <2>3 DEF In
<1>7. Occ(s, S) \in Nat /\ Occ(t, S) \in Nat
  BY <1>1, OccFacts
<1>8. Occ(t, S) = Occ(s, S) - In(s[p], S) + In(x, S)
  <2>1. Occ(s, S) - In(s[p], S) = Occ(t, S) - In(x, S)
    BY <1>4, <1>5, <1>6
  <2> QED
    BY <1>7, <2>1 DEF In
<1> QED
  BY <1>1, <1>8

-----------------------------------------------------------------------------
(* Ticket_list *)

Same(x, y) == IF x = y THEN 1 ELSE 0

\* To be in a singleton is to be its element.
LEMMA InSingleton == \A x, y : In(x, {y}) = Same(x, y)
  BY DEF In, Same

\* A ticket that is in a good list is counted and has its bit set.
LEMMA MultFacts ==
    ASSUME NEW tl, Good(tl), NEW x \in Tickets
    PROVE  /\ Mult(tl.list, x) \in Nat
           /\ Mult(tl.list, x) > 0 <=> \E i \in 1 .. Len(tl.list) : tl.list[i] = x
           /\ Mult(tl.list, x) > 0 => x.type \in tl.bitmap
<1>1. tl.list \in Seq(Tickets)
  BY DEF Good, TicketList
<1>2. /\ Mult(tl.list, x) \in Nat
      /\ Mult(tl.list, x) > 0 <=> \E i \in 1 .. Len(tl.list) : tl.list[i] \in {x}
  BY <1>1, OccFacts DEF Mult
<1>3. ASSUME Mult(tl.list, x) > 0 PROVE x.type \in tl.bitmap
  <2>1. PICK i \in 1 .. Len(tl.list) : tl.list[i] = x
    BY <1>2, <1>3
  <2>2. x \in OfType(x.type) /\ x.type \in Types
    BY DEF OfType, Tickets
  <2>3. Occ(tl.list, OfType(x.type)) > 0
    BY <1>1, <2>1, <2>2, OccFacts
  <2> QED
    BY <2>2, <2>3 DEF Good, Agrees
<1> QED
  BY <1>2, <1>3

Fits(tl) == Len(tl.list) < COUNTER_MOD

\* No counter exceeds the length of the list.
LEMMA CountFits ==
    ASSUME NEW tl, Good(tl), NEW t \in Types
    PROVE  tl.count[t] \in Nat /\ tl.count[t] <= Len(tl.list) /\ Len(tl.list) \in Nat
<1>1. tl.list \in Seq(Tickets)
  BY DEF Good, TicketList
<1>2. tl.count[t] = Occ(tl.list, OfType(t))
  BY DEF Good, Agrees
<1> QED
  BY <1>1, <1>2, OccFacts, LenProperties

\* one more x in tl2 than in tl
OneMore(tl, tl2, x) ==
    /\ Good(tl2) /\ Len(tl2.list) = Len(tl.list) + 1
    /\ \A y \in Tickets : Mult(tl2.list, y) = Mult(tl.list, y) + Same(x, y)

OneLess(tl, tl2, x) ==
    /\ Good(tl2) /\ Len(tl2.list) = Len(tl.list) - 1
    /\ \A y \in Tickets : Mult(tl2.list, y) = Mult(tl.list, y) - Same(x, y)

\* add_ticket() appends.
LEMMA AddList == \A tl, x : add_ticket(tl, x).list = Append(tl.list, x)
  BY DEF add_ticket

\* add_ticket() keeps list, counters and bitmap in agreement while the counter
\* fits.
LEMMA AddFacts ==
    ASSUME NEW tl, Good(tl), NEW x \in Tickets, Len(tl.list) + 1 < COUNTER_MOD
    PROVE  OneMore(tl, add_ticket(tl, x), x)
<1> DEFINE tl2 == add_ticket(tl, x)
           n == (tl.count[x.type] + 1) % COUNTER_MOD
<1>1. tl.list \in Seq(Tickets) /\ tl.count \in [Types -> Nat] /\ tl.bitmap \subseteq Types
  BY DEF Good, TicketList
<1>2. x.type \in Types
  BY DEF Tickets
<1>3. COUNTER_MOD \in Nat \ {0}
  BY MdlAssumption
<1>4. n = tl.count[x.type] + 1 /\ n \in Nat
  <2>1. tl.count[x.type] \in Nat /\ tl.count[x.type] <= Len(tl.list) /\ Len(tl.list) \in Nat
    BY <1>2, CountFits
  <2>2. tl.count[x.type] + 1 \in 0 .. COUNTER_MOD - 1
    BY <1>3, <2>1
  <2> QED
    BY <1>3, <2>2
<1>5. /\ tl2.list = Append(tl.list, x)
      /\ tl2.count = [tl.count EXCEPT ![x.type] = n]
      /\ tl2.bitmap = tl.bitmap \cup {x.type}
      /\ tl2 = [list |-> tl2.list, count |-> tl2.count, bitmap |-> tl2.bitmap]
  BY DEF add_ticket
<1> HIDE DEF tl2, n
<1>6. tl2.list \in Seq(Tickets) /\ Len(tl2.list) = Len(tl.list) + 1
  BY <1>1, <1>5, AppendProperties
<1>7. \A S : Occ(tl2.list, S) = Occ(tl.list, S) + In(x, S)
  BY <1>1, <1>5, OccAppend
<1>8. tl2 \in TicketList
  <2>1. tl2.count \in [Types -> Nat] /\ tl2.bitmap \in SUBSET Types
    BY <1>1, <1>2, <1>4, <1>5
  <2> QED
    BY <1>5, <1>6, <2>1 DEF TicketList
<1>9. Agrees(tl2)
  <2> SUFFICES ASSUME NEW t \in Types
               PROVE  tl2.count[t] = Occ(tl2.list, OfType(t)) /\ (t \in tl2.bitmap <=> tl2.count[t] > 0)
    BY DEF Agrees
  <2>1. /\ tl.count[t] = Occ(tl.list, OfType(t)) /\ (t \in tl.bitmap <=> tl.count[t] > 0)
        /\ tl.count[t] \in Nat
    BY <1>1 DEF Good, Agrees
  <2>2. Occ(tl2.list, OfType(t)) = Occ(tl.list, OfType(t)) + In(x, OfType(t))
    BY <1>7
  <2>3. In(x, OfType(t)) = IF x.type = t THEN 1 ELSE 0
    BY DEF In, OfType
  <2>4. tl2.count[t] = IF x.type = t THEN tl.count[t] + 1 ELSE tl.count[t]
    BY <1>1, <1>4, <1>5
  <2>5. t \in tl2.bitmap <=> t \in tl.bitmap \/ x.type = t
    BY <1>5
  <2> QED
    BY <2>1, <2>2, <2>3, <2>4, <2>5
<1>10. \A y \in Tickets : Mult(tl2.list, y) = Mult(tl.list, y) + Same(x, y)
  BY <1>7, InSingleton DEF Mult
<1> QED
  BY <1>6, <1>8, <1>9, <1>10 DEF OneMore, Good, tl2

\* Without() removes one element, if it is there.
LEMMA WithoutFacts ==
    ASSUME NEW X, NEW s \in Seq(X), NEW x, \E i \in 1 .. Len(s) : s[i] = x
    PROVE  \E p \in 1 .. Len(s) : s[p] = x /\ Without(s, x) = RemoveAt(s, p)
<1> DEFINE I == {i \in 1 .. Len(s) : s[i] = x}
<1>0. DOMAIN s = 1 .. Len(s) /\ Len(s) \in Nat
  BY LenProperties
<1>1. I \in SUBSET Nat /\ I # {}
  BY <1>0
<1>2. Min(I) \in I
  <2> HIDE DEF I
  <2>1. \E a \in I : \A b \in I : a <= b
    BY <1>1, LeastNat
  <2> QED
    BY <2>1 DEF Min
<1>3. Without(s, x) = RemoveAt(s, Min(I))
  <2>1. x \in Range(s)
    BY <1>0 DEF Range
  <2>2. RemoveFirst(s, x) = RemoveAt(s, Min(I))
    BY <1>1 DEF RemoveFirst, SelectInSeq
  <2> QED
    BY <2>1, <2>2 DEF Without
<1> QED
  BY <1>2, <1>3

\* remove_ticket() of a ticket that is there keeps list, counters and bitmap
\* in agreement.
LEMMA RemoveFacts ==
    ASSUME NEW tl, Good(tl), NEW x \in Tickets, Mult(tl.list, x) > 0, Fits(tl)
    PROVE  OneLess(tl, remove_ticket(tl, x), x)
<1> DEFINE tl2 == remove_ticket(tl, x)
           n == (tl.count[x.type] + COUNTER_MOD - 1) % COUNTER_MOD
<1>1. tl.list \in Seq(Tickets) /\ tl.count \in [Types -> Nat] /\ tl.bitmap \subseteq Types
  BY DEF Good, TicketList
<1>2. x.type \in Types
  BY DEF Tickets
<1>3. COUNTER_MOD \in Nat \ {0}
  BY MdlAssumption
<1>4. n = tl.count[x.type] - 1 /\ n \in Nat
  <2>1. tl.count[x.type] \in Nat /\ tl.count[x.type] <= Len(tl.list) /\ Len(tl.list) \in Nat
    BY <1>2, CountFits
  <2>2. tl.count[x.type] > 0
    BY <1>2, MultFacts DEF Good, Agrees
  <2>3. tl.count[x.type] - 1 \in 0 .. COUNTER_MOD - 1
    BY <1>3, <2>1, <2>2 DEF Fits
  <2>4. tl.count[x.type] + COUNTER_MOD - 1 = (tl.count[x.type] - 1) + COUNTER_MOD
    BY <1>3, <2>1
  <2>5. \A a, m \in Nat : m > 0 /\ a < m => (a + m) % m = a
    OBVIOUS
  <2> QED
    BY <1>3, <2>3, <2>4, <2>5
<1>5. /\ tl2.list = Without(tl.list, x)
      /\ tl2.count = [tl.count EXCEPT ![x.type] = n]
      /\ tl2.bitmap = IF n = 0 THEN tl.bitmap \ {x.type} ELSE tl.bitmap
      /\ tl2 = [list |-> tl2.list, count |-> tl2.count, bitmap |-> tl2.bitmap]
  BY DEF remove_ticket
<1> HIDE DEF tl2, n
<1>6. PICK p \in 1 .. Len(tl.list) : tl.list[p] = x /\ Without(tl.list, x) = RemoveAt(tl.list, p)
  <2>1. \E i \in 1 .. Len(tl.list) : tl.list[i] = x
    BY MultFacts
  <2> QED
    BY <1>1, <2>1, WithoutFacts
<1>7. /\ tl2.list \in Seq(Tickets) /\ Len(tl2.list) = Len(tl.list) - 1
      /\ \A S : Occ(tl2.list, S) = Occ(tl.list, S) - In(x, S)
  BY <1>1, <1>5, <1>6, RemoveAtFacts, OccRemoveAt
<1>8. tl2 \in TicketList
  <2>1. tl2.count \in [Types -> Nat] /\ tl2.bitmap \in SUBSET Types
    BY <1>1, <1>2, <1>4, <1>5
  <2> QED
    BY <1>5, <1>7, <2>1 DEF TicketList
<1>9. Agrees(tl2)
  <2> SUFFICES ASSUME NEW t \in Types
               PROVE  tl2.count[t] = Occ(tl2.list, OfType(t)) /\ (t \in tl2.bitmap <=> tl2.count[t] > 0)
    BY DEF Agrees
  <2>1. /\ tl.count[t] = Occ(tl.list, OfType(t)) /\ (t \in tl.bitmap <=> tl.count[t] > 0)
        /\ tl.count[t] \in Nat
    BY <1>1 DEF Good, Agrees
  <2>2. Occ(tl2.list, OfType(t)) = Occ(tl.list, OfType(t)) - In(x, OfType(t))
    BY <1>7
  <2>3. In(x, OfType(t)) = IF x.type = t THEN 1 ELSE 0
    BY DEF In, OfType
  <2>4. tl2.count[t] = IF x.type = t THEN tl.count[t] - 1 ELSE tl.count[t]
    BY <1>1, <1>4, <1>5
  <2>5. t \in tl2.bitmap <=> t \in tl.bitmap /\ ~(x.type = t /\ n = 0)
    BY <1>5
  <2> QED
    BY <1>4, <2>1, <2>2, <2>3, <2>4, <2>5
<1>10. \A y \in Tickets : Mult(tl2.list, y) = Mult(tl.list, y) - Same(x, y)
  BY <1>7, InSingleton DEF Mult
<1> QED
  BY <1>7, <1>8, <1>9, <1>10 DEF OneLess, Good, tl2

-----------------------------------------------------------------------------
(* reschedule_waiters() *)

\* Nothing granted to others is in the way of a request that can be granted.
LEMMA CanGrantFacts ==
    ASSUME NEW k, NEW g, Good(g), NEW type, NEW c,
           g.bitmap \cap Incompatible(k, type) = {} \/ InTheWay(k, g, type, c) = {}
    PROVE  \A y \in Tickets : Mult(g.list, y) > 0 /\ y.ctx # c => y.type \notin Incompatible(k, type)
<1> SUFFICES ASSUME NEW y \in Tickets, Mult(g.list, y) > 0, y.ctx # c,
                    y.type \in Incompatible(k, type)
             PROVE  FALSE
  OBVIOUS
<1>1. y.type \in g.bitmap
  BY MultFacts
<1>2. PICK i \in 1 .. Len(g.list) : g.list[i] = y
  BY MultFacts
<1>3. i \in DOMAIN g.list
  <2>1. g.list \in Seq(Tickets)
    BY DEF Good, TicketList
  <2> QED
    BY <2>1, LenProperties
<1>4. i \in InTheWay(k, g, type, c)
  BY <1>2, <1>3 DEF InTheWay
<1> QED
  BY <1>1, <1>4

\* An x that nothing granted to others is in the way of may join them.
LEMMA JoinFacts ==
    ASSUME NEW k, NEW tl, NEW tl2, NEW x \in Tickets, Good(tl), OneMore(tl, tl2, x),
           NoConflict(k, tl.list),
           \A y \in Tickets : Mult(tl.list, y) > 0 => Compatible(k, x, y)
    PROVE  NoConflict(k, tl2.list)
<1> SUFFICES ASSUME NEW y \in Tickets, NEW z \in Tickets,
                    Mult(tl2.list, y) > 0, Mult(tl2.list, z) > 0
             PROVE  Compatible(k, y, z)
  BY DEF NoConflict
<1>1. \A a, b : Compatible(k, a, b) => Compatible(k, b, a)
  BY DEF Compatible
<1>2. Compatible(k, x, x)
  BY DEF Compatible
<1>3. /\ Mult(tl2.list, y) = Mult(tl.list, y) + Same(x, y)
      /\ Mult(tl2.list, z) = Mult(tl.list, z) + Same(x, z)
  BY DEF OneMore
<1>4. Mult(tl.list, y) \in Nat /\ Mult(tl.list, z) \in Nat
  BY MultFacts
<1>5. Mult(tl.list, y) > 0 \/ y = x
  BY <1>3, <1>4 DEF Same
<1>6. Mult(tl.list, z) > 0 \/ z = x
  BY <1>3, <1>4 DEF Same
<1>7. Mult(tl.list, y) > 0 /\ Mult(tl.list, z) > 0 => Compatible(k, y, z)
  BY DEF NoConflict
<1>8. (Mult(tl.list, y) > 0 => Compatible(k, x, y)) /\ (Mult(tl.list, z) > 0 => Compatible(k, x, z))
  OBVIOUS
<1> QED
  BY <1>1, <1>2, <1>5, <1>6, <1>7, <1>8

\* A context waits with one ticket at most.
Single(w) ==
    \A y, z \in Tickets :
        y.ctx = z.ctx /\ Mult(w.list, y) > 0 /\ Mult(w.list, z) > 0 => y = z /\ Mult(w.list, y) = 1

MovedTicket(g, w, s, y) ==
    IF y.ctx \in s.woken
    THEN Mult(s.w.list, y) = 0 /\ Mult(s.g.list, y) = Mult(g.list, y) + Mult(w.list, y)
    ELSE Mult(s.w.list, y) = Mult(w.list, y) /\ Mult(s.g.list, y) = Mult(g.list, y)

\* What the pass over the list w has made of g and w after i of its tickets:
\* tickets have moved from one list to the other, those of contexts that have
\* been woken.
Passed(k, g, w, i, s) ==
    /\ s = [g |-> s.g, w |-> s.w, hog |-> s.hog, woken |-> s.woken]
    /\ Good(s.g) /\ Good(s.w)
    /\ Len(s.g.list) + Len(s.w.list) = Len(g.list) + Len(w.list)
    /\ \A c \in s.woken : c \in Ctx /\ MayWake(c) /\ \E j \in 1 .. i : w.list[j].ctx = c
    /\ \A y \in Tickets : MovedTicket(g, w, s, y)
    /\ NoConflict(k, g.list) => NoConflict(k, s.g.list)

FitTogether(g, w) == Len(g.list) + Len(w.list) < COUNTER_MOD

\* One iteration of the loop of reschedule_waiters().
LEMMA GrantTicketFacts ==
    ASSUME NEW k, NEW skip, NEW g, NEW w, Good(g), Good(w), Single(w), FitTogether(g, w),
           NEW i \in Nat, i + 1 <= Len(w.list), NEW s, Passed(k, g, w, i, s)
    PROVE  Passed(k, g, w, i + 1, GrantTicket(k, skip, s, w.list[i + 1]))
<1> DEFINE x == w.list[i + 1]
           s2 == GrantTicket(k, skip, s, x)
<1>0. w.list \in Seq(Tickets) /\ g.list \in Seq(Tickets)
  BY DEF Good, TicketList
<1>1. Len(w.list) \in Nat /\ Len(g.list) \in Nat
  BY <1>0, LenProperties
<1>2. i + 1 \in 1 .. Len(w.list)
  BY <1>1
<1>3. x \in Tickets
  BY <1>0, <1>2, ElementOfSeq
<1>4. x.ctx \in Ctx
  BY <1>3 DEF Tickets
<1>5. Mult(w.list, x) > 0
  BY <1>2, <1>3, MultFacts
<1>6. x.ctx \notin s.woken
  <2> SUFFICES ASSUME x.ctx \in s.woken PROVE FALSE
    OBVIOUS
  <2>1. PICK j \in 1 .. i : w.list[j].ctx = x.ctx
    BY DEF Passed
  <2> DEFINE y == w.list[j]
  <2>2. j \in 1 .. Len(w.list) /\ j # i + 1
    BY <1>1, <1>2
  <2>3. y \in Tickets
    BY <1>0, <2>2, ElementOfSeq
  <2>4. Mult(w.list, y) > 0
    BY <2>2, <2>3, MultFacts
  <2>5. y.ctx = x.ctx
    BY <2>1
  <2> HIDE DEF y
  <2>6. y = x /\ Mult(w.list, y) = 1
    BY <1>3, <1>5, <2>3, <2>4, <2>5 DEF Single
  <2>7. Occ(w.list, {x}) = 1 /\ w.list[j] \in {x} /\ w.list[i + 1] \in {x}
    BY <2>6 DEF Mult, y
  <2>8. j = i + 1
    BY <1>0, <1>2, <2>2, <2>7, OccFacts
  <2> QED
    BY <2>2, <2>8
<1>7. CASE s2 = s
  <2>1. \A c \in s.woken : c \in Ctx /\ MayWake(c) /\ \E j \in 1 .. i + 1 : w.list[j].ctx = c
    <3> SUFFICES ASSUME NEW c \in s.woken
                 PROVE  c \in Ctx /\ MayWake(c) /\ \E j \in 1 .. i + 1 : w.list[j].ctx = c
      OBVIOUS
    <3>1. c \in Ctx /\ MayWake(c)
      BY DEF Passed
    <3>2. PICK j \in 1 .. i : w.list[j].ctx = c
      BY DEF Passed
    <3>3. j \in 1 .. i + 1
      OBVIOUS
    <3> QED
      BY <3>1, <3>2, <3>3
  <2> HIDE DEF s2
  <2>2. Passed(k, g, w, i + 1, s)
    BY <2>1 DEF Passed
  <2> QED
    BY <1>7, <2>2 DEF s2
<1>8. CASE s2 # s
  <2> DEFINE h == IF x.type \in Hogs(k) THEN s.hog + 1 ELSE s.hog
  <2>1. /\ can_grant_lock(k, s.g, s.w, x.type, x.ctx, skip) /\ MayWake(x.ctx)
        /\ s2 = [g |-> add_ticket(s.g, x), w |-> remove_ticket(s.w, x),
                 hog |-> h, woken |-> s.woken \cup {x.ctx}]
    <3> HIDE DEF x
    <3> QED
      BY <1>8 DEF GrantTicket
  <2> HIDE DEF h
  <2> HIDE DEF s2, x
  <2>2. /\ s2.g = add_ticket(s.g, x) /\ s2.w = remove_ticket(s.w, x)
        /\ s2.woken = s.woken \cup {x.ctx} /\ s2.hog = h
        /\ s2 = [g |-> s2.g, w |-> s2.w, hog |-> s2.hog, woken |-> s2.woken]
    BY <2>1
  <2>3. /\ Good(s.g) /\ Good(s.w)
        /\ Len(s.g.list) + Len(s.w.list) = Len(g.list) + Len(w.list)
        /\ \A y \in Tickets : MovedTicket(g, w, s, y)
    BY DEF Passed
  <2>4. Mult(s.w.list, x) = Mult(w.list, x) /\ Mult(s.w.list, x) > 0
    <3>1. MovedTicket(g, w, s, x)
      BY <1>3, <2>3
    <3> QED
      BY <1>5, <1>6, <3>1 DEF MovedTicket
  <2>5. Len(s.w.list) \in Nat /\ Len(s.g.list) \in Nat /\ Len(s.w.list) > 0
    <3>1. s.w.list \in Seq(Tickets) /\ s.g.list \in Seq(Tickets)
      BY <2>3 DEF Good, TicketList
    <3>2. PICK j \in 1 .. Len(s.w.list) : s.w.list[j] = x
      BY <1>3, <2>3, <2>4, MultFacts
    <3>3. Len(s.w.list) \in Nat /\ Len(s.g.list) \in Nat
      BY <3>1, LenProperties
    <3> QED
      BY <3>2, <3>3
  <2>6. COUNTER_MOD \in Nat
    BY MdlAssumption
  <2>7. Len(s.g.list) + 1 < COUNTER_MOD /\ Fits(s.w)
    <3>1. \A a, b, m \in Nat : a + b < m /\ b > 0 => a + 1 < m /\ b < m
      OBVIOUS
    <3>2. Len(s.g.list) + Len(s.w.list) < COUNTER_MOD
      BY <2>3 DEF FitTogether
    <3> QED
      BY <2>5, <2>6, <3>1, <3>2 DEF Fits
  <2>8. OneMore(s.g, s2.g, x)
    BY <1>3, <2>2, <2>3, <2>7, AddFacts
  <2>9. OneLess(s.w, s2.w, x)
    BY <1>3, <2>2, <2>3, <2>4, <2>7, RemoveFacts
  <2>10. Len(s2.g.list) + Len(s2.w.list) = Len(g.list) + Len(w.list)
    <3>1. \A a, b \in Nat : (a + 1) + (b - 1) = a + b
      OBVIOUS
    <3>2. Len(s2.g.list) = Len(s.g.list) + 1 /\ Len(s2.w.list) = Len(s.w.list) - 1
      BY <2>8, <2>9 DEF OneMore, OneLess
    <3> QED
      BY <2>3, <2>5, <3>1, <3>2
  <2>11. ASSUME NEW c \in s2.woken
         PROVE  c \in Ctx /\ MayWake(c) /\ \E j \in 1 .. i + 1 : w.list[j].ctx = c
    <3>1. CASE c = x.ctx
      <4>1. i + 1 \in 1 .. i + 1
        BY <1>2
      <4>1a. w.list[i + 1].ctx = c
        BY <3>1 DEF x
      <4> QED
        BY <1>4, <2>1, <3>1, <4>1, <4>1a
    <3>2. CASE c \in s.woken
      <4>1. c \in Ctx /\ MayWake(c)
        BY <3>2 DEF Passed
      <4>2. PICK j \in 1 .. i : w.list[j].ctx = c
        BY <3>2 DEF Passed
      <4>3. j \in 1 .. i + 1
        OBVIOUS
      <4> QED
        BY <4>1, <4>2, <4>3
    <3> QED
      BY <2>2, <3>1, <3>2
  <2>12. ASSUME NEW y \in Tickets PROVE MovedTicket(g, w, s2, y)
    <3>1. /\ Mult(s2.g.list, y) = Mult(s.g.list, y) + Same(x, y)
          /\ Mult(s2.w.list, y) = Mult(s.w.list, y) - Same(x, y)
      BY <2>8, <2>9 DEF OneMore, OneLess
    <3>2. /\ Mult(s.g.list, y) \in Nat /\ Mult(s.w.list, y) \in Nat
          /\ Mult(g.list, y) \in Nat /\ Mult(w.list, y) \in Nat
      BY <2>3, MultFacts
    <3>3. MovedTicket(g, w, s, y)
      BY <2>3
    <3>4. CASE y.ctx = x.ctx
      <4>1. Mult(s.w.list, y) = Mult(w.list, y) /\ Mult(s.g.list, y) = Mult(g.list, y)
        BY <1>6, <3>3, <3>4 DEF MovedTicket
      <4>2. Mult(w.list, y) = Same(x, y)
        <5>1. Mult(w.list, y) > 0 => y = x /\ Mult(w.list, y) = 1
          BY <1>3, <1>5, <3>4 DEF Single
        <5> QED
          BY <1>5, <3>2, <5>1 DEF Same
      <4>3. y.ctx \in s2.woken
        BY <2>2, <3>4
      <4>4. Same(x, y) \in Nat
        BY DEF Same
      <4> QED
        BY <3>1, <3>2, <4>1, <4>2, <4>3, <4>4 DEF MovedTicket
    <3>5. CASE y.ctx # x.ctx
      <4>1. Same(x, y) = 0
        BY <3>5 DEF Same
      <4>2. y.ctx \in s2.woken <=> y.ctx \in s.woken
        BY <2>2, <3>5
      <4>3. Mult(s2.g.list, y) = Mult(s.g.list, y) /\ Mult(s2.w.list, y) = Mult(s.w.list, y)
        BY <3>1, <3>2, <4>1
      <4> QED
        BY <3>3, <4>2, <4>3 DEF MovedTicket
    <3> QED
      BY <3>4, <3>5
  <2>13. ASSUME NoConflict(k, g.list) PROVE NoConflict(k, s2.g.list)
    <3>1. NoConflict(k, s.g.list)
      BY <2>13 DEF Passed
    <3>2. \A y \in Tickets : Mult(s.g.list, y) > 0 /\ y.ctx # x.ctx => y.type \notin Incompatible(k, x.type)
      <4>1. \/ s.g.bitmap \cap Incompatible(k, x.type) = {}
            \/ InTheWay(k, s.g, x.type, x.ctx) = {}
        BY <2>1 DEF can_grant_lock
      <4> QED
        BY <2>3, <4>1, CanGrantFacts
    <3>3. \A y \in Tickets : Mult(s.g.list, y) > 0 => Compatible(k, x, y)
      BY <3>2 DEF Compatible
    <3> QED
      BY <1>3, <2>3, <2>8, <3>1, <3>3, JoinFacts
  <2>14. Passed(k, g, w, i + 1, s2)
    <3>1. Good(s2.g) /\ Good(s2.w)
      BY <2>8, <2>9 DEF OneMore, OneLess
    <3> QED
      BY <2>2, <2>10, <2>11, <2>12, <2>13, <3>1 DEF Passed
  <2> QED
    BY <2>14 DEF s2, x
<1> QED
  BY <1>7, <1>8

\* The recursion in reschedule_waiters() defines a function.
Start(k, g, w) == [g |-> g, w |-> w, hog |-> m_hog_lock_count[k], woken |-> {}]
Pass(f, k, g, w, skip, n) ==
    f = [i \in 0 .. n |-> IF i = 0 THEN Start(k, g, w)
                          ELSE GrantTicket(k, skip, f[i - 1], w.list[i])]

\* The loop of reschedule_waiters(), as a function of the number of
\* iterations, exists.
LEMMA PassExists ==
    ASSUME NEW k, NEW g, NEW w, NEW skip
    PROVE  \A n \in Nat : \E f : Pass(f, k, g, w, skip, n)
<1> DEFINE T == {n \in Nat : ~ \E f : Pass(f, k, g, w, skip, n)}
<1> SUFFICES ASSUME T # {} PROVE FALSE
  OBVIOUS
<1>1. T \in SUBSET Nat
  OBVIOUS
<1>2. PICK n \in T : \A m \in T : n <= m
  <2> HIDE DEF T
  <2> QED
    BY <1>1, LeastNat
<1>3. n \in Nat /\ ~ \E f : Pass(f, k, g, w, skip, n)
  OBVIOUS
<1>4. CASE n = 0
  <2> DEFINE f == [i \in 0 .. 0 |-> Start(k, g, w)]
  <2>1. Pass(f, k, g, w, skip, 0)
    BY DEF Pass
  <2> QED
    BY <1>3, <1>4, <2>1
<1>5. CASE n # 0
  <2>1. n - 1 \in Nat /\ n - 1 \notin T
    <3> HIDE DEF T
    <3> QED
      BY <1>2, <1>3, <1>5
  <2>2. PICK h : Pass(h, k, g, w, skip, n - 1)
    BY <2>1
  <2> DEFINE Step(e, i) == IF i = 0 THEN Start(k, g, w)
                           ELSE GrantTicket(k, skip, e[i - 1], w.list[i])
             last == Step(h, n)
             f == [i \in 0 .. n |-> IF i = n THEN last ELSE h[i]]
  <2> HIDE DEF last
  <2>3. \A i \in 0 .. n - 1 : h[i] = Step(h, i)
    BY <2>2 DEF Pass
  <2>4. \A i \in 0 .. n - 1 : f[i] = h[i]
    BY <1>3
  <2>5. ASSUME NEW i \in 0 .. n PROVE f[i] = Step(f, i)
    <3>1. i # 0 => f[i - 1] = h[i - 1]
      BY <1>3, <2>4
    <3>2. Step(f, i) = Step(h, i)
      <4> HIDE DEF f
      <4> QED
        BY <3>1
    <3>3. CASE i = n
      <4>1. f[i] = last
        BY <1>3, <3>3
      <4> HIDE DEF f
      <4> QED
        BY <3>2, <3>3, <4>1 DEF last
    <3>4. CASE i # n
      <4>1. i \in 0 .. n - 1
        BY <1>3, <3>4
      <4> HIDE DEF f
      <4> QED
        BY <2>3, <2>4, <3>2, <4>1
    <3> QED
      BY <3>3, <3>4
  <2>6. f = [i \in 0 .. n |-> Step(f, i)]
    <3>1. f = [i \in 0 .. n |-> f[i]]
      OBVIOUS
    <3> HIDE DEF f
    <3> QED
      BY <2>5, <3>1, Zenon
  <2>7. Pass(f, k, g, w, skip, n)
    <3> HIDE DEF f
    <3> QED
      BY <2>6 DEF Pass
  <2> QED
    BY <1>3, <2>7
<1> QED
  BY <1>4, <1>5

\* strong requests let weak ones pass: skip_high_priority
GivesWay(k) == m_hog_lock_count[k] >= max_write_lock_count
Skip(k, w) == GivesWay(k) /\ w.bitmap \ Hogs(k) # {}

\* reschedule_waiters() is the last value of that function.
LEMMA RescheduleDef ==
    ASSUME NEW k, NEW g, NEW w, Len(w.list) \in Nat
    PROVE  \E f, hog : /\ Pass(f, k, g, w, Skip(k, w), Len(w.list))
                       /\ reschedule_waiters(k, g, w) = [f[Len(w.list)] EXCEPT !.hog = hog]
<1> DEFINE skip == m_hog_lock_count[k] >= max_write_lock_count /\ w.bitmap \ Hogs(k) # {}
           F == CHOOSE f : Pass(f, k, g, w, skip, Len(w.list))
           end == F[Len(w.list)]
           hog == IF end.w.bitmap \ Hogs(k) # {} THEN end.hog ELSE 0
<1>1. Pass(F, k, g, w, skip, Len(w.list))
  <2> HIDE DEF skip
  <2> QED
    BY PassExists
<1>2. reschedule_waiters(k, g, w) = [end EXCEPT !.hog = hog]
  BY DEF reschedule_waiters, Pass, Start
<1>3. skip = Skip(k, w)
  BY DEF Skip, GivesWay
<1> HIDE DEF F, hog, skip
<1> QED
  BY <1>1, <1>2, <1>3

\* Before its first iteration the loop has moved nothing.
LEMMA StartFacts ==
    ASSUME NEW k, NEW g, NEW w, Good(g), Good(w)
    PROVE  Passed(k, g, w, 0, Start(k, g, w))
<1> DEFINE s == Start(k, g, w)
<1>1. /\ s = [g |-> s.g, w |-> s.w, hog |-> s.hog, woken |-> s.woken]
      /\ s.g = g /\ s.w = w /\ s.woken = {}
  BY DEF Start
<1> HIDE DEF s
<1>2. \A y \in Tickets : MovedTicket(g, w, s, y)
  BY <1>1 DEF MovedTicket
<1>3. Passed(k, g, w, 0, s)
  BY <1>1, <1>2 DEF Passed
<1> QED
  BY <1>3 DEF s

\* The loop of reschedule_waiters(), iteration by iteration.
Loop(f, k, g, w) ==
    /\ \A i \in 1 .. Len(w.list) : f[i] = GrantTicket(k, Skip(k, w), f[i - 1], w.list[i])
    /\ \A i \in 0 .. Len(w.list) : Passed(k, g, w, i, f[i])

\* What the function returns: what the last iteration leaves, but for the hog
\* count.
Returns(s, r) ==
    /\ r.g = s.g /\ r.w = s.w /\ r.woken = s.woken
    /\ r = [g |-> r.g, w |-> r.w, hog |-> r.hog, woken |-> r.woken]

\* Every iteration has moved tickets from w to g, those whose context it has
\* woken.
LEMMA LoopFacts ==
    ASSUME NEW k, NEW g, NEW w, Good(g), Good(w), Single(w), FitTogether(g, w)
    PROVE  \E f : Loop(f, k, g, w) /\ Returns(f[Len(w.list)], reschedule_waiters(k, g, w))
<1> DEFINE n == Len(w.list)
<1>1. n \in Nat
  <2>1. w.list \in Seq(Tickets)
    BY DEF Good, TicketList
  <2> QED
    BY <2>1, LenProperties
<1> DEFINE skip == Skip(k, w)
<1>2. PICK f, hog : /\ Pass(f, k, g, w, skip, n)
                    /\ reschedule_waiters(k, g, w) = [f[n] EXCEPT !.hog = hog]
  BY <1>1, RescheduleDef
<1> HIDE DEF skip
<1> HIDE DEF n
<1>3. f[0] = Start(k, g, w)
  <2>1. 0 \in 0 .. n
    BY <1>1
  <2>2. Pass(f, k, g, w, skip, n)
    BY <1>2
  <2> QED
    BY <2>1, <2>2 DEF Pass
<1>4. \A i \in 1 .. n : f[i] = GrantTicket(k, skip, f[i - 1], w.list[i])
  <2> SUFFICES ASSUME NEW i \in 1 .. n
               PROVE  f[i] = GrantTicket(k, skip, f[i - 1], w.list[i])
    OBVIOUS
  <2>1. i \in 0 .. n /\ i # 0
    BY <1>1
  <2>2. f[i] = IF i = 0 THEN Start(k, g, w) ELSE GrantTicket(k, skip, f[i - 1], w.list[i])
    BY <1>2, <2>1, Zenon DEF Pass
  <2> QED
    BY <2>1, <2>2
<1> DEFINE Ok(i) == Passed(k, g, w, i, f[i])
           T == {i \in 0 .. n : ~Ok(i)}
<1>5. Ok(0)
  BY <1>3, StartFacts
<1>6. T = {}
  <2> SUFFICES ASSUME T # {} PROVE FALSE
    OBVIOUS
  <2>1. T \in SUBSET Nat
    BY <1>1
  <2>2. PICK m \in T : \A j \in T : m <= j
    <3> HIDE DEF T
    <3> QED
      BY <2>1, LeastNat
  <2>3. m \in 0 .. n /\ ~Ok(m)
    OBVIOUS
  <2>4. m # 0
    BY <1>5, <2>3
  <2>5. m - 1 \in 0 .. n /\ m - 1 \in Nat /\ m \in 1 .. n /\ m - 1 + 1 = m /\ m - 1 + 1 <= Len(w.list)
    BY <1>1, <2>3, <2>4 DEF n
  <2>6. m - 1 \notin T
    <3> HIDE DEF T
    <3> QED
      BY <2>2, <2>3, <2>5
  <2>7. Passed(k, g, w, m - 1, f[m - 1])
    BY <2>5, <2>6
  <2>8. PICK i \in Nat : i = m - 1
    BY <2>5
  <2>9. Passed(k, g, w, i, f[i]) /\ i + 1 <= Len(w.list) /\ i + 1 = m
    BY <2>5, <2>7, <2>8
  <2>10. Passed(k, g, w, i + 1, GrantTicket(k, skip, f[i], w.list[i + 1]))
    BY <2>9, GrantTicketFacts
  <2>11. f[m] = GrantTicket(k, skip, f[i], w.list[i + 1])
    BY <1>4, <2>5, <2>8, <2>9
  <2> QED
    BY <2>3, <2>9, <2>10, <2>11
<1>7. Passed(k, g, w, n, f[n])
  <2>1. n \in 0 .. n
    BY <1>1
  <2> QED
    BY <1>6, <2>1
<1> DEFINE s == f[n]
           r == reschedule_waiters(k, g, w)
<1>8. r = [s EXCEPT !.hog = hog]
  BY <1>2
<1> HIDE DEF r, s, Ok, T
<1>9. s = [g |-> s.g, w |-> s.w, hog |-> s.hog, woken |-> s.woken]
  BY <1>7 DEF Passed, s
<1>10. /\ r.g = s.g /\ r.w = s.w /\ r.woken = s.woken
       /\ r = [g |-> r.g, w |-> r.w, hog |-> r.hog, woken |-> r.woken]
  <2>1. r = [g |-> s.g, w |-> s.w, hog |-> hog, woken |-> s.woken]
    BY <1>8, <1>9
  <2> QED
    BY <2>1
<1>11. \A i \in 0 .. n : Passed(k, g, w, i, f[i])
  BY <1>6 DEF T, Ok
<1>12. Loop(f, k, g, w)
  BY <1>4, <1>11 DEF Loop, n, skip
<1>13. Returns(f[n], reschedule_waiters(k, g, w))
  BY <1>10 DEF Returns, s, r
<1> QED
  BY <1>12, <1>13 DEF n

\* What reschedule_waiters() does: tickets move from w to g, those whose
\* context is woken.
LEMMA RescheduleFacts ==
    ASSUME NEW k, NEW g, NEW w, Good(g), Good(w), Single(w), FitTogether(g, w)
    PROVE  Passed(k, g, w, Len(w.list), reschedule_waiters(k, g, w))
<1> DEFINE n == Len(w.list)
           r == reschedule_waiters(k, g, w)
<1>1. n \in 0 .. n
  <2>1. w.list \in Seq(Tickets)
    BY DEF Good, TicketList
  <2> QED
    BY <2>1, LenProperties
<1>2. PICK f : Loop(f, k, g, w) /\ Returns(f[n], r)
  BY LoopFacts
<1> DEFINE s == f[n]
<1>3. Passed(k, g, w, n, s) /\ Returns(s, r)
  BY <1>1, <1>2 DEF Loop
<1> HIDE DEF r, s, n
<1>4. \A y \in Tickets : MovedTicket(g, w, r, y)
  <2>1. \A y \in Tickets : MovedTicket(g, w, s, y)
    BY <1>3 DEF Passed
  <2> QED
    BY <1>3, <2>1 DEF MovedTicket, Returns
<1>5. Passed(k, g, w, n, r)
  BY <1>3, <1>4 DEF Passed, Returns
<1> QED
  BY <1>5 DEF r, n

-----------------------------------------------------------------------------
(* One step *)

\* no object ever has as many tickets as a counter can count
AllFit == \A k \in Keys : FitTogether(m_granted[k], m_waiting[k])

\* what a step of another context leaves to context d
Other(d) ==
    /\ pc'[d] = pc[d] /\ cur'[d] = cur[d] /\ call'[d] = call[d] /\ result'[d] = result[d]
    /\ m_tickets'[d] = m_tickets[d]
    /\ m_wait'[d] = m_wait[d] \/ m_wait[d] = "EMPTY"

\* What is known of the call of d survives the steps of others.
LEMMA OtherCallOk ==
    ASSUME NEW d \in Ctx, CallOk(d), Other(d)
    PROVE  CallOk(d)'
<1>1. /\ pc[d] = "woken" => Told(result'[d], m_wait'[d])
      /\ pc[d] = "withdraw" => Told(result'[d], m_wait'[d]) /\ result'[d] # "GRANTED"
  BY DEF CallOk, Other, Told
<1>2. /\ pc[d] \in Waiting \cup {"merge"} => cur[d] \in Reqs
      /\ pc[d] = "more" => call[d].more # <<>> /\ call[d].kind # "upgrade"
      /\ call[d].more # <<>> => "X" \in Types
      /\ pc[d] \in Waiting => UpgradeOk(m_tickets[d], cur[d], call[d])
      /\ pc[d] = "merge" => MergeOk(m_tickets[d], cur[d], call[d])
  BY DEF CallOk
<1>3. /\ UpgradeOk(m_tickets[d], cur[d], call[d])' = UpgradeOk(m_tickets'[d], cur'[d], call'[d])
      /\ MergeOk(m_tickets[d], cur[d], call[d])' = MergeOk(m_tickets'[d], cur'[d], call'[d])
  BY DEF UpgradeOk, MergeOk, HasIt, Stronger, Reqs
<1> QED
  BY <1>1, <1>2, <1>3 DEF CallOk, Other, Reqs, Waiting

KeptKey(k) ==
    /\ m_granted'[k] = m_granted[k] /\ m_waiting'[k] = m_waiting[k]
    /\ \A d \in Ctx, t \in Types :
          /\ Occ(m_tickets'[d], OfLock(k, t)) = Occ(m_tickets[d], OfLock(k, t))
          /\ PendingIn(d, k, t)' = PendingIn(d, k, t)
          /\ OnItsWay(d, k, t)' = OnItsWay(d, k, t)

\* A key that a step leaves alone stays right.
LEMMA KeptKeyOk ==
    ASSUME NEW k \in Keys, ListOk(k), KeptKey(k)
    PROVE  ListOk(k)'
<1>1. Good(m_granted'[k]) /\ Good(m_waiting'[k])
  BY DEF KeptKey, ListOk
<1>2. ASSUME NEW d \in Ctx, NEW t \in Types
      PROVE  /\ Mult(m_waiting'[k].list, Ticket(d, t)) = PendingIn(d, k, t)'
             /\ Mult(m_granted'[k].list, Ticket(d, t)) =
                    Occ(m_tickets'[d], OfLock(k, t)) + OnItsWay(d, k, t)'
  BY DEF KeptKey, ListOk
<1> QED
  BY <1>1, <1>2 DEF ListOk, Good, Agrees, Mult, Occ, OfLock, OfType, Ticket, TicketList, Tickets, Reqs

NoConflictsKept == Clonable /\ NoConflicts => NoConflicts'

\* A step of c keeps the invariant if it keeps types, lists, the call of c and
\* leaves others alone.
LEMMA StepKeeps ==
    ASSUME MdlInv, NEW c \in Ctx, MdlTypes', \A k \in Keys : ListOk(k)', CallOk(c)',
           \A d \in Ctx \ {c} : Other(d), NoConflictsKept
    PROVE  MdlInv'
<1>1. ASSUME NEW d \in Ctx PROVE CallOk(d)'
  <2>1. CASE d = c
    BY <2>1
  <2>2. CASE d # c
    BY <2>2, OtherCallOk DEF MdlInv
  <2> QED
    BY <2>1, <2>2
<1>2. Clonable' <=> Clonable
  BY DEF Clonable, Clash, Incompatible
<1>3. Clonable' => NoConflicts'
  BY <1>2 DEF MdlInv, NoConflictsKept
<1> QED
  BY <1>1, <1>3 DEF MdlInv

\* A step that changes nobody's tickets and whether nobody waits.
LEMMA QuietStep ==
    ASSUME MdlInv, NEW c \in Ctx, UNCHANGED <<m_granted, m_waiting, m_tickets>>,
           MdlTypes', CallOk(c)', \A d \in Ctx \ {c} : Other(d),
           \A d \in Ctx : /\ pc'[d] \in Waiting <=> pc[d] \in Waiting
                          /\ pc[d] \in Waiting =>
                                /\ cur'[d] = cur[d]
                                /\ m_wait'[d] = "GRANTED" <=> m_wait[d] = "GRANTED"
    PROVE  MdlInv'
<1>1. ASSUME NEW k \in Keys PROVE ListOk(k)'
  <2>1. ASSUME NEW d \in Ctx, NEW t \in Types
        PROVE  PendingIn(d, k, t)' = PendingIn(d, k, t) /\ OnItsWay(d, k, t)' = OnItsWay(d, k, t)
    <3>1. WaitsIn(d, k, t)' <=> WaitsIn(d, k, t)
      BY DEF WaitsIn, Waiting
    <3>2. WaitsIn(d, k, t) => (m_wait'[d] = "GRANTED" <=> m_wait[d] = "GRANTED")
      BY DEF WaitsIn
    <3> QED
      BY <3>1, <3>2 DEF PendingIn, OnItsWay
  <2>2. KeptKey(k)
    BY <2>1 DEF KeptKey
  <2> QED
    BY <2>2, KeptKeyOk DEF MdlInv
<1>2. NoConflictsKept
  BY DEF NoConflictsKept, NoConflicts, NoConflict, Compatible, Incompatible, Mult, Occ, Tickets
<1> QED
  BY <1>1, <1>2, StepKeeps

-----------------------------------------------------------------------------
(* Rescheduled(): the lists of key k are g and w before the pass *)

Waits1(d, k, t) == pc'[d] \in Waiting /\ cur'[d].key = k /\ cur'[d].type = t
Pending1(d, k, t) == IF Waits1(d, k, t) /\ m_wait[d] # "GRANTED" THEN 1 ELSE 0
OnItsWay1(d, k, t) == IF Waits1(d, k, t) /\ m_wait[d] = "GRANTED" THEN 1 ELSE 0

\* g and w are right for what the step has changed, but for the wait slots
Before(k, g, w) ==
    /\ Good(g) /\ Good(w) /\ FitTogether(g, w) /\ m_tickets' \in [Ctx -> Seq(Reqs)]
    /\ \A d \in Ctx, t \in Types :
          /\ Mult(w.list, Ticket(d, t)) = Pending1(d, k, t)
          /\ Mult(g.list, Ticket(d, t)) = Occ(m_tickets'[d], OfLock(k, t)) + OnItsWay1(d, k, t)

\* A ticket is its context and its type.
LEMMA TicketFacts ==
    /\ \A y \in Tickets : y.ctx \in Ctx /\ y.type \in Types /\ y = Ticket(y.ctx, y.type)
    /\ \A d \in Ctx, t \in Types : /\ Ticket(d, t) \in Tickets
                                   /\ Ticket(d, t).ctx = d /\ Ticket(d, t).type = t
  BY DEF Tickets, Ticket

\* A context waits with one ticket, because it waits in one place.
LEMMA BeforeSingle ==
    ASSUME NEW k, NEW g, NEW w, Before(k, g, w)
    PROVE  Single(w)
<1> SUFFICES ASSUME NEW y \in Tickets, NEW z \in Tickets,
                    y.ctx = z.ctx, Mult(w.list, y) > 0, Mult(w.list, z) > 0
             PROVE  y = z /\ Mult(w.list, y) = 1
  BY DEF Single
<1>1. /\ y.ctx \in Ctx /\ y.type \in Types /\ y = Ticket(y.ctx, y.type)
      /\ z.ctx \in Ctx /\ z.type \in Types /\ z = Ticket(z.ctx, z.type)
  BY TicketFacts
<1>2. /\ Mult(w.list, y) = Pending1(y.ctx, k, y.type)
      /\ Mult(w.list, z) = Pending1(z.ctx, k, z.type)
  <2>1. \A d \in Ctx, t \in Types : Mult(w.list, Ticket(d, t)) = Pending1(d, k, t)
    BY DEF Before
  <2>2. /\ Mult(w.list, Ticket(y.ctx, y.type)) = Pending1(y.ctx, k, y.type)
        /\ Mult(w.list, Ticket(z.ctx, z.type)) = Pending1(z.ctx, k, z.type)
    BY <1>1, <2>1
  <2> QED
    BY <1>1, <2>2
<1>3. Waits1(y.ctx, k, y.type) /\ Mult(w.list, y) = 1
  BY <1>2 DEF Pending1
<1>4. Waits1(z.ctx, k, z.type)
  BY <1>2 DEF Pending1
<1>5. y.type = z.type
  BY <1>3, <1>4 DEF Waits1
<1> QED
  BY <1>1, <1>3, <1>5

\* A step after which the lists of k are g and w, some tickets moved from w to
\* g, and their contexts woken.
Moved(k, g, w, s) ==
    /\ Passed(k, g, w, Len(w.list), s)
    /\ m_granted'[k] = s.g /\ m_waiting'[k] = s.w
    /\ \A d \in Ctx : m_wait'[d] = IF d \in s.woken THEN "GRANTED" ELSE m_wait[d]

\* After the pass the lists of k are right, and whoever was woken waits for k.
LEMMA MovedOk ==
    ASSUME NEW k \in Keys, NEW g, NEW w, Before(k, g, w), NEW s, Moved(k, g, w, s)
    PROVE  /\ ListOk(k)'
           /\ \A d \in s.woken : pc'[d] \in Waiting /\ cur'[d].key = k
<1>1. ASSUME NEW d \in s.woken
      PROVE  d \in Ctx /\ pc'[d] \in Waiting /\ cur'[d].key = k /\ m_wait[d] = "EMPTY"
  <2>1. PICK j \in 1 .. Len(w.list) : w.list[j].ctx = d
    BY DEF Moved, Passed
  <2>2. d \in Ctx /\ m_wait[d] = "EMPTY"
    BY DEF Moved, Passed, MayWake
  <2>3. w.list \in Seq(Tickets) /\ Good(w)
    BY DEF Before, Good, TicketList
  <2>4. w.list[j] \in Tickets
    BY <2>3, ElementOfSeq
  <2> DEFINE y == w.list[j]
  <2>5. Mult(w.list, y) > 0
    BY <2>3, <2>4, MultFacts
  <2>6. y \in Tickets /\ y.ctx = d
    BY <2>1, <2>4
  <2> HIDE DEF y
  <2>7. y.type \in Types /\ y = Ticket(d, y.type)
    BY <2>6, TicketFacts
  <2>8. Mult(w.list, Ticket(d, y.type)) = Pending1(d, k, y.type)
    BY <2>2, <2>7 DEF Before
  <2>9. Waits1(d, k, y.type)
    BY <2>5, <2>7, <2>8 DEF Pending1
  <2> QED
    BY <2>2, <2>9 DEF Waits1
<1>2. ASSUME NEW d \in Ctx, NEW t \in Types
      PROVE  /\ Mult(s.w.list, Ticket(d, t)) = PendingIn(d, k, t)'
             /\ Mult(s.g.list, Ticket(d, t)) = Occ(m_tickets'[d], OfLock(k, t)) + OnItsWay(d, k, t)'
  <2> DEFINE y == Ticket(d, t)
             n == Occ(m_tickets'[d], OfLock(k, t))
  <2>1. y \in Tickets /\ y.ctx = d
    BY TicketFacts
  <2>2. MovedTicket(g, w, s, y)
    BY <2>1 DEF Moved, Passed
  <2>3. Mult(w.list, y) = Pending1(d, k, t) /\ Mult(g.list, y) = n + OnItsWay1(d, k, t)
    BY DEF Before
  <2>4. WaitsIn(d, k, t)' <=> Waits1(d, k, t)
    BY DEF WaitsIn, Waits1, Waiting
  <2>5. m_wait'[d] = IF d \in s.woken THEN "GRANTED" ELSE m_wait[d]
    BY DEF Moved
  <2>6. Mult(g.list, y) \in Nat
    BY <2>1, MultFacts DEF Before
  <2>7. /\ PendingIn(d, k, t)' = IF Waits1(d, k, t) /\ m_wait'[d] # "GRANTED" THEN 1 ELSE 0
        /\ OnItsWay(d, k, t)' = IF Waits1(d, k, t) /\ m_wait'[d] = "GRANTED" THEN 1 ELSE 0
    BY <2>4 DEF PendingIn, OnItsWay
  <2> HIDE DEF y, n
  <2>8. CASE d \in s.woken
    <3>1. m_wait[d] = "EMPTY" /\ m_wait'[d] = "GRANTED"
      BY <1>1, <2>5, <2>8
    <3>2. Mult(s.w.list, y) = 0 /\ Mult(s.g.list, y) = Mult(g.list, y) + Mult(w.list, y)
      BY <2>1, <2>2, <2>8 DEF MovedTicket
    <3>3. OnItsWay1(d, k, t) = 0 /\ PendingIn(d, k, t)' = 0 /\ OnItsWay(d, k, t)' = Pending1(d, k, t)
      BY <2>7, <3>1 DEF OnItsWay1, Pending1
    <3>4. Mult(g.list, y) = n + 0 /\ Mult(w.list, y) = OnItsWay(d, k, t)'
      BY <2>3, <3>3
    <3>5. n \in Nat
      <4>1. m_tickets'[d] \in Seq(Reqs)
        BY DEF Before
      <4> QED
        BY <4>1, OccFacts DEF n
    <3> QED
      BY <3>2, <3>3, <3>4, <3>5 DEF y, n
  <2>9. CASE d \notin s.woken
    <3>1. m_wait'[d] = m_wait[d]
      BY <2>5, <2>9
    <3>2. PendingIn(d, k, t)' = Pending1(d, k, t) /\ OnItsWay(d, k, t)' = OnItsWay1(d, k, t)
      BY <2>7, <3>1 DEF Pending1, OnItsWay1
    <3>3. Mult(s.w.list, y) = Mult(w.list, y) /\ Mult(s.g.list, y) = Mult(g.list, y)
      BY <2>1, <2>2, <2>9 DEF MovedTicket
    <3> QED
      BY <2>3, <3>2, <3>3 DEF y, n
  <2> QED
    BY <2>8, <2>9
<1>3. Good(m_granted'[k]) /\ Good(m_waiting'[k])
  BY DEF Moved, Passed
<1>4. ASSUME NEW d \in Ctx, NEW t \in Types
      PROVE  /\ Mult(m_waiting'[k].list, Ticket(d, t)) = PendingIn(d, k, t)'
             /\ Mult(m_granted'[k].list, Ticket(d, t)) =
                    Occ(m_tickets'[d], OfLock(k, t)) + OnItsWay(d, k, t)'
  BY <1>2 DEF Moved
<1>5. ListOk(k)'
  BY <1>3, <1>4 DEF ListOk, Good, Agrees, Mult, Occ, OfLock, OfType, Ticket, TicketList, Tickets, Reqs
<1> QED
  BY <1>1, <1>5

\* The whole of a step that removes or replaces tickets of k and reschedules.
MovedStep(k, g, w, s) ==
    /\ Moved(k, g, w, s)
    /\ m_granted' = [m_granted EXCEPT ![k] = s.g] /\ m_waiting' = [m_waiting EXCEPT ![k] = s.w]
    /\ m_wait' \in [Ctx -> Statuses]

\* Rescheduled() is such a step.
LEMMA RescheduledMoved ==
    ASSUME MdlTypes, NEW k \in Keys, NEW g, NEW w, Before(k, g, w), Rescheduled(k, g, w)
    PROVE  \E s : MovedStep(k, g, w, s)
<1> DEFINE s == reschedule_waiters(k, g, w)
<1>1. Passed(k, g, w, Len(w.list), s)
  BY BeforeSingle, RescheduleFacts DEF Before
<1>2. /\ m_granted' = [m_granted EXCEPT ![k] = s.g] /\ m_waiting' = [m_waiting EXCEPT ![k] = s.w]
      /\ m_wait' = [d \in Ctx |-> IF d \in s.woken THEN "GRANTED" ELSE m_wait[d]]
  BY DEF Rescheduled, SetLists
<1> HIDE DEF s
<1>3. m_granted'[k] = s.g /\ m_waiting'[k] = s.w
  BY <1>2 DEF MdlTypes
<1>4. m_wait' \in [Ctx -> Statuses]
  BY <1>2 DEF MdlTypes, Statuses
<1>5. \A d \in Ctx : m_wait'[d] = IF d \in s.woken THEN "GRANTED" ELSE m_wait[d]
  BY <1>2
<1>6. Moved(k, g, w, s)
  BY <1>1, <1>3, <1>5 DEF Moved
<1> QED
  BY <1>2, <1>4, <1>6 DEF MovedStep

\* So is Removed(): with both lists empty there is nothing to reschedule.
LEMMA RemovedMoved ==
    ASSUME MdlTypes, NEW k \in Keys, NEW g, NEW w, Before(k, g, w), Removed(k, g, w)
    PROVE  \E s : MovedStep(k, g, w, s)
<1>1. CASE g.list = <<>> /\ w.list = <<>>
  <2> DEFINE s == Start(k, g, w)
  <2>1. Passed(k, g, w, 0, s)
    BY StartFacts DEF Before
  <2>2. Len(w.list) = 0
    BY <1>1
  <2>3. s.g = g /\ s.w = w /\ s.woken = {}
    BY DEF Start
  <2>4. /\ m_granted' = [m_granted EXCEPT ![k] = g] /\ m_waiting' = [m_waiting EXCEPT ![k] = w]
        /\ m_wait' = m_wait
    BY <1>1 DEF Removed, SetLists
  <2> HIDE DEF s
  <2>5. m_granted'[k] = s.g /\ m_waiting'[k] = s.w
    BY <2>3, <2>4 DEF MdlTypes
  <2>6. Moved(k, g, w, s)
    BY <2>1, <2>2, <2>3, <2>4, <2>5 DEF Moved
  <2>7. MovedStep(k, g, w, s)
    BY <2>3, <2>4, <2>6 DEF MovedStep, MdlTypes
  <2> QED
    BY <2>7
<1>2. CASE ~(g.list = <<>> /\ w.list = <<>>)
  BY <1>2, RescheduledMoved DEF Removed
<1> QED
  BY <1>1, <1>2

\* nothing of d changes but its wait slot
Untouched(d) ==
    /\ pc'[d] = pc[d] /\ cur'[d] = cur[d] /\ call'[d] = call[d] /\ result'[d] = result[d]
    /\ m_tickets'[d] = m_tickets[d]

\* A step of c that changes tickets of k and reschedules keeps the invariant.
LEMMA MovedKeeps ==
    ASSUME MdlInv, NEW c \in Ctx, NEW k \in Keys, NEW g, NEW w, Before(k, g, w),
           NEW s, MovedStep(k, g, w, s),
           pc' \in [Ctx -> Labels], cur' \in [Ctx -> Reqs \cup {NoRequest}],
           call' \in [Ctx -> Calls], result' \in [Ctx -> Results],
           CallOk(c)', \A d \in Ctx \ {c} : Untouched(d),
           pc[c] \notin Waiting \/ cur[c].key = k, pc'[c] \notin Waiting,
           \A j \in Keys \ {k}, t \in Types :
               Occ(m_tickets'[c], OfLock(j, t)) = Occ(m_tickets[c], OfLock(j, t)),
           Clonable /\ NoConflict(k, m_granted[k].list) => NoConflict(k, g.list)
    PROVE  MdlInv'
<1>1. ListOk(k)' /\ \A d \in s.woken : pc'[d] \in Waiting /\ cur'[d].key = k
  BY MovedOk DEF MovedStep
<1>2. \A d \in s.woken : d \in Ctx /\ m_wait[d] = "EMPTY" /\ d # c
  BY <1>1 DEF MovedStep, Moved, Passed, MayWake
<1>3. \A d \in Ctx : m_wait'[d] = IF d \in s.woken THEN "GRANTED" ELSE m_wait[d]
  BY DEF MovedStep, Moved
<1>4. MdlTypes'
  <2>1. s.g \in TicketList /\ s.w \in TicketList
    BY DEF MovedStep, Moved, Passed, Good
  <2>2. m_granted' \in [Keys -> TicketList] /\ m_waiting' \in [Keys -> TicketList]
    BY <2>1 DEF MovedStep, MdlInv, MdlTypes
  <2> QED
    BY <2>2 DEF MdlTypes, MovedStep, Before, TicketList, Tickets, Reqs, Calls
<1>5. \A d \in Ctx \ {c} : Other(d)
  BY <1>2, <1>3 DEF Other, Untouched
<1>6. \A j \in Keys \ {k} : m_granted'[j] = m_granted[j] /\ m_waiting'[j] = m_waiting[j]
  BY DEF MovedStep, MdlInv, MdlTypes
<1>7. ASSUME NEW j \in Keys, j # k PROVE ListOk(j)'
  <2>1. ASSUME NEW d \in Ctx, NEW t \in Types
        PROVE  /\ Occ(m_tickets'[d], OfLock(j, t)) = Occ(m_tickets[d], OfLock(j, t))
               /\ PendingIn(d, j, t)' = PendingIn(d, j, t)
               /\ OnItsWay(d, j, t)' = OnItsWay(d, j, t)
    <3>1. CASE d = c
      <4>1. ~WaitsIn(d, j, t) /\ ~WaitsIn(d, j, t)'
        BY <1>7, <3>1 DEF WaitsIn, Waiting
      <4>2. Occ(m_tickets'[d], OfLock(j, t)) = Occ(m_tickets[d], OfLock(j, t))
        BY <1>7, <3>1
      <4> QED
        BY <4>1, <4>2 DEF PendingIn, OnItsWay
    <3>2. CASE d # c
      <4>1. Untouched(d)
        BY <3>2
      <4>2. WaitsIn(d, j, t)' <=> WaitsIn(d, j, t)
        BY <4>1 DEF Untouched, WaitsIn, Waiting
      <4>3. WaitsIn(d, j, t) => m_wait'[d] = m_wait[d]
        <5>1. d \in s.woken => cur[d].key = k
          BY <1>1, <4>1 DEF Untouched
        <5>2. d \in s.woken => ~WaitsIn(d, j, t)
          BY <1>7, <5>1 DEF WaitsIn
        <5> QED
          BY <1>3, <5>2
      <4>4. m_tickets'[d] = m_tickets[d]
        BY <4>1 DEF Untouched
      <4> QED
        BY <4>2, <4>3, <4>4 DEF PendingIn, OnItsWay
    <3> QED
      BY <3>1, <3>2
  <2>2. KeptKey(j)
    BY <1>6, <1>7, <2>1 DEF KeptKey
  <2> QED
    BY <2>2, KeptKeyOk DEF MdlInv
<1>8. \A j \in Keys : ListOk(j)'
  BY <1>1, <1>7
<1>9. NoConflictsKept
  <2> SUFFICES ASSUME Clonable, NoConflicts, NEW j \in Keys PROVE NoConflict(j, m_granted'[j].list)
    BY DEF NoConflictsKept, NoConflicts, NoConflict, Compatible, Incompatible, Mult, Occ, Tickets
  <2>1. NoConflict(j, m_granted[j].list)
    BY DEF NoConflicts
  <2>2. CASE j = k
    <3>1. NoConflict(k, g.list)
      BY <2>1, <2>2
    <3> QED
      BY <2>2, <3>1 DEF MovedStep, Moved, Passed
  <2>3. CASE j # k
    BY <1>6, <2>1, <2>3
  <2> QED
    BY <2>2, <2>3
<1> QED
  BY <1>4, <1>5, <1>8, <1>9, StepKeeps

\* A step of context c that changes the lists of key k only, and wakes nobody.
OneKey(c, k) ==
    /\ \A j \in Keys \ {k} : m_granted'[j] = m_granted[j] /\ m_waiting'[j] = m_waiting[j]
    /\ \A d \in Ctx \ {c} : Untouched(d) /\ m_wait'[d] = m_wait[d]
    /\ Good(m_granted'[k]) /\ Good(m_waiting'[k])
    /\ \A d \in Ctx \ {c}, t \in Types :
          /\ Mult(m_granted'[k].list, Ticket(d, t)) = Mult(m_granted[k].list, Ticket(d, t))
          /\ Mult(m_waiting'[k].list, Ticket(d, t)) = Mult(m_waiting[k].list, Ticket(d, t))
    /\ \A t \in Types :
          /\ Mult(m_waiting'[k].list, Ticket(c, t)) = PendingIn(c, k, t)'
          /\ Mult(m_granted'[k].list, Ticket(c, t)) =
                 Occ(m_tickets'[c], OfLock(k, t)) + OnItsWay(c, k, t)'
    /\ \A j \in Keys \ {k}, t \in Types :
           Occ(m_tickets'[c], OfLock(j, t)) = Occ(m_tickets[c], OfLock(j, t))
    /\ pc[c] \notin Waiting \/ cur[c].key = k
    /\ pc'[c] \notin Waiting \/ cur'[c].key = k

\* Such a step keeps the invariant.
LEMMA OneKeyKeeps ==
    ASSUME MdlInv, NEW c \in Ctx, NEW k \in Keys, OneKey(c, k), MdlTypes', CallOk(c)',
           Clonable /\ NoConflict(k, m_granted[k].list) => NoConflict(k, m_granted'[k].list)
    PROVE  MdlInv'
<1>1. ASSUME NEW j \in Keys, NEW d \in Ctx, d # c, NEW t \in Types
      PROVE  /\ Occ(m_tickets'[d], OfLock(j, t)) = Occ(m_tickets[d], OfLock(j, t))
             /\ PendingIn(d, j, t)' = PendingIn(d, j, t)
             /\ OnItsWay(d, j, t)' = OnItsWay(d, j, t)
  <2>1. Untouched(d) /\ m_wait'[d] = m_wait[d]
    BY <1>1 DEF OneKey
  <2>2. WaitsIn(d, j, t)' <=> WaitsIn(d, j, t)
    BY <2>1 DEF Untouched, WaitsIn, Waiting
  <2>3. m_tickets'[d] = m_tickets[d]
    BY <2>1 DEF Untouched
  <2> QED
    BY <2>1, <2>2, <2>3 DEF PendingIn, OnItsWay
<1>2. ASSUME NEW j \in Keys, j # k PROVE ListOk(j)'
  <2>1. ASSUME NEW t \in Types
        PROVE  /\ Occ(m_tickets'[c], OfLock(j, t)) = Occ(m_tickets[c], OfLock(j, t))
               /\ PendingIn(c, j, t)' = PendingIn(c, j, t)
               /\ OnItsWay(c, j, t)' = OnItsWay(c, j, t)
    <3>1. ~WaitsIn(c, j, t) /\ ~WaitsIn(c, j, t)'
      BY <1>2 DEF OneKey, WaitsIn, Waiting
    <3>2. Occ(m_tickets'[c], OfLock(j, t)) = Occ(m_tickets[c], OfLock(j, t))
      BY <1>2 DEF OneKey
    <3> QED
      BY <3>1, <3>2 DEF PendingIn, OnItsWay
  <2>2. ASSUME NEW d \in Ctx, NEW t \in Types
        PROVE  /\ Occ(m_tickets'[d], OfLock(j, t)) = Occ(m_tickets[d], OfLock(j, t))
               /\ PendingIn(d, j, t)' = PendingIn(d, j, t)
               /\ OnItsWay(d, j, t)' = OnItsWay(d, j, t)
    <3>1. CASE d = c
      BY <2>1, <3>1
    <3>2. CASE d # c
      BY <1>1, <3>2
    <3> QED
      BY <3>1, <3>2
  <2>3. m_granted'[j] = m_granted[j] /\ m_waiting'[j] = m_waiting[j]
    BY <1>2 DEF OneKey
  <2>4. KeptKey(j)
    BY <2>2, <2>3 DEF KeptKey
  <2> QED
    BY <2>4, KeptKeyOk DEF MdlInv
<1>3. ListOk(k)'
  <2>1. Good(m_granted'[k]) /\ Good(m_waiting'[k])
    BY DEF OneKey
  <2>2. ASSUME NEW d \in Ctx, NEW t \in Types
        PROVE  /\ Mult(m_waiting'[k].list, Ticket(d, t)) = PendingIn(d, k, t)'
               /\ Mult(m_granted'[k].list, Ticket(d, t)) =
                      Occ(m_tickets'[d], OfLock(k, t)) + OnItsWay(d, k, t)'
    <3>1. CASE d = c
      BY <3>1 DEF OneKey
    <3>2. CASE d # c
      <4>1. /\ Mult(m_granted'[k].list, Ticket(d, t)) = Mult(m_granted[k].list, Ticket(d, t))
            /\ Mult(m_waiting'[k].list, Ticket(d, t)) = Mult(m_waiting[k].list, Ticket(d, t))
        BY <3>2 DEF OneKey
      <4>2. /\ Mult(m_waiting[k].list, Ticket(d, t)) = PendingIn(d, k, t)
            /\ Mult(m_granted[k].list, Ticket(d, t)) =
                      Occ(m_tickets[d], OfLock(k, t)) + OnItsWay(d, k, t)
        BY DEF MdlInv, ListOk
      <4>3. /\ Occ(m_tickets'[d], OfLock(k, t)) = Occ(m_tickets[d], OfLock(k, t))
            /\ PendingIn(d, k, t)' = PendingIn(d, k, t)
            /\ OnItsWay(d, k, t)' = OnItsWay(d, k, t)
        BY <1>1, <3>2
      <4> QED
        BY <4>1, <4>2, <4>3
    <3> QED
      BY <3>1, <3>2
  <2> QED
    BY <2>1, <2>2 DEF ListOk, Good, Agrees, Mult, Occ, OfLock, OfType, Ticket, TicketList, Tickets, Reqs
<1>4. \A j \in Keys : ListOk(j)'
  BY <1>2, <1>3
<1>5. \A d \in Ctx \ {c} : Other(d)
  BY DEF OneKey, Other, Untouched
<1>6. NoConflictsKept
  <2> SUFFICES ASSUME Clonable, NoConflicts, NEW j \in Keys PROVE NoConflict(j, m_granted'[j].list)
    BY DEF NoConflictsKept, NoConflicts, NoConflict, Compatible, Incompatible, Mult, Occ, Tickets
  <2>1. NoConflict(j, m_granted[j].list)
    BY DEF NoConflicts
  <2>2. j # k => m_granted'[j] = m_granted[j]
    BY DEF OneKey
  <2> QED
    BY <2>1, <2>2
<1> QED
  BY <1>4, <1>5, <1>6, StepKeeps

-----------------------------------------------------------------------------
(* The locals of a call *)

\* What Continue() does to the locals of the call.
LEMMA ContinueFacts ==
    ASSUME MdlTypes, NEW c \in Ctx, NEW label \in Labels, NEW r \in Reqs \cup {NoRequest},
           NEW cl \in Calls, Continue(c, label, r, cl)
    PROVE  /\ pc' \in [Ctx -> Labels] /\ cur' \in [Ctx -> Reqs \cup {NoRequest}]
           /\ call' \in [Ctx -> Calls]
           /\ pc'[c] = label
           /\ cur'[c] = IF label \in {"run", "release"} THEN NoRequest ELSE r
           /\ call'[c] = IF label \in {"run", "release"} THEN NoCall ELSE cl
           /\ \A d \in Ctx \ {c} : pc'[d] = pc[d] /\ cur'[d] = cur[d] /\ call'[d] = call[d]
<1>1. NoCall \in Calls
  BY EmptySeq DEF NoCall, Calls
<1>2. pc' \in [Ctx -> Labels] /\ pc'[c] = label /\ \A d \in Ctx \ {c} : pc'[d] = pc[d]
  BY DEF MdlTypes, Continue, Goto
<1>3. /\ cur' \in [Ctx -> Reqs \cup {NoRequest}]
      /\ cur'[c] = IF label \in {"run", "release"} THEN NoRequest ELSE r
      /\ \A d \in Ctx \ {c} : cur'[d] = cur[d]
  BY DEF MdlTypes, Continue
<1>4. /\ call' \in [Ctx -> Calls]
      /\ call'[c] = IF label \in {"run", "release"} THEN NoCall ELSE cl
      /\ \A d \in Ctx \ {c} : call'[d] = call[d]
  BY <1>1 DEF MdlTypes, Continue
<1> QED
  BY <1>2, <1>3, <1>4

\* What Push() does to the tickets of a context.
LEMMA PushFacts ==
    ASSUME NEW s \in Seq(Reqs), NEW r \in Reqs
    PROVE  /\ <<r>> \o s \in Seq(Reqs) /\ Len(<<r>> \o s) = Len(s) + 1
           /\ Head(<<r>> \o s) = r /\ Tail(<<r>> \o s) = s
           /\ \A j, t : Occ(<<r>> \o s, OfLock(j, t)) =
                  Occ(s, OfLock(j, t)) + IF r.key = j /\ r.type = t THEN 1 ELSE 0
<1> DEFINE p == <<r>> \o s
<1>0. Len(s) \in Nat
  BY LenProperties
<1>1. <<r>> \in Seq(Reqs) /\ Len(<<r>>) = 1 /\ <<r>>[1] = r
  OBVIOUS
<1>2. /\ p \in Seq(Reqs) /\ Len(p) = 1 + Len(s)
      /\ \A i \in 1 .. 1 + Len(s) : p[i] = IF i <= 1 THEN <<r>>[i] ELSE s[i - 1]
  BY <1>1, ConcatProperties
<1>3. \A j, t : Occ(p, OfLock(j, t)) = Occ(s, OfLock(j, t)) + In(r, OfLock(j, t))
  BY OccCons
<1>4. \A j, t : In(r, OfLock(j, t)) = IF r.key = j /\ r.type = t THEN 1 ELSE 0
  BY DEF In, OfLock
<1> HIDE DEF p
<1>5. p # <<>>
  <2>1. Len(p) # 0
    BY <1>0, <1>2
  <2> QED
    BY <2>1
<1>6. p[1] = r
  BY <1>0, <1>1, <1>2
<1>7. Head(p) = p[1]
  BY <1>2, <1>5
<1> DEFINE q == Tail(p)
<1>8. q \in Seq(Reqs) /\ Len(q) = Len(p) - 1 /\ \A i \in 1 .. Len(q) : q[i] = p[i + 1]
  BY <1>2, <1>5, HeadTailProperties
<1> HIDE DEF q
<1>9. Len(q) = Len(s)
  BY <1>0, <1>2, <1>8
<1>10. \A i \in 1 .. Len(s) : q[i] = s[i]
  <2> SUFFICES ASSUME NEW i \in 1 .. Len(s) PROVE q[i] = s[i]
    OBVIOUS
  <2>1. q[i] = p[i + 1]
    BY <1>8, <1>9
  <2>2. i + 1 \in 1 .. 1 + Len(s) /\ ~(i + 1 <= 1) /\ i + 1 - 1 = i
    BY <1>0
  <2> QED
    BY <1>2, <2>1, <2>2
<1>11. q = s
  BY <1>8, <1>9, <1>10, SeqEqual
<1>12. Len(p) = Len(s) + 1
  BY <1>0, <1>2
<1> QED
  BY <1>2, <1>3, <1>4, <1>6, <1>7, <1>11, <1>12 DEF p, q

\* CallOk() of the next state, conjunct by conjunct.
LEMMA CallOkPrime ==
    ASSUME NEW c,
           pc'[c] \in Waiting \cup {"merge"} => cur'[c] \in Reqs,
           pc'[c] = "woken" => Told(result'[c], m_wait'[c]),
           pc'[c] = "withdraw" => Told(result'[c], m_wait'[c]) /\ result'[c] # "GRANTED",
           pc'[c] = "more" => call'[c].more # <<>> /\ call'[c].kind # "upgrade",
           call'[c].more # <<>> => "X" \in Types,
           pc'[c] \in Waiting => UpgradeOk(m_tickets'[c], cur'[c], call'[c]),
           pc'[c] = "merge" => MergeOk(m_tickets'[c], cur'[c], call'[c])
    PROVE  CallOk(c)'
<1>1. /\ UpgradeOk(m_tickets[c], cur[c], call[c])' = UpgradeOk(m_tickets'[c], cur'[c], call'[c])
      /\ MergeOk(m_tickets[c], cur[c], call[c])' = MergeOk(m_tickets'[c], cur'[c], call'[c])
  BY DEF UpgradeOk, MergeOk, HasIt, Stronger, Reqs
<1> QED
  BY <1>1 DEF CallOk, Reqs, Waiting

\* A call goes on once its request has been granted.
Continued(c, label, r, cl) ==
    /\ pc'[c] = label
    /\ cur'[c] = (IF label \in {"run", "release"} THEN NoRequest ELSE r)
    /\ call'[c] = (IF label \in {"run", "release"} THEN NoCall ELSE cl)

\* The call of a context whose request has just been granted.
LEMMA AfterOk ==
    ASSUME NEW c, NEW r \in Reqs, NEW cl \in Calls, Continued(c, After(cl), r, cl),
           cl.more # <<>> => "X" \in Types,
           cl.kind = "upgrade" => MergeOk(m_tickets'[c], r, cl)
    PROVE  CallOk(c)' /\ After(cl) \in Labels /\ pc'[c] \notin Waiting
<1>1. /\ After(cl) \in {"merge", "more", "run"}
      /\ After(cl) = "merge" => cl.kind = "upgrade"
      /\ After(cl) = "more" => cl.more # <<>> /\ cl.kind # "upgrade"
  BY DEF After
<1>2. pc'[c] \in {"merge", "more", "run"}
  BY <1>1 DEF Continued
<1>3. pc'[c] \notin Waiting /\ pc'[c] # "woken" /\ pc'[c] # "withdraw" /\ After(cl) \in Labels
  BY <1>1, <1>2 DEF Waiting, Labels
<1>4. pc'[c] = "merge" => cur'[c] = r /\ call'[c] = cl /\ MergeOk(m_tickets'[c], r, cl)
  BY <1>1 DEF Continued
<1>5. pc'[c] = "more" => call'[c].more # <<>> /\ call'[c].kind # "upgrade"
  BY <1>1 DEF Continued
<1>6. call'[c].more # <<>> => "X" \in Types
  <2>1. NoCall.more = <<>>
    BY DEF NoCall
  <2> QED
    BY <2>1 DEF Continued
<1>7. CallOk(c)'
  BY <1>3, <1>4, <1>5, <1>6, CallOkPrime
<1> QED
  BY <1>3, <1>7

\* A lock that is held is granted.
LEMMA HeldIsGranted ==
    ASSUME MdlInv, NEW c \in Ctx, NEW i \in DOMAIN m_tickets[c]
    PROVE  LET t == m_tickets[c][i]
           IN  /\ t \in Reqs /\ t.key \in Keys /\ t.type \in Types
               /\ Occ(m_tickets[c], OfLock(t.key, t.type)) > 0
               /\ Mult(m_granted[t.key].list, Ticket(c, t.type)) > 0
<1> DEFINE t == m_tickets[c][i]
<1>1. m_tickets[c] \in Seq(Reqs)
  BY DEF MdlInv, MdlTypes
<1>2. i \in 1 .. Len(m_tickets[c])
  BY <1>1, LenProperties
<1>3. t \in Reqs
  BY <1>1, <1>2, ElementOfSeq
<1> HIDE DEF t
<1>4. t.key \in Keys /\ t.type \in Types
  BY <1>3 DEF Reqs
<1>5. t \in OfLock(t.key, t.type)
  BY <1>3 DEF OfLock
<1>6. Occ(m_tickets[c], OfLock(t.key, t.type)) > 0 /\ Occ(m_tickets[c], OfLock(t.key, t.type)) \in Nat
  BY <1>1, <1>2, <1>5, OccFacts DEF t
<1>7. Mult(m_granted[t.key].list, Ticket(c, t.type)) =
          Occ(m_tickets[c], OfLock(t.key, t.type)) + OnItsWay(c, t.key, t.type)
  BY <1>4 DEF MdlInv, ListOk
<1>8. OnItsWay(c, t.key, t.type) \in Nat
  BY DEF OnItsWay
<1>9. Mult(m_granted[t.key].list, Ticket(c, t.type)) > 0
  BY <1>6, <1>7, <1>8
<1> QED
  BY <1>3, <1>4, <1>6, <1>9 DEF t

\* Whoever holds a stronger lock conflicts with nobody by a weaker one.
LEMMA StrongerFits ==
    ASSUME MdlInv, NEW c \in Ctx, NEW r \in Reqs, Stronger(m_tickets[c], r),
           Clonable, NoConflict(r.key, m_granted[r.key].list)
    PROVE  \A y \in Tickets : Mult(m_granted[r.key].list, y) > 0 =>
               Compatible(r.key, Ticket(c, r.type), y)
<1> SUFFICES ASSUME NEW y \in Tickets, Mult(m_granted[r.key].list, y) > 0
             PROVE  Compatible(r.key, Ticket(c, r.type), y)
  OBVIOUS
<1>1. PICK i \in DOMAIN m_tickets[c] :
          /\ m_tickets[c][i].key = r.key
          /\ has_stronger_or_equal_type(Namespace[r.key], m_tickets[c][i].type, r.type)
  BY DEF Stronger
<1> DEFINE h == m_tickets[c][i].type
           k == r.key
<1>2. h \in Types /\ Mult(m_granted[k].list, Ticket(c, h)) > 0
  BY <1>1, HeldIsGranted
<1>3. k \in Keys /\ r.type \in Types /\ y.type \in Types
  BY DEF Reqs, Tickets
<1>4. has_stronger_or_equal_type(Namespace[k], h, r.type)
  BY <1>1
<1> HIDE DEF h, k
<1>5. Ticket(c, h) \in Tickets /\ Ticket(c, h).ctx = c /\ Ticket(c, h).type = h
  BY <1>2, TicketFacts
<1>6. Compatible(k, Ticket(c, h), y)
  BY <1>2, <1>5 DEF NoConflict, k
<1>7. c # y.ctx => ~Clash(k, h, y.type)
  BY <1>5, <1>6 DEF Compatible, Clash
<1>8. Clash(k, r.type, y.type) => Clash(k, h, y.type)
  BY <1>2, <1>3, <1>4 DEF Clonable
<1>9. Ticket(c, r.type).ctx = c /\ Ticket(c, r.type).type = r.type
  BY <1>3, TicketFacts
<1> QED
  BY <1>7, <1>8, <1>9 DEF Compatible, Clash, k

\* A request is granted at once, or cloned from a ticket that is held.
LEMMA AddOk ==
    ASSUME MdlInv, AllFit', NEW c \in Ctx, NEW r \in Reqs, pc[c] \notin Waiting, pc'[c] \notin Waiting,
           Grantable(c, r), AddGranted(c, r), Push(c, r), UNCHANGED <<m_waiting, m_wait, result>>,
           pc' \in [Ctx -> Labels], cur' \in [Ctx -> Reqs \cup {NoRequest}], call' \in [Ctx -> Calls],
           \A d \in Ctx \ {c} : pc'[d] = pc[d] /\ cur'[d] = cur[d] /\ call'[d] = call[d],
           CallOk(c)'
    PROVE  MdlInv'
<1> DEFINE k == r.key
           x == Ticket(c, r.type)
<1>1. k \in Keys /\ r.type \in Types
  BY DEF Reqs
<1>2. x \in Tickets /\ x.ctx = c /\ x.type = r.type
  BY <1>1, TicketFacts
<1>3. /\ m_granted' = [m_granted EXCEPT ![k] = add_ticket(m_granted[k], x)]
      /\ m_granted'[k] = add_ticket(m_granted[k], x)
      /\ \A j \in Keys \ {k} : m_granted'[j] = m_granted[j]
  BY <1>1 DEF AddGranted, MdlInv, MdlTypes
<1>4. Good(m_granted[k]) /\ Good(m_waiting[k])
  BY <1>1 DEF MdlInv, ListOk
<1> HIDE DEF x
<1>5. Len(m_granted[k].list) + 1 < COUNTER_MOD
  <2>1. m_granted'[k].list = Append(m_granted[k].list, x)
    BY <1>3 DEF add_ticket
  <2>2. m_granted[k].list \in Seq(Tickets) /\ m_waiting[k].list \in Seq(Tickets)
    BY <1>4 DEF Good, TicketList
  <2>3. /\ Len(m_granted'[k].list) = Len(m_granted[k].list) + 1 /\ Len(m_waiting[k].list) \in Nat
        /\ Len(m_granted[k].list) \in Nat
    BY <1>2, <2>1, <2>2, AppendProperties, LenProperties
  <2>4. Len(m_granted'[k].list) + Len(m_waiting'[k].list) < COUNTER_MOD
    BY <1>1 DEF AllFit, FitTogether
  <2>5. m_waiting'[k] = m_waiting[k] /\ COUNTER_MOD \in Nat
    BY MdlAssumption
  <2>6. \A a, b, m \in Nat : (a + 1) + b < m => a + 1 < m
    OBVIOUS
  <2> QED
    BY <2>3, <2>4, <2>5, <2>6
<1>6. OneMore(m_granted[k], m_granted'[k], x)
  BY <1>2, <1>3, <1>4, <1>5, AddFacts
<1>7. /\ m_tickets' \in [Ctx -> Seq(Reqs)] /\ m_tickets'[c] = <<r>> \o m_tickets[c]
      /\ \A d \in Ctx \ {c} : m_tickets'[d] = m_tickets[d]
  <2>1. m_tickets[c] \in Seq(Reqs)
    BY DEF MdlInv, MdlTypes
  <2>2. <<r>> \o m_tickets[c] \in Seq(Reqs)
    BY <2>1, PushFacts
  <2> QED
    BY <2>2 DEF Push, MdlInv, MdlTypes
<1>8. ASSUME NEW j \in Keys, NEW t \in Types
      PROVE  Occ(m_tickets'[c], OfLock(j, t)) =
                 Occ(m_tickets[c], OfLock(j, t)) + IF k = j /\ r.type = t THEN 1 ELSE 0
  BY <1>7, PushFacts DEF MdlInv, MdlTypes
<1>9. ASSUME NEW j \in Keys, NEW t \in Types PROVE Occ(m_tickets[c], OfLock(j, t)) \in Nat
  BY OccFacts DEF MdlInv, MdlTypes
<1>10. OneKey(c, k)
  <2>1. \A d \in Ctx \ {c} : Untouched(d) /\ m_wait'[d] = m_wait[d]
    BY <1>7 DEF Untouched
  <2>2. ASSUME NEW d \in Ctx \ {c}, NEW t \in Types
        PROVE  Mult(m_granted'[k].list, Ticket(d, t)) = Mult(m_granted[k].list, Ticket(d, t))
    <3>1. Ticket(d, t) \in Tickets /\ Ticket(d, t).ctx # c
      BY TicketFacts
    <3>2. Same(x, Ticket(d, t)) = 0
      BY <1>2, <3>1 DEF Same
    <3>3. Mult(m_granted[k].list, Ticket(d, t)) \in Nat
      BY <1>4, <3>1, MultFacts
    <3> QED
      BY <1>6, <3>1, <3>2, <3>3 DEF OneMore
  <2>3. ASSUME NEW t \in Types
        PROVE  /\ Mult(m_waiting'[k].list, Ticket(c, t)) = PendingIn(c, k, t)'
               /\ Mult(m_granted'[k].list, Ticket(c, t)) =
                      Occ(m_tickets'[c], OfLock(k, t)) + OnItsWay(c, k, t)'
    <3>1. /\ PendingIn(c, k, t) = 0 /\ OnItsWay(c, k, t) = 0
          /\ PendingIn(c, k, t)' = 0 /\ OnItsWay(c, k, t)' = 0
      BY DEF PendingIn, OnItsWay, WaitsIn, Waiting
    <3>2. /\ Mult(m_waiting[k].list, Ticket(c, t)) = PendingIn(c, k, t)
          /\ Mult(m_granted[k].list, Ticket(c, t)) = Occ(m_tickets[c], OfLock(k, t)) + OnItsWay(c, k, t)
      BY <1>1 DEF MdlInv, ListOk
    <3>3. Ticket(c, t) \in Tickets
      BY TicketFacts
    <3>4. Mult(m_granted'[k].list, Ticket(c, t)) = Mult(m_granted[k].list, Ticket(c, t)) + Same(x, Ticket(c, t))
      BY <1>6, <3>3 DEF OneMore
    <3>5. Same(x, Ticket(c, t)) = IF r.type = t THEN 1 ELSE 0
      BY DEF Same, x, Ticket
    <3>6. Occ(m_tickets[c], OfLock(k, t)) \in Nat
      BY <1>1, <1>9
    <3>7. Occ(m_tickets'[c], OfLock(k, t)) = Occ(m_tickets[c], OfLock(k, t)) + IF r.type = t THEN 1 ELSE 0
      BY <1>1, <1>8
    <3> QED
      BY <3>1, <3>2, <3>4, <3>5, <3>6, <3>7
  <2>4. ASSUME NEW j \in Keys \ {k}, NEW t \in Types
        PROVE  Occ(m_tickets'[c], OfLock(j, t)) = Occ(m_tickets[c], OfLock(j, t))
    BY <1>8, <1>9
  <2>5. Good(m_granted'[k]) /\ Good(m_waiting'[k])
    BY <1>4, <1>6 DEF OneMore
  <2> QED
    BY <1>3, <2>1, <2>2, <2>3, <2>4, <2>5 DEF OneKey
<1>11. MdlTypes'
  <2>1. m_granted' \in [Keys -> TicketList]
    BY <1>1, <1>3, <1>6 DEF MdlInv, MdlTypes, OneMore, Good
  <2> QED
    BY <1>7, <2>1 DEF MdlInv, MdlTypes, TicketList, Tickets, Reqs, Calls
<1>12. ASSUME Clonable, NoConflict(k, m_granted[k].list) PROVE NoConflict(k, m_granted'[k].list)
  <2>1. \A y \in Tickets : Mult(m_granted[k].list, y) > 0 => Compatible(k, x, y)
    <3>1. CASE Found(c, r) # {}
      <4>1. Stronger(m_tickets[c], r)
        BY <3>1 DEF Found, Stronger
      <4>2. NoConflict(r.key, m_granted[r.key].list)
        BY <1>12
      <4>3. \A y \in Tickets : Mult(m_granted[r.key].list, y) > 0 =>
                Compatible(r.key, Ticket(c, r.type), y)
        <5> HIDE DEF k
        <5> QED
          BY <1>12, <4>1, <4>2, StrongerFits
      <4> QED
        BY <4>3 DEF x
    <3>2. CASE can_grant_lock(k, m_granted[k], m_waiting[k], r.type, c, FALSE)
      <4>1. \A y \in Tickets : Mult(m_granted[k].list, y) > 0 /\ y.ctx # c => y.type \notin Incompatible(k, r.type)
        <5>1. \/ m_granted[k].bitmap \cap Incompatible(k, r.type) = {}
              \/ InTheWay(k, m_granted[k], r.type, c) = {}
          BY <3>2 DEF can_grant_lock
        <5> QED
          BY <1>4, <5>1, CanGrantFacts
      <4> QED
        BY <1>2, <4>1 DEF Compatible
    <3> QED
      BY <3>1, <3>2 DEF Grantable
  <2> QED
    BY <1>2, <1>4, <1>6, <1>12, <2>1, JoinFacts
<1> HIDE DEF k
<1> QED
  BY <1>1, <1>10, <1>11, <1>12, OneKeyKeeps

\* Nothing is granted, nobody is asked to wait.
LEMMA StayOk ==
    ASSUME MdlInv, NEW c \in Ctx, UNCHANGED <<m_granted, m_waiting, m_tickets, m_wait, result>>,
           pc' \in [Ctx -> Labels], cur' \in [Ctx -> Reqs \cup {NoRequest}], call' \in [Ctx -> Calls],
           \A d \in Ctx \ {c} : pc'[d] = pc[d] /\ cur'[d] = cur[d] /\ call'[d] = call[d],
           pc[c] \notin Waiting, pc'[c] \notin Waiting, CallOk(c)'
    PROVE  MdlInv'
<1>1. MdlTypes'
  BY DEF MdlInv, MdlTypes, TicketList, Tickets, Reqs, Calls
<1>2. \A d \in Ctx \ {c} : Other(d)
  BY DEF Other
<1>3. ASSUME NEW d \in Ctx
      PROVE  /\ pc'[d] \in Waiting <=> pc[d] \in Waiting
             /\ pc[d] \in Waiting => /\ cur'[d] = cur[d]
                                     /\ m_wait'[d] = "GRANTED" <=> m_wait[d] = "GRANTED"
  <2>1. CASE d = c
    BY <2>1
  <2>2. CASE d # c
    BY <2>2
  <2> QED
    BY <2>1, <2>2
<1> QED
  BY <1>1, <1>2, <1>3, QuietStep

\* A request has to wait: the ticket is queued with an empty slot.
LEMMA WaitOk ==
    ASSUME MdlInv, AllFit', NEW c \in Ctx, NEW r \in Reqs, NEW cl \in Calls, pc[c] \notin Waiting,
           cl.more # <<>> => "X" \in Types, UpgradeOk(m_tickets[c], r, cl),
           m_waiting' = [m_waiting EXCEPT ![r.key] = add_ticket(@, Ticket(c, r.type))],
           m_wait' = [m_wait EXCEPT ![c] = "EMPTY"], Continue(c, "added", r, cl),
           UNCHANGED <<m_granted, m_tickets, result>>
    PROVE  MdlInv'
<1> DEFINE k == r.key
           x == Ticket(c, r.type)
<1>1. k \in Keys /\ r.type \in Types
  BY DEF Reqs
<1>2. x \in Tickets /\ x.ctx = c /\ x.type = r.type
  BY <1>1, TicketFacts
<1>3. /\ m_waiting' = [m_waiting EXCEPT ![k] = add_ticket(m_waiting[k], x)]
      /\ m_waiting'[k] = add_ticket(m_waiting[k], x)
      /\ \A j \in Keys \ {k} : m_waiting'[j] = m_waiting[j]
  BY <1>1 DEF MdlInv, MdlTypes
<1>4. Good(m_granted[k]) /\ Good(m_waiting[k])
  BY <1>1 DEF MdlInv, ListOk
<1> HIDE DEF x
<1>5. Len(m_waiting[k].list) + 1 < COUNTER_MOD
  <2>0. m_waiting'[k] = add_ticket(m_waiting[k], x)
    BY <1>3
  <2>1. m_waiting'[k].list = Append(m_waiting[k].list, x)
    BY <2>0, AddList, Zenon
  <2>2. m_granted[k].list \in Seq(Tickets) /\ m_waiting[k].list \in Seq(Tickets)
    BY <1>4 DEF Good, TicketList
  <2>3. /\ Len(m_waiting'[k].list) = Len(m_waiting[k].list) + 1 /\ Len(m_granted[k].list) \in Nat
        /\ Len(m_waiting[k].list) \in Nat
    BY <1>2, <2>1, <2>2, AppendProperties, LenProperties
  <2>4. Len(m_granted'[k].list) + Len(m_waiting'[k].list) < COUNTER_MOD
    BY <1>1 DEF AllFit, FitTogether
  <2>5. m_granted'[k] = m_granted[k] /\ COUNTER_MOD \in Nat
    BY MdlAssumption
  <2>6. \A a, b, m \in Nat : b + (a + 1) < m => a + 1 < m
    OBVIOUS
  <2> QED
    BY <2>3, <2>4, <2>5, <2>6
<1>6. OneMore(m_waiting[k], m_waiting'[k], x)
  BY <1>2, <1>3, <1>4, <1>5, AddFacts
<1>7. /\ pc' \in [Ctx -> Labels] /\ cur' \in [Ctx -> Reqs \cup {NoRequest}] /\ call' \in [Ctx -> Calls]
      /\ pc'[c] = "added" /\ cur'[c] = r /\ call'[c] = cl
      /\ \A d \in Ctx \ {c} : pc'[d] = pc[d] /\ cur'[d] = cur[d] /\ call'[d] = call[d]
  <2>1. "added" \in Labels /\ r \in Reqs \cup {NoRequest} /\ MdlTypes
    BY DEF Labels, Waiting, MdlInv
  <2> QED
    BY <2>1, ContinueFacts
<1>8. /\ m_wait' \in [Ctx -> Statuses] /\ m_wait'[c] = "EMPTY"
      /\ \A d \in Ctx \ {c} : m_wait'[d] = m_wait[d]
  BY DEF MdlInv, MdlTypes, Statuses
<1>9. OneKey(c, k)
  <2>1. \A d \in Ctx \ {c} : Untouched(d) /\ m_wait'[d] = m_wait[d]
    BY <1>7, <1>8 DEF Untouched
  <2>2. ASSUME NEW d \in Ctx \ {c}, NEW t \in Types
        PROVE  Mult(m_waiting'[k].list, Ticket(d, t)) = Mult(m_waiting[k].list, Ticket(d, t))
    <3>1. Ticket(d, t) \in Tickets /\ Ticket(d, t).ctx # c
      BY TicketFacts
    <3>2. Same(x, Ticket(d, t)) = 0
      BY <1>2, <3>1 DEF Same
    <3>3. Mult(m_waiting[k].list, Ticket(d, t)) \in Nat
      BY <1>4, <3>1, MultFacts
    <3> QED
      BY <1>6, <3>1, <3>2, <3>3 DEF OneMore
  <2>3. ASSUME NEW t \in Types
        PROVE  /\ Mult(m_waiting'[k].list, Ticket(c, t)) = PendingIn(c, k, t)'
               /\ Mult(m_granted'[k].list, Ticket(c, t)) =
                      Occ(m_tickets'[c], OfLock(k, t)) + OnItsWay(c, k, t)'
    <3>1. PendingIn(c, k, t) = 0 /\ OnItsWay(c, k, t) = 0 /\ OnItsWay(c, k, t)' = 0
      BY <1>8 DEF PendingIn, OnItsWay, WaitsIn
    <3>2. PendingIn(c, k, t)' = IF r.type = t THEN 1 ELSE 0
      BY <1>7, <1>8 DEF PendingIn, WaitsIn, Waiting
    <3>3. /\ Mult(m_waiting[k].list, Ticket(c, t)) = PendingIn(c, k, t)
          /\ Mult(m_granted[k].list, Ticket(c, t)) = Occ(m_tickets[c], OfLock(k, t)) + OnItsWay(c, k, t)
      BY <1>1 DEF MdlInv, ListOk
    <3>4. Ticket(c, t) \in Tickets
      BY TicketFacts
    <3>5. Mult(m_waiting'[k].list, Ticket(c, t)) = Mult(m_waiting[k].list, Ticket(c, t)) + Same(x, Ticket(c, t))
      BY <1>6, <3>4 DEF OneMore
    <3>6. Same(x, Ticket(c, t)) = IF r.type = t THEN 1 ELSE 0
      BY DEF Same, x, Ticket
    <3> QED
      BY <3>1, <3>2, <3>3, <3>5, <3>6
  <2>4. Good(m_granted'[k]) /\ Good(m_waiting'[k])
    BY <1>4, <1>6 DEF OneMore
  <2>5. cur'[c].key = k
    BY <1>7
  <2> QED
    BY <1>3, <2>1, <2>2, <2>3, <2>4, <2>5 DEF OneKey
<1>10. MdlTypes'
  <2>1. m_waiting' \in [Keys -> TicketList]
    BY <1>1, <1>3, <1>6 DEF MdlInv, MdlTypes, OneMore, Good
  <2> QED
    BY <1>7, <1>8, <2>1 DEF MdlInv, MdlTypes, TicketList, Tickets, Reqs, Calls
<1>11. CallOk(c)'
  <2>1. pc'[c] # "woken" /\ pc'[c] # "withdraw" /\ pc'[c] # "more" /\ pc'[c] # "merge"
    BY <1>7
  <2>2. UpgradeOk(m_tickets'[c], cur'[c], call'[c]) /\ cur'[c] \in Reqs
    BY <1>7
  <2>3. call'[c].more # <<>> => "X" \in Types
    BY <1>7
  <2> QED
    BY <2>1, <2>2, <2>3, CallOkPrime
<1>12. NoConflict(k, m_granted[k].list) => NoConflict(k, m_granted'[k].list)
  OBVIOUS
<1> HIDE DEF k
<1> QED
  BY <1>1, <1>9, <1>10, <1>11, <1>12, OneKeyKeeps

\* An upgrade has got its new type, from a ticket that it held or by a new
\* one.
LEMMA GrantedMergeOk ==
    ASSUME MdlInv, NEW c \in Ctx, NEW r \in Reqs, NEW cl \in Calls,
           cl.kind = "upgrade", UpgradeOk(m_tickets[c], r, cl),
           \/ Stronger(m_tickets[c], r) /\ m_tickets'[c] = m_tickets[c]
           \/ m_tickets'[c] = <<r>> \o m_tickets[c]
    PROVE  MergeOk(m_tickets'[c], r, cl)
<1>1. m_tickets[c] \in Seq(Reqs)
  BY DEF MdlInv, MdlTypes
<1>2. /\ cl.old \in Reqs /\ cl.old.key = r.key /\ Len(m_tickets[c]) = cl.svp
      /\ HasIt(m_tickets[c], cl.old)
  BY DEF UpgradeOk
<1>3. CASE Stronger(m_tickets[c], r) /\ m_tickets'[c] = m_tickets[c]
  BY <1>2, <1>3 DEF MergeOk
<1>4. CASE m_tickets'[c] = <<r>> \o m_tickets[c]
  <2>1. /\ Len(m_tickets'[c]) = cl.svp + 1 /\ Head(m_tickets'[c]) = r
        /\ Tail(m_tickets'[c]) = m_tickets[c]
    <3>1. PICK s \in Seq(Reqs) : s = m_tickets[c]
      BY <1>1
    <3>2. Len(<<r>> \o s) = Len(s) + 1 /\ Head(<<r>> \o s) = r /\ Tail(<<r>> \o s) = s
      BY PushFacts
    <3> QED
      BY <1>2, <1>4, <3>1, <3>2, Zenon
  <2>2. HasIt(Tail(m_tickets'[c]), cl.old)
    BY <1>2, <2>1
  <2> QED
    BY <1>2, <2>1, <2>2 DEF MergeOk
<1> QED
  BY <1>3, <1>4

\* acquire_lock() up to the wait.
LEMMA AcquireOk ==
    ASSUME MdlInv, AllFit', NEW c \in Ctx, NEW r \in Reqs, NEW cl \in Calls, pc[c] \notin Waiting,
           cl.more # <<>> => "X" \in Types, UpgradeOk(m_tickets[c], r, cl),
           acquire_lock(c, r, cl)
    PROVE  MdlInv'
<1>1. CASE Acquired(c, r) /\ Continue(c, After(cl), r, cl) /\ UNCHANGED <<m_waiting, m_wait>>
  <2>0. UNCHANGED <<m_waiting, m_wait, result>>
    BY <1>1 DEF acquire_lock
  <2>1. MdlTypes /\ r \in Reqs \cup {NoRequest} /\ After(cl) \in Labels
    BY DEF MdlInv, After, Labels
  <2>2. /\ pc' \in [Ctx -> Labels] /\ cur' \in [Ctx -> Reqs \cup {NoRequest}]
        /\ call' \in [Ctx -> Calls] /\ Continued(c, After(cl), r, cl)
        /\ \A d \in Ctx \ {c} : pc'[d] = pc[d] /\ cur'[d] = cur[d] /\ call'[d] = call[d]
    BY <1>1, <2>1, ContinueFacts DEF Continued
  <2>3. CASE Reused(c, r) /\ UNCHANGED <<m_granted, m_tickets>>
    <3>1. Stronger(m_tickets[c], r)
      BY <2>3 DEF Reused, Found, Stronger
    <3>2. cl.kind = "upgrade" => MergeOk(m_tickets'[c], r, cl)
      BY <2>3, <3>1, GrantedMergeOk
    <3>3. CallOk(c)' /\ pc'[c] \notin Waiting
      BY <2>2, <3>2, AfterOk
    <3> QED
      BY <2>0, <2>2, <2>3, <3>3, StayOk
  <2>4. CASE Grantable(c, r) /\ AddGranted(c, r) /\ Push(c, r)
    <3>1. m_tickets'[c] = <<r>> \o m_tickets[c]
      BY <2>4 DEF Push, MdlInv, MdlTypes
    <3>2. cl.kind = "upgrade" => MergeOk(m_tickets'[c], r, cl)
      BY <3>1, GrantedMergeOk
    <3>3. CallOk(c)' /\ pc'[c] \notin Waiting
      BY <2>2, <3>2, AfterOk
    <3> QED
      BY <2>0, <2>2, <2>4, <3>3, AddOk
  <2> QED
    BY <1>1, <2>3, <2>4 DEF Acquired
<1>2. CASE /\ m_waiting' = [m_waiting EXCEPT ![r.key] = add_ticket(@, Ticket(c, r.type))]
           /\ m_wait' = [m_wait EXCEPT ![c] = "EMPTY"]
           /\ Continue(c, "added", r, cl)
           /\ UNCHANGED <<m_granted, m_tickets>>
  <2>1. UNCHANGED <<m_granted, m_tickets, result>>
    BY <1>2 DEF acquire_lock
  <2> QED
    BY <1>2, <2>1, WaitOk
<1> QED
  BY <1>1, <1>2 DEF acquire_lock

-----------------------------------------------------------------------------
(* What the SQL layer may ask of a session *)

\* A savepoint is a number of tickets.
LEMMA SavepointType ==
    ASSUME MdlInv, NEW c \in Ctx
    PROVE  Len(m_tickets[c]) \in Nat
  BY LenProperties DEF MdlInv, MdlTypes

\* acquire_locks() asks for X.
LEMMA ExclusiveType ==
    ASSUME NEW k \in Keys, "X" \in Types
    PROVE  Exclusive(k) \in Reqs
  BY DEF Exclusive, Reqs

\* acquire_lock().
LEMMA AcquireStep ==
    ASSUME MdlInv, AllFit', NEW c \in Ctx, Acquire(c)
    PROVE  MdlInv'
<1>1. PICK r \in Requests[c] : acquire_lock(c, r, Call(c, "acquire", <<>>, NONE))
  BY DEF Acquire
<1>2. r \in Reqs
  BY MdlAssumption DEF Reqs
<1>3. pc[c] \notin Waiting
  BY DEF Acquire, Begin, Waiting
<1> DEFINE cl == Call(c, "acquire", <<>>, NONE)
<1>4. cl \in Calls /\ cl.kind = "acquire" /\ cl.more = <<>>
  <2>1. <<>> \in Seq(Keys) /\ NONE \in Reqs \cup {NONE}
    BY EmptySeq
  <2> QED
    BY <2>1, SavepointType DEF Call, Calls
<1> HIDE DEF cl
<1>5. UpgradeOk(m_tickets[c], r, cl)
  BY <1>4 DEF UpgradeOk
<1>6. acquire_lock(c, r, cl)
  BY <1>1 DEF cl
<1> QED
  BY <1>2, <1>3, <1>4, <1>5, <1>6, AcquireOk

\* try_acquire_lock().
LEMMA TryAcquireStep ==
    ASSUME MdlInv, AllFit', NEW c \in Ctx, TryAcquire(c)
    PROVE  MdlInv'
<1>1. PICK r \in Requests[c] : Acquired(c, r) \/ UNCHANGED <<m_granted, m_tickets>>
  BY DEF TryAcquire
<1>2. r \in Reqs
  BY MdlAssumption DEF Reqs
<1>3. UNCHANGED <<m_waiting, m_wait, pc, cur, call, result>> /\ pc[c] = "run"
  BY DEF TryAcquire, Begin
<1>4. /\ pc' \in [Ctx -> Labels] /\ cur' \in [Ctx -> Reqs \cup {NoRequest}]
      /\ call' \in [Ctx -> Calls]
  BY <1>3 DEF MdlInv, MdlTypes
<1>5. pc[c] \notin Waiting /\ pc'[c] \notin Waiting
  BY <1>3 DEF Waiting
<1>6. CallOk(c)'
  <2>1. pc'[c] = "run"
    BY <1>3
  <2>2. call'[c].more # <<>> => "X" \in Types
    BY <1>3 DEF MdlInv, CallOk
  <2> QED
    BY <1>5, <2>1, <2>2, CallOkPrime
<1>7. CASE UNCHANGED <<m_granted, m_tickets>>
  BY <1>3, <1>4, <1>5, <1>6, <1>7, StayOk
<1>8. CASE Grantable(c, r) /\ AddGranted(c, r) /\ Push(c, r)
  BY <1>2, <1>3, <1>4, <1>5, <1>6, <1>8, AddOk
<1> QED
  BY <1>1, <1>7, <1>8 DEF Acquired

\* acquire_locks(), its first request.
LEMMA AcquireLocksStep ==
    ASSUME MdlInv, AllFit', NEW c \in Ctx, AcquireLocks(c)
    PROVE  MdlInv'
<1>1. PICK s \in Lists[c] : acquire_lock(c, Exclusive(Head(s)), Call(c, "locks", Tail(s), NONE))
  BY DEF AcquireLocks
<1>2. s \in Seq(Keys) /\ s # <<>> /\ "X" \in Types
  BY MdlAssumption
<1>3. Head(s) \in Keys /\ Tail(s) \in Seq(Keys)
  BY <1>2, HeadTailProperties
<1>4. pc[c] \notin Waiting
  BY DEF AcquireLocks, Begin, Waiting
<1> DEFINE cl == Call(c, "locks", Tail(s), NONE)
           r == Exclusive(Head(s))
<1>5. r \in Reqs
  BY <1>2, <1>3, ExclusiveType
<1>6. cl \in Calls /\ cl.kind = "locks"
  <2>1. NONE \in Reqs \cup {NONE}
    OBVIOUS
  <2> QED
    BY <1>3, <2>1, SavepointType DEF Call, Calls
<1>7. acquire_lock(c, r, cl)
  BY <1>1
<1> HIDE DEF cl, r
<1>8. UpgradeOk(m_tickets[c], r, cl)
  BY <1>6 DEF UpgradeOk
<1> QED
  BY <1>2, <1>4, <1>5, <1>6, <1>7, <1>8, AcquireOk

\* acquire_locks(), the requests after the first.
LEMMA MoreStep ==
    ASSUME MdlInv, AllFit', NEW c \in Ctx, More(c)
    PROVE  MdlInv'
<1> DEFINE s == call[c].more
           cl == [call[c] EXCEPT !.more = Tail(s)]
           r == Exclusive(Head(s))
<1>1. pc[c] = "more" /\ acquire_lock(c, r, cl)
  BY DEF More
<1>2. call[c] \in Calls
  BY DEF MdlInv, MdlTypes
<1>3. s # <<>> /\ call[c].kind # "upgrade" /\ "X" \in Types
  BY <1>1 DEF MdlInv, CallOk
<1>4. s \in Seq(Keys)
  BY <1>2 DEF Calls
<1>5. Head(s) \in Keys /\ Tail(s) \in Seq(Keys)
  BY <1>3, <1>4, HeadTailProperties
<1>6. cl \in Calls /\ cl.kind = call[c].kind
  BY <1>2, <1>5 DEF Calls
<1>7. r \in Reqs
  BY <1>3, <1>5, ExclusiveType
<1>8. pc[c] \notin Waiting
  BY <1>1 DEF Waiting
<1> HIDE DEF cl, r
<1>9. UpgradeOk(m_tickets[c], r, cl)
  BY <1>3, <1>6 DEF UpgradeOk
<1> QED
  BY <1>1, <1>3, <1>6, <1>7, <1>8, <1>9, AcquireOk

\* upgrade_shared_lock(), its request for the new type.
LEMMA UpgradeStep ==
    ASSUME MdlInv, AllFit', NEW c \in Ctx, Upgrade(c)
    PROVE  MdlInv'
<1>1. PICK i \in DOMAIN m_tickets[c], u \in Upgrades :
        /\ pc[c] = "run"
        /\ acquire_lock(c, [key |-> m_tickets[c][i].key, type |-> u[2], dur |-> "TRANSACTION"],
                        Call(c, "upgrade", <<>>, m_tickets[c][i]))
  BY DEF Upgrade, Begin
<1> DEFINE t == m_tickets[c][i]
           r == [key |-> t.key, type |-> u[2], dur |-> "TRANSACTION"]
           cl == Call(c, "upgrade", <<>>, t)
<1>2. t \in Reqs /\ t.key \in Keys
  BY HeldIsGranted
<1>3. u[2] \in Types
  BY MdlAssumption
<1>4. HasIt(m_tickets[c], t)
  BY DEF HasIt
<1>5. acquire_lock(c, r, cl)
  BY <1>1
<1> HIDE DEF t
<1>6. r \in Reqs /\ r.key = t.key
  BY <1>2, <1>3 DEF Reqs
<1>7. cl \in Calls /\ cl.more = <<>> /\ cl.old = t /\ cl.svp = Len(m_tickets[c])
  <2>1. <<>> \in Seq(Keys) /\ t \in Reqs \cup {NONE}
    BY <1>2, EmptySeq
  <2> QED
    BY <2>1, SavepointType DEF Call, Calls
<1>8. pc[c] \notin Waiting
  BY <1>1 DEF Waiting
<1> HIDE DEF cl, r
<1>9. UpgradeOk(m_tickets[c], r, cl)
  BY <1>2, <1>4, <1>6, <1>7 DEF UpgradeOk
<1> QED
  BY <1>5, <1>6, <1>7, <1>8, <1>9, AcquireOk

-----------------------------------------------------------------------------
(* Releasing and withdrawing *)

\* A conflict-free list stays so when a ticket leaves.
LEMMA LeaveFacts ==
    ASSUME NEW k, NEW tl, NEW tl2, NEW x \in Tickets, Good(tl), OneLess(tl, tl2, x),
           NoConflict(k, tl.list)
    PROVE  NoConflict(k, tl2.list)
<1> SUFFICES ASSUME NEW y \in Tickets, NEW z \in Tickets,
                    Mult(tl2.list, y) > 0, Mult(tl2.list, z) > 0
             PROVE  Compatible(k, y, z)
  BY DEF NoConflict
<1>1. /\ Mult(tl2.list, y) = Mult(tl.list, y) - Same(x, y)
      /\ Mult(tl2.list, z) = Mult(tl.list, z) - Same(x, z)
  BY DEF OneLess
<1>2. Mult(tl.list, y) \in Nat /\ Mult(tl.list, z) \in Nat
  BY MultFacts
<1>3. Mult(tl.list, y) > 0 /\ Mult(tl.list, z) > 0
  BY <1>1, <1>2 DEF Same
<1> QED
  BY <1>3 DEF NoConflict

\* The lists of a key are good and their counters cannot wrap.
LEMMA FitsOk ==
    ASSUME MdlInv, AllFit, NEW k \in Keys
    PROVE  /\ Good(m_granted[k]) /\ Good(m_waiting[k]) /\ Fits(m_granted[k]) /\ Fits(m_waiting[k])
           /\ Len(m_granted[k].list) \in Nat /\ Len(m_waiting[k].list) \in Nat
           /\ Len(m_granted[k].list) + Len(m_waiting[k].list) < COUNTER_MOD /\ COUNTER_MOD \in Nat
<1>1. Good(m_granted[k]) /\ Good(m_waiting[k])
  BY DEF MdlInv, ListOk
<1>2. Len(m_granted[k].list) \in Nat /\ Len(m_waiting[k].list) \in Nat
  BY <1>1, LenProperties DEF Good, TicketList
<1>3. Len(m_granted[k].list) + Len(m_waiting[k].list) < COUNTER_MOD /\ COUNTER_MOD \in Nat
  BY MdlAssumption DEF AllFit, FitTogether
<1>4. \A a, b, m \in Nat : a + b < m => a < m /\ b < m
  OBVIOUS
<1> QED
  BY <1>1, <1>2, <1>3, <1>4 DEF Fits

\* What the end of a failed call leaves.
LEMMA FailFacts ==
    ASSUME MdlInv, NEW c \in Ctx, Fail(c)
    PROVE  /\ pc' \in [Ctx -> Labels] /\ cur' \in [Ctx -> Reqs \cup {NoRequest}]
           /\ call' \in [Ctx -> Calls] /\ pc'[c] \in {"run", "release"} /\ call'[c].more = <<>>
           /\ \A d \in Ctx \ {c} : pc'[d] = pc[d] /\ cur'[d] = cur[d] /\ call'[d] = call[d]
<1>1. PICK label \in {"run", "release"} : Continue(c, label, cur[c], call[c])
  BY DEF Fail
<1>2. label \in Labels /\ cur[c] \in Reqs \cup {NoRequest} /\ call[c] \in Calls /\ MdlTypes
  BY DEF Labels, MdlInv, MdlTypes
<1>3. /\ pc' \in [Ctx -> Labels] /\ cur' \in [Ctx -> Reqs \cup {NoRequest}]
      /\ call' \in [Ctx -> Calls] /\ pc'[c] = label /\ call'[c] = NoCall
      /\ \A d \in Ctx \ {c} : pc'[d] = pc[d] /\ cur'[d] = cur[d] /\ call'[d] = call[d]
  BY <1>1, <1>2, ContinueFacts
<1>4. NoCall.more = <<>>
  BY DEF NoCall
<1> QED
  BY <1>3, <1>4

\* A step that changes only where c goes on.
LEMMA GotoFacts ==
    ASSUME MdlInv, NEW c \in Ctx, NEW label \in Labels, Goto(c, label), UNCHANGED <<cur, call>>
    PROVE  /\ pc' \in [Ctx -> Labels] /\ cur' \in [Ctx -> Reqs \cup {NoRequest}]
           /\ call' \in [Ctx -> Calls] /\ pc'[c] = label
           /\ \A d \in Ctx \ {c} : pc'[d] = pc[d] /\ cur'[d] = cur[d] /\ call'[d] = call[d]
<1>1. pc' \in [Ctx -> Labels] /\ pc'[c] = label /\ \A d \in Ctx \ {c} : pc'[d] = pc[d]
  BY DEF Goto, MdlInv, MdlTypes
<1> QED
  BY <1>1 DEF MdlInv, MdlTypes

\* Outside of a wait and of an upgrade, little is asked of a call.
LEMMA RestingOk ==
    ASSUME NEW c, pc'[c] \in {"run", "release", "end", "rollback"},
           call'[c].more # <<>> => "X" \in Types
    PROVE  CallOk(c)' /\ pc'[c] \notin Waiting
<1>1. pc'[c] \notin Waiting \cup {"merge", "woken", "withdraw", "more"}
  BY DEF Waiting
<1> QED
  BY <1>1, CallOkPrime

\* release_lock(): a ticket leaves the granted list and the context.
LEMMA ReleaseOk ==
    ASSUME MdlInv, AllFit, NEW c \in Ctx, NEW i \in DOMAIN m_tickets[c],
           pc[c] \in {"rollback", "release"}, Release(c, i), UNCHANGED <<pc, cur, call, result>>
    PROVE  MdlInv'
<1> DEFINE r == m_tickets[c][i]
           k == r.key
           x == Ticket(c, r.type)
           g == remove_ticket(m_granted[k], x)
           w == m_waiting[k]
<1>1. r \in Reqs /\ k \in Keys /\ r.type \in Types /\ Mult(m_granted[k].list, x) > 0
  BY HeldIsGranted
<1>2. Removed(k, g, w) /\ m_tickets' = [m_tickets EXCEPT ![c] = RemoveAt(m_tickets[c], i)]
  BY DEF Release, RemoveGranted, MdlInv, MdlTypes
<1>3. m_tickets[c] \in Seq(Reqs) /\ i \in 1 .. Len(m_tickets[c])
  <2>1. m_tickets[c] \in Seq(Reqs)
    BY DEF MdlInv, MdlTypes
  <2> QED
    BY <2>1, LenProperties
<1>4. /\ m_tickets' \in [Ctx -> Seq(Reqs)] /\ m_tickets'[c] = RemoveAt(m_tickets[c], i)
      /\ \A d \in Ctx \ {c} : m_tickets'[d] = m_tickets[d]
  <2>1. RemoveAt(m_tickets[c], i) \in Seq(Reqs)
    BY <1>3, RemoveAtFacts
  <2> QED
    BY <1>2, <2>1 DEF MdlInv, MdlTypes
<1>5. \A j, t : Occ(m_tickets'[c], OfLock(j, t)) =
                   Occ(m_tickets[c], OfLock(j, t)) - IF k = j /\ r.type = t THEN 1 ELSE 0
  <2>1. \A S : Occ(m_tickets'[c], S) = Occ(m_tickets[c], S) - In(r, S)
    BY <1>3, <1>4, OccRemoveAt
  <2>2. \A j, t : In(r, OfLock(j, t)) = IF r.key = j /\ r.type = t THEN 1 ELSE 0
    <3> HIDE DEF r
    <3> QED
      BY <1>1 DEF In, OfLock
  <2> HIDE DEF r
  <2> QED
    BY <2>1, <2>2
<1>6. x \in Tickets /\ x.ctx = c /\ x.type = r.type
  BY <1>1, TicketFacts
<1>7. /\ Good(m_granted[k]) /\ Good(w) /\ Fits(m_granted[k])
      /\ Len(m_granted[k].list) \in Nat /\ Len(w.list) \in Nat
      /\ Len(m_granted[k].list) + Len(w.list) < COUNTER_MOD /\ COUNTER_MOD \in Nat
  BY <1>1, FitsOk
<1>8. OneLess(m_granted[k], g, x)
  BY <1>1, <1>6, <1>7, RemoveFacts
<1>9. pc[c] \notin Waiting
  BY DEF Waiting
<1> HIDE DEF g, w, x
<1>10. Before(k, g, w)
  <2>1. FitTogether(g, w)
    <3>1. \A a, b, m \in Nat : a + b < m => (a - 1) + b < m
      OBVIOUS
    <3> QED
      BY <1>7, <1>8, <3>1 DEF OneLess, FitTogether
  <2>2. ASSUME NEW d \in Ctx, NEW t \in Types
        PROVE  /\ Mult(w.list, Ticket(d, t)) = Pending1(d, k, t)
               /\ Mult(g.list, Ticket(d, t)) = Occ(m_tickets'[d], OfLock(k, t)) + OnItsWay1(d, k, t)
    <3>1. Pending1(d, k, t) = PendingIn(d, k, t) /\ OnItsWay1(d, k, t) = OnItsWay(d, k, t)
      BY DEF Pending1, PendingIn, OnItsWay1, OnItsWay, Waits1, WaitsIn
    <3>2. /\ Mult(w.list, Ticket(d, t)) = PendingIn(d, k, t)
          /\ Mult(m_granted[k].list, Ticket(d, t)) = Occ(m_tickets[d], OfLock(k, t)) + OnItsWay(d, k, t)
      BY <1>1 DEF MdlInv, ListOk, w
    <3>3. Ticket(d, t) \in Tickets
      BY TicketFacts
    <3>4. Mult(g.list, Ticket(d, t)) = Mult(m_granted[k].list, Ticket(d, t)) - Same(x, Ticket(d, t))
      BY <1>8, <3>3 DEF OneLess
    <3>5. Occ(m_tickets[d], OfLock(k, t)) \in Nat /\ OnItsWay(d, k, t) \in Nat
      BY OccFacts DEF MdlInv, MdlTypes, OnItsWay
    <3>6. CASE d = c
      <4>1. Same(x, Ticket(d, t)) = IF r.type = t THEN 1 ELSE 0
        BY <3>6 DEF Same, x, Ticket
      <4>2. Occ(m_tickets'[d], OfLock(k, t)) = Occ(m_tickets[d], OfLock(k, t)) - IF r.type = t THEN 1 ELSE 0
        BY <1>5, <3>6
      <4> HIDE DEF r
      <4> QED
        BY <3>1, <3>2, <3>4, <3>5, <4>1, <4>2
    <3>7. CASE d # c
      <4>1. Same(x, Ticket(d, t)) = 0
        BY <3>7 DEF Same, x, Ticket
      <4>2. m_tickets'[d] = m_tickets[d]
        BY <1>4, <3>7
      <4> QED
        BY <3>1, <3>2, <3>4, <3>5, <4>1, <4>2
    <3> QED
      BY <3>6, <3>7
  <2>3. Good(g)
    BY <1>8 DEF OneLess
  <2> QED
    BY <1>4, <1>7, <2>1, <2>2, <2>3 DEF Before
<1>11. PICK s : MovedStep(k, g, w, s)
  BY <1>1, <1>2, <1>10, RemovedMoved DEF MdlInv
<1>12. CallOk(c)'
  <2>1. pc'[c] \in {"rollback", "release"}
    OBVIOUS
  <2>2. pc'[c] \notin Waiting \cup {"merge", "woken", "withdraw", "more"}
    BY <2>1 DEF Waiting
  <2>3. call'[c].more # <<>> => "X" \in Types
    BY DEF MdlInv, CallOk
  <2> QED
    BY <2>2, <2>3, CallOkPrime
<1>13. \A d \in Ctx \ {c} : Untouched(d)
  BY <1>4 DEF Untouched
<1>14. ASSUME NEW j \in Keys \ {k}, NEW t \in Types
       PROVE  Occ(m_tickets'[c], OfLock(j, t)) = Occ(m_tickets[c], OfLock(j, t))
  <2>1. Occ(m_tickets[c], OfLock(j, t)) \in Nat
    BY <1>3, OccFacts
  <2> HIDE DEF k
  <2> QED
    BY <1>5, <2>1
<1>15. NoConflict(k, m_granted[k].list) => NoConflict(k, g.list)
  BY <1>6, <1>7, <1>8, LeaveFacts
<1>16. /\ pc' \in [Ctx -> Labels] /\ cur' \in [Ctx -> Reqs \cup {NoRequest}]
       /\ call' \in [Ctx -> Calls] /\ result' \in [Ctx -> Results]
  BY DEF MdlInv, MdlTypes
<1> HIDE DEF k
<1>17. pc'[c] \notin Waiting
  BY <1>9
<1> QED
  BY <1>1, <1>9, <1>10, <1>11, <1>12, <1>13, <1>14, <1>15, <1>16, <1>17, MovedKeeps

\* A wait has failed: the ticket leaves the waiting list, in which it still
\* is.
LEMMA WithdrawStep ==
    ASSUME MdlInv, AllFit, NEW c \in Ctx, Withdraw(c), ~Overtaken(c)
    PROVE  MdlInv'
<1> DEFINE r == cur[c]
           k == r.key
           x == Ticket(c, r.type)
           g == m_granted[k]
           w == remove_ticket(m_waiting[k], x)
<1>1. /\ pc[c] = "withdraw" /\ UNCHANGED m_tickets /\ RemoveWaiting(k, x)
      /\ result' = [result EXCEPT ![c] = "EMPTY"]
  BY DEF Withdraw
<1>2. r \in Reqs /\ m_wait[c] # "GRANTED"
  BY <1>1 DEF MdlInv, CallOk, Told, Waiting, Overtaken
<1>3. k \in Keys /\ r.type \in Types
  BY <1>2 DEF Reqs
<1>4. PendingIn(c, k, r.type) = 1 /\ \A t : OnItsWay(c, k, t) = 0
  BY <1>1, <1>2 DEF PendingIn, OnItsWay, WaitsIn, Waiting
<1>5. x \in Tickets /\ x.ctx = c /\ x.type = r.type
  BY <1>3, TicketFacts
<1>6. Mult(m_waiting[k].list, x) = 1
  BY <1>3, <1>4 DEF MdlInv, ListOk
<1>7. /\ Good(g) /\ Good(m_waiting[k]) /\ Fits(m_waiting[k])
      /\ Len(g.list) \in Nat /\ Len(m_waiting[k].list) \in Nat
      /\ Len(g.list) + Len(m_waiting[k].list) < COUNTER_MOD /\ COUNTER_MOD \in Nat
  BY <1>3, FitsOk
<1>8. OneLess(m_waiting[k], w, x)
  BY <1>5, <1>6, <1>7, RemoveFacts
<1>9. Removed(k, g, w)
  <2>1. PICK i \in 1 .. Len(m_waiting[k].list) : m_waiting[k].list[i] = x
    BY <1>5, <1>6, <1>7, MultFacts
  <2>2. i \in DOMAIN m_waiting[k].list
    BY <1>7, LenProperties DEF Good, TicketList
  <2>3. x \in Range(m_waiting[k].list)
    BY <2>1, <2>2 DEF Range
  <2> QED
    BY <1>1, <2>3 DEF RemoveWaiting
<1>10. /\ pc' \in [Ctx -> Labels] /\ cur' \in [Ctx -> Reqs \cup {NoRequest}]
       /\ call' \in [Ctx -> Calls]
       /\ pc'[c] \in {"run", "release", "rollback"}
       /\ call'[c].more # <<>> => "X" \in Types
       /\ \A d \in Ctx \ {c} : pc'[d] = pc[d] /\ cur'[d] = cur[d] /\ call'[d] = call[d]
  <2>1. CASE Goto(c, "rollback") /\ UNCHANGED <<cur, call>>
    <3>1. "rollback" \in Labels
      BY DEF Labels
    <3>2. call'[c].more # <<>> => "X" \in Types
      BY <2>1 DEF MdlInv, CallOk
    <3> QED
      BY <2>1, <3>1, <3>2, GotoFacts
  <2>2. CASE Fail(c)
    BY <2>2, FailFacts
  <2> QED
    BY <2>1, <2>2 DEF Withdraw
<1>11. pc'[c] \notin Waiting \cup {"merge", "woken", "withdraw", "more"}
  BY <1>10 DEF Waiting
<1> HIDE DEF g, w, x, r, k
<1>12. Before(k, g, w)
  <2>1. FitTogether(g, w)
    <3>1. \A a, b, m \in Nat : a + b < m => a + (b - 1) < m
      OBVIOUS
    <3> QED
      BY <1>7, <1>8, <3>1 DEF OneLess, FitTogether
  <2>2. ASSUME NEW d \in Ctx, NEW t \in Types
        PROVE  /\ Mult(w.list, Ticket(d, t)) = Pending1(d, k, t)
               /\ Mult(g.list, Ticket(d, t)) = Occ(m_tickets'[d], OfLock(k, t)) + OnItsWay1(d, k, t)
    <3>1. /\ Mult(m_waiting[k].list, Ticket(d, t)) = PendingIn(d, k, t)
          /\ Mult(g.list, Ticket(d, t)) = Occ(m_tickets[d], OfLock(k, t)) + OnItsWay(d, k, t)
      BY <1>3 DEF MdlInv, ListOk, g
    <3>2. Ticket(d, t) \in Tickets
      BY TicketFacts
    <3>3. Mult(w.list, Ticket(d, t)) = Mult(m_waiting[k].list, Ticket(d, t)) - Same(x, Ticket(d, t))
      BY <1>8, <3>2 DEF OneLess
    <3>4. CASE d = c
      <4>1. Pending1(d, k, t) = 0 /\ OnItsWay1(d, k, t) = 0
        BY <1>11, <3>4 DEF Pending1, OnItsWay1, Waits1
      <4>2. PendingIn(d, k, t) = IF r.type = t THEN 1 ELSE 0
        BY <1>1, <1>2, <3>4 DEF PendingIn, WaitsIn, Waiting, r, k
      <4>3. Same(x, Ticket(d, t)) = IF r.type = t THEN 1 ELSE 0
        BY <3>4 DEF Same, x, Ticket
      <4>4. OnItsWay(d, k, t) = 0
        BY <1>4, <3>4
      <4>5. m_tickets' = m_tickets
        BY <1>1
      <4> QED
        BY <3>1, <3>3, <4>1, <4>2, <4>3, <4>4, <4>5
    <3>5. CASE d # c
      <4>1. pc'[d] = pc[d] /\ cur'[d] = cur[d]
        BY <1>10, <3>5
      <4>2. Pending1(d, k, t) = PendingIn(d, k, t) /\ OnItsWay1(d, k, t) = OnItsWay(d, k, t)
        BY <4>1 DEF Pending1, PendingIn, OnItsWay1, OnItsWay, Waits1, WaitsIn
      <4>3. Same(x, Ticket(d, t)) = 0
        BY <3>5 DEF Same, x, Ticket
      <4>4. PendingIn(d, k, t) \in Nat
        BY DEF PendingIn
      <4>5. m_tickets' = m_tickets
        BY <1>1
      <4> QED
        BY <3>1, <3>3, <4>2, <4>3, <4>4, <4>5
    <3> QED
      BY <3>4, <3>5
  <2>3. Good(w)
    BY <1>8 DEF OneLess
  <2>4. m_tickets' \in [Ctx -> Seq(Reqs)]
    BY <1>1 DEF MdlInv, MdlTypes
  <2> QED
    BY <1>7, <2>1, <2>2, <2>3, <2>4 DEF Before
<1>13. PICK s : MovedStep(k, g, w, s)
  BY <1>3, <1>9, <1>12, RemovedMoved DEF MdlInv
<1>14. CallOk(c)'
  BY <1>10, <1>11, CallOkPrime
<1>15. \A d \in Ctx \ {c} : Untouched(d)
  BY <1>1, <1>10 DEF Untouched
<1>16. \A j \in Keys \ {k}, t \in Types :
          Occ(m_tickets'[c], OfLock(j, t)) = Occ(m_tickets[c], OfLock(j, t))
  BY <1>1
<1>17. result' \in [Ctx -> Results] /\ cur[c].key = k /\ pc'[c] \notin Waiting
  BY <1>1, <1>11 DEF MdlInv, MdlTypes, Results, Statuses, r, k
<1>18. NoConflict(k, m_granted[k].list) => NoConflict(k, g.list)
  BY DEF g
<1> QED
  BY <1>3, <1>10, <1>12, <1>13, <1>14, <1>15, <1>16, <1>17, <1>18, MovedKeeps

\* rollback_to_savepoint() after acquire_locks() has failed.
LEMMA RollbackStep ==
    ASSUME MdlInv, AllFit, NEW c \in Ctx, Rollback(c)
    PROVE  MdlInv'
<1>1. pc[c] = "rollback" /\ pc[c] \notin Waiting
  BY DEF Rollback, Waiting
<1>2. CASE Len(m_tickets[c]) > call[c].svp /\ Release(c, 1) /\ UNCHANGED <<pc, cur, call>>
  <2>1. m_tickets[c] \in Seq(Reqs) /\ call[c] \in Calls
    BY DEF MdlInv, MdlTypes
  <2>2. call[c].svp \in Nat /\ Len(m_tickets[c]) \in Nat
    BY <2>1, LenProperties DEF Calls
  <2>3. 1 \in 1 .. Len(m_tickets[c])
    BY <1>2, <2>2
  <2>4. 1 \in DOMAIN m_tickets[c]
    BY <2>1, <2>3, LenProperties
  <2>5. UNCHANGED <<pc, cur, call, result>> /\ pc[c] \in {"rollback", "release"} /\ Release(c, 1)
    BY <1>1, <1>2 DEF Rollback
  <2> QED
    BY <2>4, <2>5, ReleaseOk
<1>3. CASE Fail(c) /\ UNCHANGED <<lockVars, m_tickets, m_wait>>
  <2>1. UNCHANGED <<m_granted, m_waiting, m_tickets, m_wait, result>>
    BY <1>3 DEF Rollback, lockVars
  <2>2. /\ pc' \in [Ctx -> Labels] /\ cur' \in [Ctx -> Reqs \cup {NoRequest}]
        /\ call' \in [Ctx -> Calls] /\ pc'[c] \in {"run", "release"} /\ call'[c].more = <<>>
        /\ \A d \in Ctx \ {c} : pc'[d] = pc[d] /\ cur'[d] = cur[d] /\ call'[d] = call[d]
    BY <1>3, FailFacts
  <2>3. CallOk(c)' /\ pc'[c] \notin Waiting
    BY <2>2, RestingOk
  <2> QED
    BY <1>1, <2>1, <2>2, <2>3, StayOk
<1> QED
  BY <1>2, <1>3 DEF Rollback

\* A step of a context between two calls.
LEMMA RestStep ==
    ASSUME MdlInv, NEW c \in Ctx, NEW label \in {"run", "release", "end"}, Goto(c, label),
           pc[c] \in {"run", "release"},
           UNCHANGED <<m_granted, m_waiting, m_tickets, m_wait, cur, call, result>>
    PROVE  MdlInv'
<1>1. label \in Labels
  BY DEF Labels
<1>2. /\ pc' \in [Ctx -> Labels] /\ cur' \in [Ctx -> Reqs \cup {NoRequest}]
      /\ call' \in [Ctx -> Calls] /\ pc'[c] = label
      /\ \A d \in Ctx \ {c} : pc'[d] = pc[d] /\ cur'[d] = cur[d] /\ call'[d] = call[d]
  BY <1>1, GotoFacts
<1>3. call'[c].more # <<>> => "X" \in Types
  BY DEF MdlInv, CallOk
<1>4. pc'[c] \in {"run", "release", "end", "rollback"}
  BY <1>2
<1>5. CallOk(c)' /\ pc'[c] \notin Waiting
  BY <1>3, <1>4, RestingOk
<1>6. pc[c] \notin Waiting
  BY DEF Waiting
<1> QED
  BY <1>2, <1>5, <1>6, StayOk

\* The end of the transaction begins.
LEMMA CommitStep ==
    ASSUME MdlInv, NEW c \in Ctx, Commit(c)
    PROVE  MdlInv'
<1>1. /\ Goto(c, "release") /\ pc[c] \in {"run", "release"}
      /\ UNCHANGED <<m_granted, m_waiting, m_tickets, m_wait, cur, call, result>>
  BY DEF Commit, lockVars, ctxVars
<1> QED
  BY <1>1, RestStep

\* release_locks_stored_before(), one ticket after another.
LEMMA ReleaseLocksStep ==
    ASSUME MdlInv, AllFit, NEW c \in Ctx, ReleaseLocks(c)
    PROVE  MdlInv'
<1>1. pc[c] = "release" /\ UNCHANGED <<cur, call, result>>
  BY DEF ReleaseLocks
<1>2. CASE Due(c) # {}
  <2> DEFINE i == Min(Due(c))
  <2>1. m_tickets[c] \in Seq(Reqs)
    BY DEF MdlInv, MdlTypes
  <2>2. DOMAIN m_tickets[c] = 1 .. Len(m_tickets[c]) /\ Len(m_tickets[c]) \in Nat
    BY <2>1, LenProperties
  <2>3. Due(c) \subseteq DOMAIN m_tickets[c]
    BY DEF Due, Transactional
  <2>4. Due(c) \in SUBSET Nat
    BY <2>2, <2>3
  <2>5. \E x \in Due(c) : \A y \in Due(c) : x <= y
    BY <1>2, <2>4, LeastNat
  <2>6. i \in Due(c)
    BY <2>5 DEF Min
  <2>7. Release(c, i) /\ UNCHANGED pc
    BY <1>2 DEF ReleaseLocks
  <2>8. i \in DOMAIN m_tickets[c] /\ UNCHANGED <<pc, cur, call, result>> /\ pc[c] \in {"rollback", "release"}
    BY <1>1, <2>3, <2>6, <2>7
  <2> HIDE DEF i
  <2> QED
    BY <2>7, <2>8, ReleaseOk
<1>3. CASE ~(Due(c) # {})
  <2>1. PICK label \in {"run", "end"} : Goto(c, label)
    BY <1>3 DEF ReleaseLocks
  <2>2. UNCHANGED <<m_granted, m_waiting, m_tickets, m_wait>>
    BY <1>3 DEF ReleaseLocks, lockVars
  <2>3. label \in {"run", "release", "end"} /\ pc[c] \in {"run", "release"}
        /\ UNCHANGED <<m_granted, m_waiting, m_tickets, m_wait, cur, call, result>>
    BY <1>1, <2>2
  <2> QED
    BY <2>1, <2>3, RestStep
<1> QED
  BY <1>2, <1>3

-----------------------------------------------------------------------------
(* Waiting, and the deadlock detector *)

\* A step that closes some slots, and grants nothing.
SlotsClosed ==
    \A d \in Ctx : m_wait'[d] = m_wait[d] \/ (m_wait[d] = "EMPTY" /\ m_wait'[d] # "GRANTED")
\* What c takes its slot for is what the slot says, unless it left it open.
SlotTold(c) ==
    /\ pc'[c] = "woken" => Told(result'[c], m_wait'[c])
    /\ pc'[c] = "withdraw" => Told(result'[c], m_wait'[c]) /\ result'[c] # "GRANTED"

\* A step of a waiting context that keeps waiting; slots may be closed.
LEMMA WaitingStep ==
    ASSUME MdlInv, NEW c \in Ctx, pc[c] \in Waiting, pc'[c] \in Waiting,
           UNCHANGED <<m_granted, m_waiting, m_tickets, cur, call>>,
           pc' \in [Ctx -> Labels], m_wait' \in [Ctx -> Statuses], result' \in [Ctx -> Results],
           \A d \in Ctx \ {c} : pc'[d] = pc[d] /\ result'[d] = result[d],
           SlotsClosed, SlotTold(c)
    PROVE  MdlInv'
<1>1. MdlTypes'
  BY DEF MdlInv, MdlTypes, TicketList, Tickets, Reqs, Calls
<1>2. \A d \in Ctx \ {c} : Other(d)
  BY DEF Other, SlotsClosed
<1>3. CallOk(c)'
  <2>1. cur'[c] \in Reqs /\ UpgradeOk(m_tickets'[c], cur'[c], call'[c])
        /\ (call'[c].more # <<>> => "X" \in Types)
    BY DEF MdlInv, CallOk
  <2>2. pc'[c] # "more" /\ pc'[c] # "merge"
    BY DEF Waiting
  <2> QED
    BY <2>1, <2>2, CallOkPrime DEF SlotTold
<1>4. ASSUME NEW d \in Ctx
      PROVE  /\ pc'[d] \in Waiting <=> pc[d] \in Waiting
             /\ pc[d] \in Waiting => /\ cur'[d] = cur[d]
                                     /\ m_wait'[d] = "GRANTED" <=> m_wait[d] = "GRANTED"
  <2>1. pc'[d] \in Waiting <=> pc[d] \in Waiting
    <3>1. CASE d = c
      BY <3>1
    <3>2. CASE d # c
      BY <3>2
    <3> QED
      BY <3>1, <3>2
  <2>2. m_wait'[d] = "GRANTED" <=> m_wait[d] = "GRANTED"
    BY DEF SlotsClosed
  <2> QED
    BY <2>1, <2>2
<1> QED
  BY <1>1, <1>2, <1>3, <1>4, QuietStep

\* will_wait_for().
LEMMA WillWaitForStep ==
    ASSUME MdlInv, NEW c \in Ctx, WillWaitFor(c)
    PROVE  MdlInv'
<1>1. /\ pc[c] = "added" /\ Goto(c, "detect")
      /\ UNCHANGED <<m_granted, m_waiting, m_tickets, m_wait, cur, call, result>>
  BY DEF WillWaitFor, lockVars
<1>2. "detect" \in Labels /\ "detect" \in Waiting /\ "added" \in Waiting
  BY DEF Labels, Waiting
<1>3. pc' \in [Ctx -> Labels] /\ pc'[c] = "detect" /\ \A d \in Ctx \ {c} : pc'[d] = pc[d]
  BY <1>1, <1>2, GotoFacts
<1>4. m_wait' \in [Ctx -> Statuses] /\ result' \in [Ctx -> Results]
  BY <1>1 DEF MdlInv, MdlTypes
<1>5. \A d \in Ctx \ {c} : pc'[d] = pc[d] /\ result'[d] = result[d]
  BY <1>1, <1>3
<1>6. SlotsClosed /\ SlotTold(c)
  BY <1>1, <1>3 DEF SlotsClosed, SlotTold
<1>7. pc[c] \in Waiting /\ pc'[c] \in Waiting
  BY <1>1, <1>2, <1>3
<1> QED
  BY <1>1, <1>3, <1>4, <1>5, <1>6, <1>7, WaitingStep

\* The deadlock detector only reads.
LEMMA FindDeadlockStep ==
    ASSUME MdlInv, NEW c \in Ctx, find_deadlock(c)
    PROVE  MdlInv'
<1>1. pc[c] = "detect" /\ UNCHANGED <<m_granted, m_waiting, m_tickets, m_wait, cur, call, result>>
  BY DEF find_deadlock, lockVars, ctxVars
<1>2. UNCHANGED pc \/ Goto(c, "wait") \/ Goto(c, "victim")
  <2>1. ASSUME NEW x, NEW path, Visit(c, x, path)
        PROVE  UNCHANGED pc \/ Goto(c, "wait") \/ Goto(c, "victim")
    BY <2>1 DEF Visit
  <2> QED
    BY <2>1 DEF find_deadlock
<1>3. /\ {"detect", "wait", "victim"} \subseteq Labels
      /\ {"detect", "wait", "victim"} \subseteq Waiting
  BY DEF Labels, Waiting
<1>4. /\ pc' \in [Ctx -> Labels] /\ pc'[c] \in {"detect", "wait", "victim"}
      /\ \A d \in Ctx \ {c} : pc'[d] = pc[d]
  BY <1>1, <1>2, <1>3 DEF Goto, MdlInv, MdlTypes
<1>5. m_wait' \in [Ctx -> Statuses] /\ result' \in [Ctx -> Results]
  BY <1>1 DEF MdlInv, MdlTypes
<1>6. pc[c] \in Waiting /\ pc'[c] \in Waiting
  BY <1>1, <1>3, <1>4
<1>7. \A d \in Ctx \ {c} : pc'[d] = pc[d] /\ result'[d] = result[d]
  BY <1>1, <1>4
<1>8. SlotsClosed /\ SlotTold(c)
  BY <1>1, <1>4 DEF SlotsClosed, SlotTold
<1> QED
  BY <1>1, <1>4, <1>5, <1>6, <1>7, <1>8, WaitingStep

\* The victim's slot is closed only if it is empty.
LEMMA SetVictimStep ==
    ASSUME MdlInv, NEW c \in Ctx, SetVictim(c)
    PROVE  MdlInv'
<1> DEFINE v == dvisitor[c].victim
<1>1. /\ pc[c] = "victim" /\ UNCHANGED <<m_granted, m_waiting, m_tickets, cur, call, result>>
      /\ m_wait' = [m_wait EXCEPT ![v] = IF @ = "EMPTY" THEN "VICTIM" ELSE @]
      /\ Goto(c, "detect") \/ Goto(c, "wait")
  BY DEF SetVictim, lockVars
<1> HIDE DEF v
<1>2. m_wait \in [Ctx -> Statuses] /\ "VICTIM" \in Statuses
  BY DEF MdlInv, MdlTypes, Statuses
<1>3. m_wait' \in [Ctx -> Statuses]
  BY <1>1, <1>2
<1>4. SlotsClosed
  BY <1>1, <1>2 DEF SlotsClosed
<1>5. "detect" \in Labels /\ "wait" \in Labels
  BY DEF Labels, Waiting
<1>6. /\ pc' \in [Ctx -> Labels] /\ pc'[c] \in {"detect", "wait"}
      /\ \A d \in Ctx \ {c} : pc'[d] = pc[d]
  BY <1>1, <1>5 DEF Goto, MdlInv, MdlTypes
<1>7. pc[c] \in Waiting /\ pc'[c] \in Waiting /\ pc'[c] # "woken" /\ pc'[c] # "withdraw"
  BY <1>1, <1>6 DEF Waiting
<1>8. result' \in [Ctx -> Results]
  BY <1>1 DEF MdlInv, MdlTypes
<1>9. \A d \in Ctx \ {c} : pc'[d] = pc[d] /\ result'[d] = result[d]
  BY <1>1, <1>6
<1>10. SlotTold(c)
  BY <1>7 DEF SlotTold
<1> QED
  BY <1>1, <1>3, <1>4, <1>6, <1>7, <1>8, <1>9, <1>10, WaitingStep

\* The wait ends with r, and the slot says so unless it is left open.
LEMMA WaitReturnsOk ==
    ASSUME MdlInv, NEW c \in Ctx, NEW r \in Results, WaitReturns(c, r),
           m_wait' \in [Ctx -> Statuses], Told(r, m_wait'[c]), SlotsClosed
    PROVE  MdlInv'
<1>1. /\ pc[c] = "wait" /\ Goto(c, "woken") /\ UNCHANGED <<m_granted, m_waiting, m_tickets, cur, call>>
      /\ result' = [result EXCEPT ![c] = r]
  BY DEF WaitReturns, lockVars
<1>2. /\ result' \in [Ctx -> Results] /\ result'[c] = r
      /\ \A d \in Ctx \ {c} : result'[d] = result[d]
  BY <1>1 DEF MdlInv, MdlTypes
<1>3. "woken" \in Labels /\ "woken" \in Waiting /\ "wait" \in Waiting
  BY DEF Labels, Waiting
<1>4. pc' \in [Ctx -> Labels] /\ pc'[c] = "woken" /\ \A d \in Ctx \ {c} : pc'[d] = pc[d]
  BY <1>1, <1>3, GotoFacts
<1>5. \A d \in Ctx \ {c} : pc'[d] = pc[d] /\ result'[d] = result[d]
  BY <1>2, <1>4
<1>6. SlotTold(c)
  BY <1>2, <1>4 DEF SlotTold
<1>7. pc[c] \in Waiting /\ pc'[c] \in Waiting
  BY <1>1, <1>3, <1>4
<1> QED
  BY <1>1, <1>2, <1>4, <1>5, <1>6, <1>7, WaitingStep

\* timed_wait() returns what somebody has put into the slot.
LEMMA WaitStep ==
    ASSUME MdlInv, NEW c \in Ctx, Wait(c)
    PROVE  MdlInv'
<1>1. m_wait[c] # "EMPTY" /\ WaitReturns(c, m_wait[c]) /\ UNCHANGED m_wait
  BY DEF Wait
<1>2. m_wait \in [Ctx -> Statuses]
  BY DEF MdlInv, MdlTypes
<1>3. PICK r \in Results : r = m_wait[c]
  BY <1>2 DEF Results
<1>4. SlotsClosed
  BY <1>1 DEF SlotsClosed
<1>5. WaitReturns(c, r) /\ m_wait' \in [Ctx -> Statuses] /\ Told(r, m_wait'[c])
  BY <1>1, <1>2, <1>3 DEF Told
<1> QED
  BY <1>4, <1>5, WaitReturnsOk

\* timed_wait() times out or is killed, and closes the slot itself; or the client
\* is gone, and the slot stays open.
LEMMA WaitFaultStep ==
    ASSUME MdlInv, NEW c \in Ctx, WaitFault(c)
    PROVE  MdlInv'
<1>1. PICK f \in Faults[c] :
          /\ m_wait[c] = "EMPTY" /\ WaitReturns(c, f)
          /\ m_wait' = [m_wait EXCEPT ![c] = IF f = "DISCONNECT" THEN @ ELSE f]
  BY DEF WaitFault
<1>2. f \in {"TIMEOUT", "KILLED", "DISCONNECT"}
  BY MdlAssumption
<1>3. m_wait \in [Ctx -> Statuses] /\ f \in Results
  BY <1>2 DEF MdlInv, MdlTypes, Statuses, Results
<1>4. PICK w \in Statuses : m_wait' = [m_wait EXCEPT ![c] = w] /\ w # "GRANTED" /\ Told(f, w)
  BY <1>1, <1>2, <1>3 DEF Statuses, Told
<1>5. m_wait' \in [Ctx -> Statuses] /\ Told(f, m_wait'[c])
  BY <1>3, <1>4
<1>6. SlotsClosed
  BY <1>1, <1>3, <1>4 DEF SlotsClosed
<1> QED
  BY <1>1, <1>3, <1>5, <1>6, WaitReturnsOk

-----------------------------------------------------------------------------
(* A ticket changes its type: downgrade_lock(), and the end of an upgrade *)

\* g is tl with a y instead of an x
Changed(k, tl, g, x, y) ==
    /\ Good(g) /\ Len(g.list) = Len(tl.list)
    /\ \A z \in Tickets : Mult(g.list, z) = Mult(tl.list, z) - Same(x, z) + Same(y, z)
    /\ NoConflict(k, tl.list)
         /\ (\A z \in Tickets : Mult(tl.list, z) > 0 => Compatible(k, y, z))
       => NoConflict(k, g.list)

\* remove_ticket() of x and add_ticket() of y leave such a list.
LEMMA ChangeFacts ==
    ASSUME NEW k, NEW tl, Good(tl), Fits(tl), NEW x \in Tickets, NEW y \in Tickets,
           Mult(tl.list, x) > 0, NEW g, g = add_ticket(remove_ticket(tl, x), y)
    PROVE  Changed(k, tl, g, x, y)
<1> DEFINE g1 == remove_ticket(tl, x)
<1>1. OneLess(tl, g1, x)
  BY RemoveFacts
<1>2. g = add_ticket(g1, y)
  OBVIOUS
<1> HIDE DEF g1
<1>3. Len(tl.list) \in Nat /\ Len(tl.list) < COUNTER_MOD /\ COUNTER_MOD \in Nat
  BY LenProperties, MdlAssumption DEF Good, TicketList, Fits
<1>4. Good(g1) /\ Len(g1.list) = Len(tl.list) - 1
  BY <1>1 DEF OneLess
<1>5. Len(g1.list) + 1 = Len(tl.list)
  BY <1>3, <1>4
<1>6. OneMore(g1, g, y)
  BY <1>2, <1>3, <1>4, <1>5, AddFacts
<1>7. \A z \in Tickets : Mult(g1.list, z) = Mult(tl.list, z) - Same(x, z)
  BY <1>1 DEF OneLess
<1>8. \A z \in Tickets : Mult(g.list, z) = Mult(tl.list, z) - Same(x, z) + Same(y, z)
  BY <1>6, <1>7 DEF OneMore
<1>9. Good(g) /\ Len(g.list) = Len(tl.list)
  BY <1>5, <1>6 DEF OneMore
<1>10. ASSUME NoConflict(k, tl.list),
              \A z \in Tickets : Mult(tl.list, z) > 0 => Compatible(k, y, z)
       PROVE  NoConflict(k, g.list)
  <2>1. NoConflict(k, g1.list)
    BY <1>1, <1>10, LeaveFacts
  <2>2. ASSUME NEW z \in Tickets, Mult(g1.list, z) > 0 PROVE Mult(tl.list, z) > 0
    <3>1. Mult(tl.list, z) \in Nat
      BY MultFacts
    <3> QED
      BY <1>7, <2>2, <3>1 DEF Same
  <2>3. \A z \in Tickets : Mult(g1.list, z) > 0 => Compatible(k, y, z)
    BY <1>10, <2>2
  <2> QED
    BY <1>4, <1>6, <2>1, <2>3, JoinFacts
<1> QED
  BY <1>8, <1>9, <1>10 DEF Changed

\* p is mine, g is tl, with one ticket of c on k changed to another type.
Retyped(c, k, tl, mine, g, p, type) ==
    /\ Good(g) /\ Len(g.list) = Len(tl.list) /\ p \in Seq(Reqs)
    /\ \A u \in Types : Mult(g.list, Ticket(c, u)) - Occ(p, OfLock(k, u)) =
                            Mult(tl.list, Ticket(c, u)) - Occ(mine, OfLock(k, u))
    /\ \A d \in Ctx \ {c}, u \in Types : Mult(g.list, Ticket(d, u)) = Mult(tl.list, Ticket(d, u))
    /\ \A j \in Keys \ {k}, u \in Types : Occ(p, OfLock(j, u)) = Occ(mine, OfLock(j, u))
    /\ NoConflict(k, tl.list)
         /\ (\A z \in Tickets : Mult(tl.list, z) > 0 => Compatible(k, Ticket(c, type), z))
       => NoConflict(k, g.list)

\* The ticket at place i of mine changes its type.
LEMMA RetypeFacts ==
    ASSUME NEW c \in Ctx, NEW k \in Keys, NEW tl, Good(tl), Fits(tl), NEW mine \in Seq(Reqs),
           NEW i \in 1 .. Len(mine), NEW r \in Reqs, r = mine[i], r.key = k,
           Mult(tl.list, Ticket(c, r.type)) > 0, NEW type \in Types, NEW g, NEW p,
           g = add_ticket(remove_ticket(tl, Ticket(c, r.type)), Ticket(c, type)),
           p \in Seq(Reqs), Replaced(mine, i, [r EXCEPT !.type = type], p)
    PROVE  Retyped(c, k, tl, mine, g, p, type)
<1> DEFINE x == Ticket(c, r.type)
           y == Ticket(c, type)
           q == [r EXCEPT !.type = type]
<1>1. r.type \in Types /\ q \in Reqs /\ q.key = k /\ q.type = type
  BY DEF Reqs
<1>2. /\ x \in Tickets /\ x.ctx = c /\ x.type = r.type
      /\ y \in Tickets /\ y.ctx = c /\ y.type = type
  BY <1>1, TicketFacts
<1>3. g = add_ticket(remove_ticket(tl, x), y) /\ Replaced(mine, i, q, p)
  OBVIOUS
<1>4. Mult(tl.list, x) > 0
  OBVIOUS
<1> HIDE DEF x, y, q
<1>5. Changed(k, tl, g, x, y)
  BY <1>2, <1>3, <1>4, ChangeFacts
<1>6. p \in Seq(Reqs) /\ \A S : Occ(p, S) = Occ(mine, S) - In(r, S) + In(q, S)
  <2>1. ASSUME NEW S
        PROVE  Occ(p, S) = Occ(mine, S) - In(mine[i], S) + In(q, S)
    BY <1>1, <1>3, OccReplace
  <2> QED
    BY <2>1
<1>7. \A j, u : /\ In(r, OfLock(j, u)) = IF k = j /\ r.type = u THEN 1 ELSE 0
                /\ In(q, OfLock(j, u)) = IF k = j /\ type = u THEN 1 ELSE 0
  BY <1>1 DEF In, OfLock
<1>8. ASSUME NEW j, NEW u PROVE Occ(mine, OfLock(j, u)) \in Nat
  BY OccFacts
<1>9. ASSUME NEW d \in Ctx, NEW u \in Types
      PROVE  Ticket(d, u) \in Tickets /\ Mult(tl.list, Ticket(d, u)) \in Nat
  BY MultFacts, TicketFacts
<1>10. ASSUME NEW u \in Types
       PROVE  Mult(g.list, Ticket(c, u)) - Occ(p, OfLock(k, u)) =
                  Mult(tl.list, Ticket(c, u)) - Occ(mine, OfLock(k, u))
  <2>1. /\ Same(x, Ticket(c, u)) = IF r.type = u THEN 1 ELSE 0
        /\ Same(y, Ticket(c, u)) = IF type = u THEN 1 ELSE 0
    BY DEF Same, x, y, Ticket
  <2>2. Mult(g.list, Ticket(c, u)) =
            Mult(tl.list, Ticket(c, u)) - Same(x, Ticket(c, u)) + Same(y, Ticket(c, u))
    BY <1>5, <1>9 DEF Changed
  <2>3. Occ(p, OfLock(k, u)) = Occ(mine, OfLock(k, u)) - In(r, OfLock(k, u)) + In(q, OfLock(k, u))
    BY <1>6
  <2>4. /\ In(r, OfLock(k, u)) = Same(x, Ticket(c, u))
        /\ In(q, OfLock(k, u)) = Same(y, Ticket(c, u))
    BY <1>7, <2>1
  <2>5. Same(x, Ticket(c, u)) \in {0, 1} /\ Same(y, Ticket(c, u)) \in {0, 1}
    BY DEF Same
  <2>6. \A a, b \in Nat : \A e, f \in {0, 1} : (a - e + f) - (b - e + f) = a - b
    OBVIOUS
  <2>7. PICK a \in Nat, b \in Nat : a = Mult(tl.list, Ticket(c, u)) /\ b = Occ(mine, OfLock(k, u))
    BY <1>8, <1>9
  <2>8. PICK e \in {0, 1}, f \in {0, 1} : e = Same(x, Ticket(c, u)) /\ f = Same(y, Ticket(c, u))
    BY <2>5
  <2>9. Mult(g.list, Ticket(c, u)) = a - e + f /\ Occ(p, OfLock(k, u)) = b - e + f
    BY <2>2, <2>3, <2>4, <2>7, <2>8
  <2> QED
    BY <2>6, <2>7, <2>9
<1>11. ASSUME NEW d \in Ctx \ {c}, NEW u \in Types
       PROVE  Mult(g.list, Ticket(d, u)) = Mult(tl.list, Ticket(d, u))
  <2>1. Same(x, Ticket(d, u)) = 0 /\ Same(y, Ticket(d, u)) = 0
    BY DEF Same, x, y, Ticket
  <2> QED
    BY <1>5, <1>9, <2>1 DEF Changed
<1>12. ASSUME NEW j \in Keys \ {k}, NEW u \in Types
       PROVE  Occ(p, OfLock(j, u)) = Occ(mine, OfLock(j, u))
  <2>1. In(r, OfLock(j, u)) = 0 /\ In(q, OfLock(j, u)) = 0
    BY <1>7
  <2>2. Occ(p, OfLock(j, u)) = Occ(mine, OfLock(j, u)) - In(r, OfLock(j, u)) + In(q, OfLock(j, u))
    BY <1>6
  <2> QED
    BY <1>8, <2>1, <2>2
<1> QED
  BY <1>5, <1>6, <1>10, <1>11, <1>12 DEF Retyped, Changed, y

\* downgrade_lock().
LEMMA DowngradeStep ==
    ASSUME MdlInv, AllFit, NEW c \in Ctx, Downgrade(c)
    PROVE  MdlInv'
<1>1. PICK i \in DOMAIN m_tickets[c], dd \in Downgrades :
          /\ pc[c] = "run" /\ UNCHANGED <<pc, cur, call, result>>
          /\ has_stronger_or_equal_type(Namespace[m_tickets[c][i].key], m_tickets[c][i].type, dd[2])
          /\ Rescheduled(m_tickets[c][i].key,
                         add_ticket(remove_ticket(m_granted[m_tickets[c][i].key],
                                                  Ticket(c, m_tickets[c][i].type)),
                                    Ticket(c, dd[2])),
                         m_waiting[m_tickets[c][i].key])
          /\ m_tickets' = [m_tickets EXCEPT ![c][i].type = dd[2]]
  BY DEF Downgrade, Begin
<1>2. PICK type \in Types : type = dd[2]
  BY MdlAssumption
<1> DEFINE r == m_tickets[c][i]
           k == r.key
           g == add_ticket(remove_ticket(m_granted[k], Ticket(c, r.type)), Ticket(c, type))
           w == m_waiting[k]
           q == [r EXCEPT !.type = type]
           mine == m_tickets[c]
           p == m_tickets'[c]
<1>3. r \in Reqs /\ k \in Keys /\ r.type \in Types /\ Mult(m_granted[k].list, Ticket(c, r.type)) > 0
  BY HeldIsGranted
<1>4. mine \in Seq(Reqs) /\ i \in 1 .. Len(mine)
  <2>1. m_tickets[c] \in Seq(Reqs)
    BY DEF MdlInv, MdlTypes
  <2> QED
    BY <2>1, LenProperties
<1>5. q \in Reqs /\ q.key = k /\ q.type = type
  BY <1>3 DEF Reqs
<1>6. p = [mine EXCEPT ![i] = q] /\ \A d \in Ctx \ {c} : m_tickets'[d] = m_tickets[d]
  BY <1>1, <1>2 DEF MdlInv, MdlTypes
<1>7. p \in Seq(Reqs) /\ Replaced(mine, i, q, p)
  <2> HIDE DEF p, mine, q
  <2>1. [mine EXCEPT ![i] = q] \in Seq(Reqs) /\ Replaced(mine, i, q, [mine EXCEPT ![i] = q])
    BY <1>4, <1>5, ReplaceFacts
  <2> QED
    BY <1>6, <2>1
<1>8. m_tickets' \in [Ctx -> Seq(Reqs)]
  <2> HIDE DEF mine, q
  <2>1. m_tickets' = [m_tickets EXCEPT ![c] = [mine EXCEPT ![i] = q]]
    BY <1>1, <1>2 DEF mine, q, MdlInv, MdlTypes
  <2>2. [mine EXCEPT ![i] = q] \in Seq(Reqs)
    BY <1>6, <1>7
  <2> QED
    BY <2>1, <2>2 DEF MdlInv, MdlTypes
<1>9. Rescheduled(k, g, w)
  BY <1>1, <1>2
<1>10. /\ Good(m_granted[k]) /\ Good(w) /\ Fits(m_granted[k])
       /\ Len(m_granted[k].list) + Len(w.list) < COUNTER_MOD
  BY <1>3, FitsOk
<1>11. Stronger(mine, q)
  BY <1>1, <1>2, <1>5 DEF Stronger
<1>12. Retyped(c, k, m_granted[k], mine, g, p, type)
  <2> HIDE DEF p, mine, r
  <2>1. r = mine[i]
    BY DEF r, mine
  <2> QED
    BY <1>3, <1>4, <1>7, <1>10, <2>1, RetypeFacts
<1>13. pc[c] = "run" /\ UNCHANGED <<pc, cur, call, result>>
  BY <1>1
<1> HIDE DEF g, w, r, q, p, mine, k
<1>14. pc[c] \notin Waiting /\ pc'[c] \notin Waiting
  BY <1>13 DEF Waiting
<1>15. Before(k, g, w)
  <2>1. FitTogether(g, w)
    BY <1>10, <1>12 DEF Retyped, FitTogether
  <2>2. ASSUME NEW d \in Ctx, NEW t \in Types
        PROVE  /\ Mult(w.list, Ticket(d, t)) = Pending1(d, k, t)
               /\ Mult(g.list, Ticket(d, t)) = Occ(m_tickets'[d], OfLock(k, t)) + OnItsWay1(d, k, t)
    <3>1. Pending1(d, k, t) = PendingIn(d, k, t) /\ OnItsWay1(d, k, t) = OnItsWay(d, k, t)
      BY <1>13 DEF Pending1, PendingIn, OnItsWay1, OnItsWay, Waits1, WaitsIn
    <3>2. /\ Mult(w.list, Ticket(d, t)) = PendingIn(d, k, t)
          /\ Mult(m_granted[k].list, Ticket(d, t)) = Occ(m_tickets[d], OfLock(k, t)) + OnItsWay(d, k, t)
      BY <1>3 DEF MdlInv, ListOk, w
    <3>3. CASE d = c
      <4>1. OnItsWay(d, k, t) = 0
        BY <1>14, <3>3 DEF OnItsWay, WaitsIn
      <4>2. Mult(g.list, Ticket(d, t)) - Occ(p, OfLock(k, t)) =
                Mult(m_granted[k].list, Ticket(d, t)) - Occ(mine, OfLock(k, t))
        BY <1>12, <3>3 DEF Retyped
      <4>3. Occ(mine, OfLock(k, t)) \in Nat /\ Occ(p, OfLock(k, t)) \in Nat
        BY <1>4, <1>7, OccFacts
      <4>4. Mult(g.list, Ticket(d, t)) \in Nat
        <5>1. Good(g) /\ Ticket(d, t) \in Tickets
          BY <1>12, TicketFacts DEF Retyped
        <5> QED
          BY <5>1, MultFacts
      <4>5. Mult(m_granted[k].list, Ticket(d, t)) = Occ(mine, OfLock(k, t))
        BY <3>2, <3>3, <4>1, <4>3 DEF mine
      <4>6. \A a, b, n \in Nat : a - b = n - n => a = b + 0
        OBVIOUS
      <4>7. Mult(g.list, Ticket(d, t)) = Occ(p, OfLock(k, t)) + 0
        BY <4>2, <4>3, <4>4, <4>5, <4>6
      <4> QED
        BY <3>1, <3>2, <3>3, <4>1, <4>7 DEF p
    <3>4. CASE d # c
      <4>1. Mult(g.list, Ticket(d, t)) = Mult(m_granted[k].list, Ticket(d, t))
        BY <1>12, <3>4 DEF Retyped
      <4>2. m_tickets'[d] = m_tickets[d]
        BY <1>6, <3>4
      <4> QED
        BY <3>1, <3>2, <4>1, <4>2
    <3> QED
      BY <3>3, <3>4
  <2> QED
    BY <1>8, <1>10, <1>12, <2>1, <2>2 DEF Before, Retyped
<1>16. PICK s : MovedStep(k, g, w, s)
  BY <1>3, <1>9, <1>15, RescheduledMoved DEF MdlInv
<1>17. CallOk(c)'
  <2>1. call'[c].more # <<>> => "X" \in Types
    BY <1>13 DEF MdlInv, CallOk
  <2>2. pc'[c] \in {"run", "release", "end", "rollback"}
    BY <1>13
  <2> QED
    BY <2>1, <2>2, RestingOk
<1>18. \A d \in Ctx \ {c} : Untouched(d)
  BY <1>6, <1>13 DEF Untouched
<1>19. \A j \in Keys \ {k}, t \in Types :
          Occ(m_tickets'[c], OfLock(j, t)) = Occ(m_tickets[c], OfLock(j, t))
  BY <1>12 DEF Retyped, p, mine
<1>20. Clonable /\ NoConflict(k, m_granted[k].list) => NoConflict(k, g.list)
  <2> SUFFICES ASSUME Clonable, NoConflict(k, m_granted[k].list) PROVE NoConflict(k, g.list)
    OBVIOUS
  <2>1. \A y \in Tickets : Mult(m_granted[q.key].list, y) > 0 => Compatible(q.key, Ticket(c, q.type), y)
    <3>1. NoConflict(q.key, m_granted[q.key].list)
      BY <1>5
    <3> QED
      BY <1>5, <1>11, <3>1, StrongerFits DEF mine
  <2>2. \A y \in Tickets : Mult(m_granted[k].list, y) > 0 => Compatible(k, Ticket(c, type), y)
    BY <1>5, <2>1
  <2> QED
    BY <1>12, <2>2 DEF Retyped
<1>21. /\ pc' \in [Ctx -> Labels] /\ cur' \in [Ctx -> Reqs \cup {NoRequest}]
       /\ call' \in [Ctx -> Calls] /\ result' \in [Ctx -> Results]
  BY <1>13 DEF MdlInv, MdlTypes
<1> QED
  BY <1>3, <1>14, <1>15, <1>16, <1>17, <1>18, <1>19, <1>20, <1>21, MovedKeeps

\* The lists of an upgrade once the new ticket, if there is one, has been dropped.
MergeMid(c, k, r, old, tl, mine) ==
    /\ Good(tl) /\ Fits(tl) /\ mine \in Seq(Reqs) /\ HasIt(mine, old)
    /\ \A u \in Types : Mult(tl.list, Ticket(c, u)) = Occ(mine, OfLock(k, u))
    /\ \A d \in Ctx \ {c}, u \in Types :
           Mult(tl.list, Ticket(d, u)) = Mult(m_granted[k].list, Ticket(d, u))
    /\ \A j \in Keys \ {k}, u \in Types : Occ(mine, OfLock(j, u)) = Occ(m_tickets[c], OfLock(j, u))
    /\ Clonable /\ NoConflict(k, m_granted[k].list) =>
           /\ NoConflict(k, tl.list)
           /\ \A z \in Tickets : Mult(tl.list, z) > 0 => Compatible(k, Ticket(c, r.type), z)

\* pc[c] = "merge": what c holds is what is granted to it
LEMMA MergeHolds ==
    ASSUME MdlInv, NEW c \in Ctx, pc[c] \notin Waiting, NEW k \in Keys, NEW u \in Types
    PROVE  /\ Mult(m_granted[k].list, Ticket(c, u)) = Occ(m_tickets[c], OfLock(k, u))
           /\ Occ(m_tickets[c], OfLock(k, u)) \in Nat
<1>1. OnItsWay(c, k, u) = 0
  BY DEF OnItsWay, WaitsIn
<1>2. Occ(m_tickets[c], OfLock(k, u)) \in Nat
  BY OccFacts DEF MdlInv, MdlTypes
<1>3. Mult(m_granted[k].list, Ticket(c, u)) = Occ(m_tickets[c], OfLock(k, u)) + OnItsWay(c, k, u)
  BY DEF MdlInv, ListOk
<1> QED
  BY <1>1, <1>2, <1>3

\* The upgrade was served by a ticket that the context held already.
LEMMA MergeReused ==
    ASSUME MdlInv, AllFit, NEW c \in Ctx, pc[c] \notin Waiting, NEW r \in Reqs, NEW k \in Keys,
           k = r.key, NEW old, HasIt(m_tickets[c], old), Stronger(m_tickets[c], r)
    PROVE  MergeMid(c, k, r, old, m_granted[k], m_tickets[c])
<1>1. Good(m_granted[k]) /\ Fits(m_granted[k])
  BY FitsOk
<1>2. m_tickets[c] \in Seq(Reqs)
  BY DEF MdlInv, MdlTypes
<1>3. \A u \in Types : Mult(m_granted[k].list, Ticket(c, u)) = Occ(m_tickets[c], OfLock(k, u))
  BY MergeHolds
<1>4. ASSUME Clonable, NoConflict(k, m_granted[k].list)
      PROVE  \A z \in Tickets : Mult(m_granted[k].list, z) > 0 => Compatible(k, Ticket(c, r.type), z)
  BY <1>4, StrongerFits
<1> QED
  BY <1>1, <1>2, <1>3, <1>4 DEF MergeMid

\* The upgrade got a new ticket, which is dropped first.
LEMMA MergeNew ==
    ASSUME MdlInv, AllFit, NEW c \in Ctx, pc[c] \notin Waiting, NEW r \in Reqs, NEW k \in Keys,
           k = r.key, NEW old, m_tickets[c] # <<>>, Head(m_tickets[c]) = r,
           HasIt(Tail(m_tickets[c]), old)
    PROVE  MergeMid(c, k, r, old, remove_ticket(m_granted[k], Ticket(c, r.type)), Tail(m_tickets[c]))
<1> DEFINE x == Ticket(c, r.type)
           tl == remove_ticket(m_granted[k], x)
           mine == Tail(m_tickets[c])
<1>1. Good(m_granted[k]) /\ Fits(m_granted[k])
  BY FitsOk
<1>2. m_tickets[c] \in Seq(Reqs) /\ 1 \in DOMAIN m_tickets[c] /\ m_tickets[c][1] = r
  <2>1. m_tickets[c] \in Seq(Reqs)
    BY DEF MdlInv, MdlTypes
  <2>2. Len(m_tickets[c]) \in Nat \ {0} /\ DOMAIN m_tickets[c] = 1 .. Len(m_tickets[c])
    BY <2>1, EmptySeq, LenProperties
  <2>3. Head(m_tickets[c]) = m_tickets[c][1]
    BY <2>1
  <2> QED
    BY <2>1, <2>2, <2>3
<1>3. r.type \in Types /\ Mult(m_granted[k].list, x) > 0
  <2>1. Mult(m_granted[m_tickets[c][1].key].list, Ticket(c, m_tickets[c][1].type)) > 0
    BY <1>2, HeldIsGranted
  <2> QED
    BY <1>2, <2>1 DEF Reqs
<1>4. x \in Tickets /\ x.ctx = c /\ x.type = r.type
  BY <1>3, TicketFacts
<1>5. OneLess(m_granted[k], tl, x)
  BY <1>1, <1>3, <1>4, RemoveFacts
<1>6. mine \in Seq(Reqs) /\ \A S : Occ(mine, S) = Occ(m_tickets[c], S) - In(r, S)
  BY <1>2, OccTail
<1>7. \A j, u : In(r, OfLock(j, u)) = IF k = j /\ r.type = u THEN 1 ELSE 0
  BY DEF In, OfLock
<1> HIDE DEF tl, mine, x
<1>8. Good(tl) /\ Fits(tl)
  <2>1. Len(m_granted[k].list) \in Nat /\ COUNTER_MOD \in Nat
    BY <1>1, LenProperties, MdlAssumption DEF Good, TicketList
  <2> QED
    BY <1>1, <1>5, <2>1 DEF OneLess, Fits
<1>9. ASSUME NEW u \in Types PROVE Mult(tl.list, Ticket(c, u)) = Occ(mine, OfLock(k, u))
  <2>1. Ticket(c, u) \in Tickets
    BY TicketFacts
  <2>2. Same(x, Ticket(c, u)) = IF r.type = u THEN 1 ELSE 0
    BY DEF Same, x, Ticket
  <2>3. Mult(tl.list, Ticket(c, u)) = Mult(m_granted[k].list, Ticket(c, u)) - Same(x, Ticket(c, u))
    BY <1>5, <2>1 DEF OneLess
  <2>4. Mult(m_granted[k].list, Ticket(c, u)) = Occ(m_tickets[c], OfLock(k, u))
    BY MergeHolds
  <2>5. Occ(mine, OfLock(k, u)) = Occ(m_tickets[c], OfLock(k, u)) - In(r, OfLock(k, u))
    BY <1>6
  <2>6. In(r, OfLock(k, u)) = Same(x, Ticket(c, u))
    BY <1>7, <2>2
  <2> QED
    BY <2>3, <2>4, <2>5, <2>6
<1>10. ASSUME NEW z \in Tickets, z.ctx # c
       PROVE  Mult(tl.list, z) = Mult(m_granted[k].list, z)
  <2>1. Same(x, z) = 0
    BY <1>4, <1>10 DEF Same
  <2>2. Mult(m_granted[k].list, z) \in Nat
    BY <1>1, MultFacts
  <2> QED
    BY <1>5, <2>1, <2>2 DEF OneLess
<1>11. ASSUME NEW d \in Ctx \ {c}, NEW u \in Types
       PROVE  Mult(tl.list, Ticket(d, u)) = Mult(m_granted[k].list, Ticket(d, u))
  <2>1. Ticket(d, u) \in Tickets /\ Ticket(d, u).ctx = d
    BY TicketFacts
  <2> QED
    BY <1>10, <2>1
<1>12. ASSUME NEW j \in Keys \ {k}, NEW u \in Types
       PROVE  Occ(mine, OfLock(j, u)) = Occ(m_tickets[c], OfLock(j, u))
  <2>1. Occ(m_tickets[c], OfLock(j, u)) \in Nat
    BY <1>2, OccFacts
  <2>2. In(r, OfLock(j, u)) = 0
    BY <1>7
  <2>3. Occ(mine, OfLock(j, u)) = Occ(m_tickets[c], OfLock(j, u)) - In(r, OfLock(j, u))
    BY <1>6
  <2> QED
    BY <2>1, <2>2, <2>3
<1>13. ASSUME NoConflict(k, m_granted[k].list)
       PROVE  /\ NoConflict(k, tl.list)
              /\ \A z \in Tickets : Mult(tl.list, z) > 0 => Compatible(k, x, z)
  <2>1. NoConflict(k, tl.list)
    BY <1>1, <1>4, <1>5, <1>13, LeaveFacts
  <2>2. ASSUME NEW z \in Tickets, Mult(tl.list, z) > 0 PROVE Compatible(k, x, z)
    <3>1. CASE z.ctx = c
      BY <1>4, <3>1 DEF Compatible
    <3>2. CASE z.ctx # c
      BY <1>3, <1>4, <1>10, <1>13, <2>2, <3>2 DEF NoConflict
    <3> QED
      BY <3>1, <3>2
  <2> QED
    BY <2>1, <2>2
<1>14. HasIt(mine, old)
  BY DEF mine
<1>15. MergeMid(c, k, r, old, tl, mine)
  BY <1>6, <1>8, <1>9, <1>11, <1>12, <1>13, <1>14 DEF MergeMid, x
<1> QED
  BY <1>15 DEF tl, mine, x

\* upgrade_shared_lock() merges the tickets: the old one gets the new type.
LEMMA MergeStep ==
    ASSUME MdlInv, AllFit, NEW c \in Ctx, Merge(c)
    PROVE  MdlInv'
<1> DEFINE r == cur[c]
           k == r.key
           old == call[c].old
           is_new_ticket == Len(m_tickets[c]) > call[c].svp
           new == Ticket(c, r.type)
           tl == IF is_new_ticket THEN remove_ticket(m_granted[k], new) ELSE m_granted[k]
           mine == IF is_new_ticket THEN Tail(m_tickets[c]) ELSE m_tickets[c]
           i == CHOOSE j \in DOMAIN mine : mine[j] = old
           g == add_ticket(remove_ticket(tl, Ticket(c, old.type)), new)
           q == [old EXCEPT !.type = r.type]
           p == m_tickets'[c]
<1>1. /\ pc[c] = "merge"
      /\ m_granted' = [m_granted EXCEPT ![k] = g]
      /\ m_tickets' = [m_tickets EXCEPT ![c] = [mine EXCEPT ![i].type = r.type]]
      /\ Continue(c, "run", cur[c], call[c])
      /\ UNCHANGED <<m_waiting, m_wait, result>>
  BY DEF Merge
<1>2. /\ r \in Reqs /\ MergeOk(m_tickets[c], r, call[c]) /\ call[c] \in Calls
      /\ pc[c] \notin Waiting
  BY <1>1 DEF MdlInv, MdlTypes, CallOk, Waiting
<1>3. k \in Keys /\ r.type \in Types /\ call[c].svp \in Nat
  BY <1>2 DEF Reqs, Calls
<1>4. old \in Reqs /\ old.key = k /\ old.type \in Types
  BY <1>2 DEF MergeOk, Reqs
<1>5. MergeMid(c, k, r, old, tl, mine)
  <2>1. CASE Len(m_tickets[c]) = call[c].svp /\ HasIt(m_tickets[c], old) /\ Stronger(m_tickets[c], r)
    <3>1. ~is_new_ticket
      BY <1>3, <2>1
    <3>2. tl = m_granted[k] /\ mine = m_tickets[c]
      BY <3>1
    <3>3. MergeMid(c, k, r, old, m_granted[k], m_tickets[c])
      <4> HIDE DEF old
      <4> QED
        BY <1>2, <1>3, <2>1, MergeReused
    <3> QED
      BY <3>2, <3>3
  <2>2. CASE Len(m_tickets[c]) = call[c].svp + 1 /\ Head(m_tickets[c]) = r /\ HasIt(Tail(m_tickets[c]), old)
    <3>1. is_new_ticket
      BY <1>3, <2>2
    <3>2. tl = remove_ticket(m_granted[k], Ticket(c, r.type)) /\ mine = Tail(m_tickets[c])
      BY <3>1
    <3>3. m_tickets[c] # <<>>
      <4>1. Len(m_tickets[c]) # 0
        BY <1>3, <2>2
      <4> QED
        BY <4>1
    <3>4. MergeMid(c, k, r, old, remove_ticket(m_granted[k], Ticket(c, r.type)), Tail(m_tickets[c]))
      <4> HIDE DEF old, r
      <4>1. k \in Keys /\ k = r.key /\ r \in Reqs /\ pc[c] \notin Waiting
        BY <1>2, <1>3
      <4> HIDE DEF k
      <4> QED
        BY <2>2, <3>3, <4>1, MergeNew
    <3> QED
      BY <3>2, <3>4
  <2> QED
    BY <1>2, <2>1, <2>2 DEF MergeOk
<1>6. i \in DOMAIN mine /\ mine[i] = old
  <2>1. \E j \in DOMAIN mine : mine[j] = old
    BY <1>5 DEF MergeMid, HasIt
  <2> HIDE DEF mine, old
  <2> QED
    BY <2>1
<1>7. mine \in Seq(Reqs)
  BY <1>5 DEF MergeMid
<1> HIDE DEF tl, mine, old, i, new, is_new_ticket
<1>8. i \in 1 .. Len(mine)
  BY <1>6, <1>7, LenProperties
<1>9. q \in Reqs
  BY <1>3, <1>4 DEF Reqs
<1>10. m_tickets' = [m_tickets EXCEPT ![c] = [mine EXCEPT ![i] = q]]
  <2>1. [mine EXCEPT ![i].type = r.type] = [mine EXCEPT ![i] = q]
    BY <1>6
  <2> QED
    BY <1>1, <2>1
<1> HIDE DEF q
<1>11. p = [mine EXCEPT ![i] = q] /\ \A d \in Ctx \ {c} : m_tickets'[d] = m_tickets[d]
  BY <1>10 DEF MdlInv, MdlTypes
<1>12. [mine EXCEPT ![i] = q] \in Seq(Reqs) /\ Replaced(mine, i, q, [mine EXCEPT ![i] = q])
  BY <1>7, <1>8, <1>9, ReplaceFacts
<1>13. m_tickets' \in [Ctx -> Seq(Reqs)]
  BY <1>10, <1>12 DEF MdlInv, MdlTypes
<1>14. p \in Seq(Reqs) /\ Replaced(mine, i, q, p)
  <2> HIDE DEF p
  <2> QED
    BY <1>11, <1>12
<1>15. Mult(tl.list, Ticket(c, old.type)) > 0
  <2>1. old \in OfLock(k, old.type)
    BY <1>4 DEF OfLock
  <2>2. Occ(mine, OfLock(k, old.type)) > 0
    BY <1>6, <1>7, <1>8, <2>1, OccFacts
  <2> QED
    BY <1>4, <1>5, <2>2 DEF MergeMid
<1>16. Retyped(c, k, tl, mine, g, p, r.type)
  <2> HIDE DEF p, k
  <2>1. Replaced(mine, i, [old EXCEPT !.type = r.type], p)
    BY <1>14 DEF q
  <2>2. Good(tl) /\ Fits(tl)
    BY <1>5 DEF MergeMid
  <2>3. g = add_ticket(remove_ticket(tl, Ticket(c, old.type)), Ticket(c, r.type))
    BY DEF new
  <2>4. PICK type \in Types : type = r.type
    BY <1>3
  <2>5. old = mine[i] /\ old \in Reqs /\ old.key = k
    BY <1>4, <1>6
  <2> HIDE DEF g, r
  <2>6. /\ g = add_ticket(remove_ticket(tl, Ticket(c, old.type)), Ticket(c, type))
        /\ Replaced(mine, i, [old EXCEPT !.type = type], p)
    BY <2>1, <2>3, <2>4
  <2>7. Retyped(c, k, tl, mine, g, p, type)
    BY <1>3, <1>7, <1>8, <1>14, <1>15, <2>2, <2>5, <2>6, RetypeFacts
  <2> QED
    BY <2>4, <2>7
<1>17. m_granted'[k] = g /\ \A j \in Keys \ {k} : m_granted'[j] = m_granted[j]
  BY <1>1, <1>3 DEF MdlInv, MdlTypes
<1>18. m_granted' \in [Keys -> TicketList]
  <2>1. g \in TicketList
    BY <1>16 DEF Retyped, Good
  <2> QED
    BY <1>1, <2>1 DEF MdlInv, MdlTypes
<1>19. /\ pc' \in [Ctx -> Labels] /\ cur' \in [Ctx -> Reqs \cup {NoRequest}]
       /\ call' \in [Ctx -> Calls] /\ pc'[c] = "run" /\ call'[c] = NoCall
       /\ \A d \in Ctx \ {c} : pc'[d] = pc[d] /\ cur'[d] = cur[d] /\ call'[d] = call[d]
  <2>1. "run" \in Labels /\ cur[c] \in Reqs \cup {NoRequest} /\ call[c] \in Calls /\ MdlTypes
    BY DEF Labels, MdlInv, MdlTypes
  <2> QED
    BY <1>1, <2>1, ContinueFacts
<1>20. CallOk(c)' /\ pc'[c] \notin Waiting
  <2>1. NoCall.more = <<>>
    BY DEF NoCall
  <2> QED
    BY <1>19, <2>1, RestingOk
<1>21. MdlTypes'
  BY <1>1, <1>13, <1>18, <1>19 DEF MdlInv, MdlTypes, TicketList, Tickets, Reqs, Calls
<1> HIDE DEF g, k, p
<1>22. OneKey(c, k)
  <2>1. \A d \in Ctx \ {c} : Untouched(d) /\ m_wait'[d] = m_wait[d]
    BY <1>1, <1>11, <1>19 DEF Untouched
  <2>2. Good(m_granted'[k]) /\ Good(m_waiting'[k])
    <3>1. Good(m_waiting[k])
      BY <1>3 DEF MdlInv, ListOk
    <3> QED
      BY <1>1, <1>16, <1>17, <3>1 DEF Retyped
  <2>3. ASSUME NEW d \in Ctx \ {c}, NEW t \in Types
        PROVE  Mult(m_granted'[k].list, Ticket(d, t)) = Mult(m_granted[k].list, Ticket(d, t))
    BY <1>5, <1>16, <1>17 DEF MergeMid, Retyped
  <2>4. ASSUME NEW t \in Types
        PROVE  /\ Mult(m_waiting'[k].list, Ticket(c, t)) = PendingIn(c, k, t)'
               /\ Mult(m_granted'[k].list, Ticket(c, t)) =
                      Occ(m_tickets'[c], OfLock(k, t)) + OnItsWay(c, k, t)'
    <3>1. PendingIn(c, k, t)' = 0 /\ OnItsWay(c, k, t)' = 0
      BY <1>19 DEF PendingIn, OnItsWay, WaitsIn, Waiting
    <3>2. PendingIn(c, k, t) = 0
      BY <1>2 DEF PendingIn, WaitsIn
    <3>3. Mult(m_waiting'[k].list, Ticket(c, t)) = 0
      BY <1>1, <1>3, <3>2 DEF MdlInv, ListOk
    <3>4. Mult(g.list, Ticket(c, t)) - Occ(p, OfLock(k, t)) =
              Mult(tl.list, Ticket(c, t)) - Occ(mine, OfLock(k, t))
      BY <1>16 DEF Retyped
    <3>5. Mult(tl.list, Ticket(c, t)) = Occ(mine, OfLock(k, t))
      BY <1>5 DEF MergeMid
    <3>6. Occ(mine, OfLock(k, t)) \in Nat /\ Occ(p, OfLock(k, t)) \in Nat
      BY <1>7, <1>14, OccFacts
    <3>7. Mult(g.list, Ticket(c, t)) \in Nat
      <4>1. Good(g) /\ Ticket(c, t) \in Tickets
        BY <1>16, TicketFacts DEF Retyped
      <4> QED
        BY <4>1, MultFacts
    <3>8. \A a, b, n \in Nat : a - b = n - n => a = b + 0
      OBVIOUS
    <3>9. Mult(g.list, Ticket(c, t)) = Occ(p, OfLock(k, t)) + 0
      BY <3>4, <3>5, <3>6, <3>7, <3>8
    <3> QED
      BY <1>17, <3>1, <3>3, <3>9 DEF p
  <2>5. ASSUME NEW j \in Keys \ {k}, NEW t \in Types
        PROVE  Occ(m_tickets'[c], OfLock(j, t)) = Occ(m_tickets[c], OfLock(j, t))
    BY <1>5, <1>16 DEF MergeMid, Retyped, p
  <2>6. \A j \in Keys : m_waiting'[j] = m_waiting[j]
    BY <1>1
  <2> QED
    BY <1>2, <1>3, <1>17, <1>20, <2>1, <2>2, <2>3, <2>4, <2>5, <2>6 DEF OneKey
<1>23. Clonable /\ NoConflict(k, m_granted[k].list) => NoConflict(k, m_granted'[k].list)
  BY <1>5, <1>16, <1>17 DEF MergeMid, Retyped
<1> QED
  BY <1>3, <1>20, <1>21, <1>22, <1>23, OneKeyKeeps

-----------------------------------------------------------------------------
(* The end of a wait *)

\* done_waiting_for(): the ticket is pushed if the slot says GRANTED, else
\* withdrawn.
LEMMA DoneWaitingForStep ==
    ASSUME MdlInv, NEW c \in Ctx, DoneWaitingFor(c)
    PROVE  MdlInv'
<1> DEFINE r == cur[c]
           k == r.key
           cl == call[c]
<1>1. /\ pc[c] = "woken" /\ UNCHANGED <<m_granted, m_waiting, m_wait>>
      /\ result' = [result EXCEPT ![c] = "EMPTY"] \/ result' = result
  BY DEF DoneWaitingFor, lockVars
<1>2. pc[c] \in Waiting
  BY <1>1 DEF Waiting
<1>3. /\ r \in Reqs /\ Told(result[c], m_wait[c])
      /\ UpgradeOk(m_tickets[c], r, cl) /\ (cl.more # <<>> => "X" \in Types)
  BY <1>1, <1>2 DEF MdlInv, CallOk
<1>4. cl \in Calls /\ m_tickets[c] \in Seq(Reqs) /\ result \in [Ctx -> Results]
  BY DEF MdlInv, MdlTypes
<1>5. result' \in [Ctx -> Results] /\ \A d \in Ctx \ {c} : result'[d] = result[d]
  BY <1>1, <1>4 DEF Statuses, Results
<1>6. CASE result[c] = "GRANTED" /\ Push(c, r) /\ Continue(c, After(cl), r, cl)
  <2>1. MdlTypes /\ r \in Reqs \cup {NoRequest} /\ After(cl) \in Labels
    BY <1>3 DEF MdlInv, After, Labels
  <2>2. /\ pc' \in [Ctx -> Labels] /\ cur' \in [Ctx -> Reqs \cup {NoRequest}]
        /\ call' \in [Ctx -> Calls] /\ Continued(c, After(cl), r, cl)
        /\ \A d \in Ctx \ {c} : pc'[d] = pc[d] /\ cur'[d] = cur[d] /\ call'[d] = call[d]
    BY <1>4, <1>6, <2>1, ContinueFacts DEF Continued
  <2>3. m_tickets'[c] = <<r>> \o m_tickets[c] /\ \A d \in Ctx \ {c} : m_tickets'[d] = m_tickets[d]
    BY <1>6 DEF Push, MdlInv, MdlTypes
  <2>4. /\ <<r>> \o m_tickets[c] \in Seq(Reqs)
        /\ \A j, t : Occ(<<r>> \o m_tickets[c], OfLock(j, t)) =
               Occ(m_tickets[c], OfLock(j, t)) + IF r.key = j /\ r.type = t THEN 1 ELSE 0
    BY <1>3, <1>4, PushFacts
  <2>5. m_tickets' \in [Ctx -> Seq(Reqs)]
    BY <1>6, <2>4 DEF Push, MdlInv, MdlTypes
  <2>6. \A j, t : Occ(m_tickets'[c], OfLock(j, t)) =
            Occ(m_tickets[c], OfLock(j, t)) + IF k = j /\ r.type = t THEN 1 ELSE 0
    BY <2>3, <2>4
  <2> HIDE DEF r, cl
  <2>7. cl.kind = "upgrade" => MergeOk(m_tickets'[c], r, cl)
    BY <1>3, <1>4, <2>3, GrantedMergeOk
  <2>8. CallOk(c)' /\ pc'[c] \notin Waiting
    BY <1>3, <1>4, <2>2, <2>7, AfterOk
  <2>9. MdlTypes'
    BY <1>1, <1>5, <2>2, <2>5 DEF MdlInv, MdlTypes, TicketList, Tickets, Reqs, Calls
  <2>10. k \in Keys /\ cur[c] = r
    BY <1>3 DEF Reqs, r
  <2> HIDE DEF k
  <2>11. k = r.key
    BY DEF k
  <2>12. m_wait[c] = "GRANTED"
    BY <1>3, <1>6 DEF Told
  <2>13. OneKey(c, k)
    <3>1. \A d \in Ctx \ {c} : Untouched(d) /\ m_wait'[d] = m_wait[d]
      BY <1>1, <1>5, <2>2, <2>3 DEF Untouched
    <3>2. Good(m_granted'[k]) /\ Good(m_waiting'[k])
      BY <1>1, <2>10 DEF MdlInv, ListOk
    <3>3. ASSUME NEW t \in Types
          PROVE  /\ Mult(m_waiting'[k].list, Ticket(c, t)) = PendingIn(c, k, t)'
                 /\ Mult(m_granted'[k].list, Ticket(c, t)) =
                        Occ(m_tickets'[c], OfLock(k, t)) + OnItsWay(c, k, t)'
      <4>1. PendingIn(c, k, t)' = 0 /\ OnItsWay(c, k, t)' = 0
        <5>1. ~WaitsIn(c, k, t)'
          BY <2>8 DEF WaitsIn, Waiting
        <5> QED
          BY <5>1 DEF PendingIn, OnItsWay
      <4>2. PendingIn(c, k, t) = 0 /\ OnItsWay(c, k, t) = IF r.type = t THEN 1 ELSE 0
        BY <1>2, <2>10, <2>11, <2>12 DEF PendingIn, OnItsWay, WaitsIn
      <4>3. /\ Mult(m_waiting[k].list, Ticket(c, t)) = PendingIn(c, k, t)
            /\ Mult(m_granted[k].list, Ticket(c, t)) = Occ(m_tickets[c], OfLock(k, t)) + OnItsWay(c, k, t)
        BY <2>10 DEF MdlInv, ListOk
      <4>4. Occ(m_tickets'[c], OfLock(k, t)) = Occ(m_tickets[c], OfLock(k, t)) + OnItsWay(c, k, t)
        BY <2>6, <4>2
      <4>5. Occ(m_tickets[c], OfLock(k, t)) \in Nat /\ OnItsWay(c, k, t) \in Nat
        BY <1>4, <4>2, OccFacts
      <4>6. \A a, b \in Nat : a + b = (a + b) + 0
        OBVIOUS
      <4> QED
        BY <1>1, <4>1, <4>2, <4>3, <4>4, <4>5, <4>6
    <3>4. ASSUME NEW j \in Keys \ {k}, NEW t \in Types
          PROVE  Occ(m_tickets'[c], OfLock(j, t)) = Occ(m_tickets[c], OfLock(j, t))
      <4>1. Occ(m_tickets[c], OfLock(j, t)) \in Nat
        BY <1>4, OccFacts
      <4> QED
        BY <2>6, <4>1
    <3>5. cur[c].key = k
      BY <2>10, <2>11
    <3> QED
      BY <1>1, <2>8, <3>1, <3>2, <3>3, <3>4, <3>5 DEF OneKey
  <2>14. NoConflict(k, m_granted[k].list) => NoConflict(k, m_granted'[k].list)
    BY <1>1
  <2> QED
    BY <2>8, <2>9, <2>10, <2>13, <2>14, OneKeyKeeps
<1>7. CASE result[c] # "GRANTED" /\ Goto(c, "withdraw") /\ UNCHANGED <<m_tickets, cur, call, result>>
  <2>1. "withdraw" \in Labels /\ "withdraw" \in Waiting
    BY DEF Labels, Waiting
  <2>2. pc' \in [Ctx -> Labels] /\ pc'[c] = "withdraw" /\ \A d \in Ctx \ {c} : pc'[d] = pc[d]
    BY <1>7, <2>1, GotoFacts
  <2>3. \A d \in Ctx \ {c} : pc'[d] = pc[d] /\ result'[d] = result[d]
    BY <1>5, <2>2
  <2>4. SlotsClosed
    BY <1>1 DEF SlotsClosed
  <2>5. SlotTold(c)
    BY <1>1, <1>3, <1>7, <2>2 DEF SlotTold
  <2>6. m_wait' \in [Ctx -> Statuses] /\ pc'[c] \in Waiting
    BY <1>1, <2>1, <2>2 DEF MdlInv, MdlTypes
  <2>7. UNCHANGED <<m_granted, m_waiting, m_tickets, cur, call>>
    BY <1>1, <1>7
  <2> QED
    BY <1>2, <1>5, <2>2, <2>3, <2>4, <2>5, <2>6, <2>7, WaitingStep
<1> QED
  BY <1>6, <1>7 DEF DoneWaitingFor

-----------------------------------------------------------------------------
(* The theorems *)

\* Nothing is counted in an empty sequence.
LEMMA EmptyOcc == \A S : Occ(<<>>, S) = 0
<1> SUFFICES ASSUME NEW S PROVE Occ(<<>>, S) = 0
  OBVIOUS
<1>1. <<>> \in Seq({}) /\ Len(<<>>) = 0
  BY EmptySeq
<1>2. Occ(<<>>, S) \in Nat /\ Occ(<<>>, S) <= 0
  <2>1. PICK s \in Seq({}) : s = <<>>
    BY <1>1
  <2>2. Occ(s, S) \in Nat /\ Occ(s, S) <= Len(s)
    BY OccFacts
  <2> QED
    BY <1>1, <2>1, <2>2
<1> QED
  BY <1>2

\* A new MDL_lock.
LEMMA EmptyListGood == Good(EmptyList) /\ \A x : Mult(EmptyList.list, x) = 0
<1>1. /\ EmptyList.list = <<>> /\ EmptyList.count = [t \in Types |-> 0] /\ EmptyList.bitmap = {}
      /\ EmptyList = [list |-> EmptyList.list, count |-> EmptyList.count, bitmap |-> EmptyList.bitmap]
  BY DEF EmptyList
<1>2. <<>> \in Seq(Tickets) /\ [t \in Types |-> 0] \in [Types -> Nat] /\ {} \in SUBSET Types
  BY EmptySeq
<1>3. EmptyList \in TicketList
  BY <1>1, <1>2 DEF TicketList
<1>4. Agrees(EmptyList)
  BY <1>1, EmptyOcc DEF Agrees
<1>5. \A x : Mult(EmptyList.list, x) = 0
  BY <1>1, EmptyOcc DEF Mult
<1> QED
  BY <1>3, <1>4, <1>5 DEF Good

\* The invariant holds before the first call.
LEMMA InitOk == Init => MdlInv
<1> SUFFICES ASSUME Init PROVE MdlInv
  OBVIOUS
<1>1. MdlTypes
  <2>1. EmptyList \in TicketList
    BY EmptyListGood DEF Good
  <2>2. <<>> \in Seq(Reqs) /\ "EMPTY" \in Statuses \cap Results /\ "run" \in Labels
    BY EmptySeq DEF Statuses, Results, Labels
  <2>3. NoCall \in Calls
    BY EmptySeq DEF NoCall, Calls
  <2> QED
    BY <2>1, <2>2, <2>3 DEF Init, MdlTypes
<1>2. ASSUME NEW k \in Keys PROVE ListOk(k)
  <2>1. m_granted[k] = EmptyList /\ m_waiting[k] = EmptyList
    BY DEF Init
  <2>2. ASSUME NEW c \in Ctx, NEW t \in Types
        PROVE  /\ Mult(m_waiting[k].list, Ticket(c, t)) = PendingIn(c, k, t)
               /\ Mult(m_granted[k].list, Ticket(c, t)) =
                      Occ(m_tickets[c], OfLock(k, t)) + OnItsWay(c, k, t)
    <3>1. ~WaitsIn(c, k, t)
      BY DEF Init, WaitsIn, Waiting
    <3>2. PendingIn(c, k, t) = 0 /\ OnItsWay(c, k, t) = 0
      BY <3>1 DEF PendingIn, OnItsWay
    <3>3. m_tickets[c] = <<>>
      BY DEF Init
    <3>4. Occ(m_tickets[c], OfLock(k, t)) = 0
      BY <3>3, EmptyOcc
    <3> QED
      BY <2>1, <3>2, <3>4, EmptyListGood
  <2> QED
    BY <2>1, <2>2, EmptyListGood DEF ListOk
<1>3. ASSUME NEW c \in Ctx PROVE CallOk(c)
  <2>1. pc[c] = "run" /\ call[c] = NoCall
    BY DEF Init
  <2>2. NoCall.more = <<>>
    BY DEF NoCall
  <2> QED
    BY <2>1, <2>2 DEF CallOk, Waiting
<1>4. NoConflicts
  <2>1. \A k \in Keys : m_granted[k] = EmptyList
    BY DEF Init
  <2> QED
    BY <2>1, EmptyListGood DEF NoConflicts, NoConflict
<1> QED
  BY <1>1, <1>2, <1>3, <1>4 DEF MdlInv

\* no withdrawal so far was overtaken by a grant
NoneOvertaken == overtaken = {}

\* One that was stays on record.
LEMMA OvertakenStays ==
    ASSUME [Next]_vars, overtaken' = {}
    PROVE  overtaken = {}
  BY DEF Next, vars

\* Every step keeps the invariant, but for an overtaken withdrawal.
LEMMA NextOk ==
    ASSUME MdlInv, AllFit, AllFit', [Next]_vars, overtaken' = {}
    PROVE  MdlInv'
<1>1. CASE UNCHANGED vars
  <2>1. UNCHANGED <<m_granted, m_waiting, m_tickets, m_wait, pc, cur, call, result>>
    BY <1>1 DEF vars, lockVars, ctxVars, callVars
  <2>2. Clonable' <=> Clonable
    BY DEF Clonable, Clash, Incompatible
  <2>3. MdlTypes'
    BY <2>1 DEF MdlInv, MdlTypes, TicketList, Tickets, Reqs, Calls
  <2>4. ASSUME NEW c \in Ctx PROVE CallOk(c)'
    <3>1. Other(c)
      BY <2>1 DEF Other
    <3> QED
      BY <3>1, OtherCallOk DEF MdlInv
  <2>5. ASSUME NEW k \in Keys PROVE ListOk(k)'
    <3>1. KeptKey(k)
      BY <2>1 DEF KeptKey, PendingIn, OnItsWay, WaitsIn
    <3> QED
      BY <3>1, KeptKeyOk DEF MdlInv
  <2>6. NoConflicts => NoConflicts'
    BY <2>1 DEF NoConflicts, NoConflict, Compatible, Incompatible, Mult, Occ, Tickets
  <2> QED
    BY <2>2, <2>3, <2>4, <2>5, <2>6 DEF MdlInv
<1>2. ASSUME NEW c \in Ctx, Run(c), ~Overtaken(c) PROVE MdlInv'
  BY <1>2, MoreStep, MergeStep, WillWaitForStep, FindDeadlockStep, SetVictimStep, WaitStep,
     DoneWaitingForStep, WithdrawStep, RollbackStep, CommitStep, ReleaseLocksStep DEF Run
<1>3. ASSUME NEW c \in Ctx, Request(c) PROVE MdlInv'
  BY <1>3, AcquireStep, TryAcquireStep, AcquireLocksStep, UpgradeStep, DowngradeStep DEF Request
<1>4. ASSUME NEW c \in Ctx, WaitFault(c) PROVE MdlInv'
  BY <1>4, WaitFaultStep
<1>5. CASE Next
  <2>1. PICK c \in Ctx : /\ Run(c) \/ Request(c) \/ WaitFault(c)
                         /\ overtaken' = IF Overtaken(c) THEN overtaken \cup {c} ELSE overtaken
    BY <1>5 DEF Next
  <2>2. ~Overtaken(c)
    BY <2>1
  <2> QED
    BY <1>2, <1>3, <1>4, <2>1, <2>2
<1> QED
  BY <1>1, <1>5

(* MdlInv is an invariant of the metadata locks, for any number of         *)
(* sessions, objects and calls, any requests, and the steps of the SQL     *)
(* layer, the waiting threads and the deadlock detectors in any order, as  *)
(* long as no object has 2^32 tickets.  It lasts until a session whose     *)
(* client is gone withdraws a ticket that was granted meanwhile; the       *)
(* timeouts, kills, deadlocks and lost connections that are not overtaken  *)
(* by a grant do it no harm.                                               *)
THEOREM MdlInvariant == MdlSafety /\ []AllFit => [](NoneOvertaken => MdlInv)
<1>1. (NoneOvertaken => MdlInv) /\ AllFit /\ AllFit' /\ [Next]_vars => (NoneOvertaken => MdlInv)'
  BY NextOk, OvertakenStays DEF NoneOvertaken
<1> QED
  BY <1>1, InitOk, PTL DEF MdlSafety

\* A granted ticket is counted.
LEMMA ListedFacts ==
    ASSUME MdlInv, NEW k \in Keys, NEW x \in Listed(k)
    PROVE  x \in Tickets /\ Mult(m_granted[k].list, x) > 0
<1>1. Good(m_granted[k]) /\ m_granted[k].list \in Seq(Tickets)
  BY DEF MdlInv, ListOk, Good, TicketList
<1>2. PICK i \in DOMAIN m_granted[k].list : m_granted[k].list[i] = x
  BY DEF Listed, Range
<1>3. i \in 1 .. Len(m_granted[k].list)
  BY <1>1, LenProperties
<1>4. x \in Tickets
  BY <1>1, <1>2, <1>3, ElementOfSeq
<1> QED
  BY <1>1, <1>2, <1>3, <1>4, MultFacts

\* The counter of a type is the number of tickets of that type.
LEMMA CountIsCardinality ==
    ASSUME NEW tl, Good(tl), NEW t \in Types
    PROVE  /\ tl.count[t] = Cardinality({i \in DOMAIN tl.list : tl.list[i].type = t})
           /\ t \in tl.bitmap <=> tl.count[t] > 0
<1>1. tl.list \in Seq(Tickets)
  BY DEF Good, TicketList
<1>2. \A i \in DOMAIN tl.list : tl.list[i] \in Tickets
  BY <1>1, LenProperties, ElementOfSeq
<1>3. {i \in DOMAIN tl.list : tl.list[i] \in OfType(t)} = {i \in DOMAIN tl.list : tl.list[i].type = t}
  BY <1>2 DEF OfType
<1>4. tl.count[t] = Occ(tl.list, OfType(t)) /\ (t \in tl.bitmap <=> tl.count[t] > 0)
  BY DEF Good, Agrees
<1> QED
  BY <1>3, <1>4 DEF Occ

\* The invariant says what TicketsAgree says, and how many tickets there are.
LEMMA MdlInvTicketsAgree == (NoneOvertaken => MdlInv) => TicketsAgree
<1> SUFFICES ASSUME MdlInv PROVE TicketsAgree
  BY DEF NoneOvertaken, TicketsAgree
<1>1. ASSUME NEW k \in Keys, NEW tl \in {m_granted[k], m_waiting[k]}, NEW t \in Types
      PROVE  /\ tl.count[t] = Cardinality({i \in DOMAIN tl.list : tl.list[i].type = t})
             /\ t \in tl.bitmap <=> tl.count[t] > 0
  <2>1. Good(tl)
    BY DEF MdlInv, ListOk
  <2> QED
    BY <2>1, CountIsCardinality
<1>2. ASSUME NEW k \in Keys, NEW x \in Listed(k)
      PROVE  \/ \E i \in DOMAIN m_tickets[x.ctx] :
                    m_tickets[x.ctx][i].key = k /\ m_tickets[x.ctx][i].type = x.type
             \/ m_wait[x.ctx] = "GRANTED" /\ cur[x.ctx].key = k /\ pc[x.ctx] \in
                    {"added", "detect", "victim", "wait", "woken", "withdraw"}
  <2>1. x \in Tickets /\ Mult(m_granted[k].list, x) > 0
    BY ListedFacts
  <2>2. PICK c \in Ctx, t \in Types : c = x.ctx /\ t = x.type /\ x = Ticket(c, t)
    BY <2>1, TicketFacts
  <2>3. Mult(m_granted[k].list, Ticket(c, t)) = Occ(m_tickets[c], OfLock(k, t)) + OnItsWay(c, k, t)
    BY DEF MdlInv, ListOk
  <2>4. m_tickets[c] \in Seq(Reqs)
    BY DEF MdlInv, MdlTypes
  <2>5. /\ Occ(m_tickets[c], OfLock(k, t)) \in Nat
        /\ Occ(m_tickets[c], OfLock(k, t)) > 0 <=>
               \E i \in 1 .. Len(m_tickets[c]) : m_tickets[c][i] \in OfLock(k, t)
    BY <2>4, OccFacts
  <2>6. CASE Occ(m_tickets[c], OfLock(k, t)) > 0
    <3>1. PICK i \in 1 .. Len(m_tickets[c]) : m_tickets[c][i] \in OfLock(k, t)
      BY <2>5, <2>6
    <3>2. i \in DOMAIN m_tickets[c]
      BY <2>4, LenProperties
    <3>3. m_tickets[c][i].key = k /\ m_tickets[c][i].type = t
      BY <3>1 DEF OfLock
    <3> QED
      BY <2>2, <3>2, <3>3
  <2>7. CASE OnItsWay(c, k, t) > 0
    <3>1. WaitsIn(c, k, t) /\ m_wait[c] = "GRANTED"
      BY <2>7 DEF OnItsWay
    <3> QED
      BY <2>2, <3>1 DEF WaitsIn, Waiting
  <2>8. Occ(m_tickets[c], OfLock(k, t)) > 0 \/ OnItsWay(c, k, t) > 0
    <3>1. OnItsWay(c, k, t) \in Nat
      BY DEF OnItsWay
    <3>2. Occ(m_tickets[c], OfLock(k, t)) + OnItsWay(c, k, t) > 0
      BY <2>1, <2>2, <2>3
    <3> QED
      BY <2>5, <3>1, <3>2
  <2> QED
    BY <2>6, <2>7, <2>8
<1> QED
  BY <1>1, <1>2 DEF TicketsAgree

\* The invariant says what NoConflictingGrants says.
LEMMA MdlInvNoConflict == MdlInv /\ Clonable => NoConflictingGrants
<1> SUFFICES ASSUME MdlInv, Clonable, NEW k \in Keys, NEW x \in Listed(k), NEW y \in Listed(k)
             PROVE  Compatible(k, x, y)
  BY DEF NoConflictingGrants, Compatible
<1>1. /\ x \in Tickets /\ Mult(m_granted[k].list, x) > 0
      /\ y \in Tickets /\ Mult(m_granted[k].list, y) > 0
  BY ListedFacts
<1>2. NoConflict(k, m_granted[k].list)
  BY DEF MdlInv, NoConflicts
<1> QED
  BY <1>1, <1>2 DEF NoConflict

(* The counters and bitmaps of Ticket_list, from which can_grant_lock()    *)
(* decides without looking at the list, say what is in the list; and no    *)
(* granted ticket is left behind: its context holds it or has been told to *)
(* take it.                                                                *)
THEOREM TicketsAlwaysAgree == MdlSafety /\ []AllFit => []TicketsAgree
  BY MdlInvariant, MdlInvTicketsAgree, PTL

(* Two contexts never hold conflicting locks on an object, however they    *)
(* got them: at once, by a clone, from the queue, by an upgrade or a       *)
(* downgrade, provided that a weaker type conflicts with nothing that the  *)
(* stronger one does not conflict with; up to the first overtaken          *)
(* withdrawal.                                                             *)
THEOREM GrantsNeverConflict ==
    ASSUME Clonable
    PROVE  MdlSafety /\ []AllFit => [](NoneOvertaken => NoConflictingGrants)
<1>1. MdlInv => NoConflictingGrants
  BY MdlInvNoConflict
<1> QED
  BY <1>1, MdlInvariant, PTL

\* The compatibility matrix of a table is symmetric.
LEMMA ObjectSymmetric ==
    ASSUME NEW t \in ObjectTypes, NEW u \in ObjectTypes, t \in object_granted(u)
    PROVE  u \in object_granted(t)
  BY DEF object_granted, ObjectTypes, Shared, Strong

\* The same of the types of a schema.
LEMMA ScopedSymmetric ==
    ASSUME NEW t \in {"IX", "S", "X"}, NEW u \in {"IX", "S", "X"}, t \in scoped_granted(u)
    PROVE  u \in scoped_granted(t)
  BY DEF scoped_granted, IX

\* all objects of one of the namespaces whose matrix is symmetric
TableKeys == Types \subseteq ObjectTypes /\ \A k \in Keys : Namespace[k] = "TABLE"
SchemaKeys == Types \subseteq {"IX", "S", "X"} /\ \A k \in Keys : Namespace[k] = "SCHEMA"

\* Two types conflict either way round.
LEMMA ConflictsSymmetric ==
    ASSUME TableKeys \/ SchemaKeys, NEW k \in Keys, NEW t \in Types, NEW u \in Types,
           t \in Incompatible(k, u)
    PROVE  u \in Incompatible(k, t)
<1>1. CASE TableKeys
  <2>1. /\ Incompatible(k, u) = object_granted(u) /\ Incompatible(k, t) = object_granted(t)
        /\ t \in ObjectTypes /\ u \in ObjectTypes
    BY <1>1 DEF Incompatible, incompatible_granted_types_bitmap, TableKeys
  <2> QED
    BY <2>1, ObjectSymmetric
<1>2. CASE SchemaKeys
  <2>1. /\ Incompatible(k, u) = scoped_granted(u) /\ Incompatible(k, t) = scoped_granted(t)
        /\ t \in {"IX", "S", "X"} /\ u \in {"IX", "S", "X"}
    BY <1>2 DEF Incompatible, incompatible_granted_types_bitmap, SchemaKeys
  <2> QED
    BY <2>1, ScopedSymmetric
<1> QED
  BY <1>1, <1>2

\* On symmetric matrices a weaker type conflicts with less.
LEMMA TablesClonable == TableKeys \/ SchemaKeys => Clonable
<1> SUFFICES ASSUME TableKeys \/ SchemaKeys, NEW k \in Keys, NEW held \in Types, NEW t \in Types,
                    NEW u \in Types, has_stronger_or_equal_type(Namespace[k], held, t), Clash(k, t, u)
             PROVE  Clash(k, held, u)
  BY DEF Clonable
<1>2. Incompatible(k, t) \subseteq Incompatible(k, held)
  BY DEF has_stronger_or_equal_type, Incompatible
<1>3. u \in Incompatible(k, held)
  BY <1>2 DEF Clash
<1>4. held \in Incompatible(k, u)
  BY <1>3, ConflictsSymmetric
<1> QED
  BY <1>3, <1>4 DEF Clash

(* The compatibility matrices of tables and of schemas are such that this  *)
(* is so: on them conflicting locks are not granted, up to the first       *)
(* overtaken withdrawal.                                                   *)
COROLLARY TableGrantsNeverConflict ==
    ASSUME TableKeys \/ SchemaKeys
    PROVE  MdlSafety /\ []AllFit => [](NoneOvertaken => NoConflictingGrants)
  BY TablesClonable, GrantsNeverConflict

-----------------------------------------------------------------------------
(***************************************************************************)
(* No grant is missed.  A request is stuck if a pending one goes first or  *)
(* a granted one is in its way, which is what can_grant_lock() finds in    *)
(* the bitmaps and the list.  A ticket that the pass of                    *)
(* reschedule_waiters() does not grant is stuck at its turn, and stays so: *)
(* a pending ticket that goes first may be granted later in the pass, but  *)
(* then it is in the way.  Steps that do not reschedule add tickets, close *)
(* slots, or put the new ticket of an upgrade in the place of the old one, *)
(* and the new type is in the way of whatever the old one was.             *)
(***************************************************************************)

Ahead(k, w, type) == \E y \in Tickets : Mult(w.list, y) > 0 /\ y.type \in Yields(k, type)
Against(k, g, type, c) ==
    \E z \in Tickets : Mult(g.list, z) > 0 /\ z.ctx # c /\ z.type \in Incompatible(k, type)
Stuck(k, g, w, x) == Ahead(k, w, x.type) \/ Against(k, g, x.type, x.ctx)

\* every waiting ticket of a type in U whose slot is open
KeyStuck(k, U, g, w, slots) ==
    \A x \in Tickets : Mult(w.list, x) > 0 /\ slots[x.ctx] = "EMPTY" /\ x.type \in U =>
                           Stuck(k, g, w, x)
\* T says which types, for each key
AllStuck(T, granted, waiting, slots) ==
    \A k \in Keys : KeyStuck(k, T[k], granted[k], waiting[k], slots)
Unmissed(T) == AllStuck(T, m_granted, m_waiting, m_wait)

\* A type yields only to types that it conflicts with.
YieldsToConflicts == \A k \in Keys, t \in Types : Yields(k, t) \subseteq Incompatible(k, t)
\* The new type of an upgrade is in the way of whatever the old one is.
UpgradesStrengthen == \A k \in Keys, u \in Upgrades, t \in Types :
    u[1] \in Incompatible(k, t) => u[2] \in Incompatible(k, t)

\* A bit that is set stands for a ticket in the list.
LEMMA BitFacts ==
    ASSUME NEW tl, Good(tl), NEW t \in tl.bitmap
    PROVE  t \in Types /\ \E y \in Tickets : Mult(tl.list, y) > 0 /\ y.type = t
<1>1. tl.list \in Seq(Tickets) /\ t \in Types
  BY DEF Good, TicketList
<1>2. Occ(tl.list, OfType(t)) > 0
  BY <1>1 DEF Good, Agrees
<1>3. PICK i \in 1 .. Len(tl.list) : tl.list[i] \in OfType(t)
  BY <1>1, <1>2, OccFacts
<1> DEFINE y == tl.list[i]
<1>4. y \in Tickets /\ y.type = t
  BY <1>3 DEF OfType
<1>5. Mult(tl.list, y) > 0
  BY <1>3, <1>4, MultFacts
<1> QED
  BY <1>1, <1>4, <1>5

\* What can_grant_lock() refuses is stuck, whether or not priorities count.
LEMMA RefusedIsStuck ==
    ASSUME NEW k, NEW g, NEW w, Good(g), Good(w), NEW x \in Tickets, NEW skip,
           ~can_grant_lock(k, g, w, x.type, x.ctx, skip)
    PROVE  Stuck(k, g, w, x)
<1>1. CASE w.bitmap \cap Yields(k, x.type) # {}
  <2>1. PICK t \in w.bitmap : t \in Yields(k, x.type)
    BY <1>1
  <2>2. PICK y \in Tickets : Mult(w.list, y) > 0 /\ y.type = t
    BY BitFacts
  <2> QED
    BY <2>1, <2>2 DEF Stuck, Ahead
<1>2. CASE InTheWay(k, g, x.type, x.ctx) # {}
  <2>1. PICK i \in DOMAIN g.list :
            g.list[i].ctx # x.ctx /\ g.list[i].type \in Incompatible(k, x.type)
    BY <1>2 DEF InTheWay
  <2>2. g.list \in Seq(Tickets)
    BY DEF Good, TicketList
  <2>3. i \in 1 .. Len(g.list)
    BY <2>2, LenProperties
  <2> DEFINE z == g.list[i]
  <2>4. z \in Tickets
    BY <2>2, <2>3, ElementOfSeq
  <2>5. Mult(g.list, z) > 0
    BY <2>3, <2>4, MultFacts
  <2> QED
    BY <2>1, <2>4, <2>5 DEF Stuck, Against
<1> QED
  BY <1>1, <1>2 DEF can_grant_lock

\* What is stuck is refused.
LEMMA StuckIsRefused ==
    ASSUME NEW k, NEW g, NEW w, Good(g), Good(w), NEW x \in Tickets, Stuck(k, g, w, x)
    PROVE  ~can_grant_lock(k, g, w, x.type, x.ctx, FALSE)
<1> SUFFICES ASSUME can_grant_lock(k, g, w, x.type, x.ctx, FALSE) PROVE FALSE
  OBVIOUS
<1>1. /\ w.bitmap \cap Yields(k, x.type) = {}
      /\ g.bitmap \cap Incompatible(k, x.type) = {} \/ InTheWay(k, g, x.type, x.ctx) = {}
  BY DEF can_grant_lock
<1>2. CASE Ahead(k, w, x.type)
  <2>1. PICK y \in Tickets : Mult(w.list, y) > 0 /\ y.type \in Yields(k, x.type)
    BY <1>2 DEF Ahead
  <2>2. y.type \in w.bitmap
    BY <2>1, MultFacts
  <2> QED
    BY <1>1, <2>1, <2>2
<1>3. CASE Against(k, g, x.type, x.ctx)
  <2>1. PICK z \in Tickets :
            Mult(g.list, z) > 0 /\ z.ctx # x.ctx /\ z.type \in Incompatible(k, x.type)
    BY <1>3 DEF Against
  <2> QED
    BY <1>1, <2>1, CanGrantFacts
<1> QED
  BY <1>2, <1>3 DEF Stuck

-----------------------------------------------------------------------------
(* The pass over the waiting list *)

\* The loop wakes more and more contexts.
LEMMA WokenGrows ==
    ASSUME NEW f, NEW k, NEW g, NEW w, Len(w.list) \in Nat, Loop(f, k, g, w),
           NEW i \in 0 .. Len(w.list)
    PROVE  f[i].woken \subseteq f[Len(w.list)].woken
<1> DEFINE n == Len(w.list)
           T == {j \in i .. n : ~(f[i].woken \subseteq f[j].woken)}
<1>1. n \in Nat /\ i \in 0 .. n
  OBVIOUS
<1>2. ASSUME NEW j \in 1 .. n PROVE f[j - 1].woken \subseteq f[j].woken
  <2>1. f[j] = GrantTicket(k, Skip(k, w), f[j - 1], w.list[j])
    BY DEF Loop
  <2> DEFINE s == f[j - 1]
             x == w.list[j]
  <2>2. f[j] = s \/ f[j].woken = s.woken \cup {x.ctx}
    <3>1. f[j] = GrantTicket(k, Skip(k, w), s, x)
      BY <2>1
    <3> HIDE DEF s, x
    <3> QED
      BY <3>1 DEF GrantTicket
  <2> QED
    BY <2>2
<1> HIDE DEF n
<1>3. T = {}
  <2> SUFFICES ASSUME T # {} PROVE FALSE
    OBVIOUS
  <2>1. T \in SUBSET Nat
    BY <1>1
  <2>2. PICK m \in T : \A j \in T : m <= j
    <3> HIDE DEF T
    <3> QED
      BY <2>1, LeastNat
  <2>3. m \in i .. n /\ ~(f[i].woken \subseteq f[m].woken)
    OBVIOUS
  <2>4. m # i
    BY <2>3
  <2>5. m - 1 \in i .. n /\ m \in 1 .. n /\ ~(m <= m - 1)
    BY <1>1, <2>3, <2>4
  <2>6. m - 1 \notin T
    <3> HIDE DEF T
    <3> QED
      BY <2>2, <2>5
  <2>7. f[i].woken \subseteq f[m - 1].woken
    BY <2>5, <2>6
  <2> QED
    BY <1>2, <2>3, <2>5, <2>7
<1>4. n \in i .. n
  BY <1>1
<1>5. f[i].woken \subseteq f[n].woken
  BY <1>3, <1>4
<1> QED
  BY <1>5 DEF n

\* What is stuck during the pass stays so: a pending ticket that goes first is
\* in the way once it is granted.
LEMMA StaysStuck ==
    ASSUME NEW k \in Keys, NEW g, NEW w, Good(g), Good(w), YieldsToConflicts,
           NEW i, NEW j, NEW s, NEW e, Passed(k, g, w, i, s), Passed(k, g, w, j, e),
           s.woken \subseteq e.woken, NEW x \in Tickets, x.ctx \notin e.woken,
           Stuck(k, s.g, s.w, x)
    PROVE  Stuck(k, e.g, e.w, x)
<1>1. ASSUME NEW y \in Tickets
      PROVE  /\ MovedTicket(g, w, s, y) /\ MovedTicket(g, w, e, y)
             /\ Mult(g.list, y) \in Nat /\ Mult(w.list, y) \in Nat
  BY MultFacts DEF Passed
<1>2. CASE Ahead(k, s.w, x.type)
  <2>1. PICK y \in Tickets : Mult(s.w.list, y) > 0 /\ y.type \in Yields(k, x.type)
    BY <1>2 DEF Ahead
  <2>2. y.ctx \notin s.woken /\ Mult(w.list, y) > 0
    BY <1>1, <2>1 DEF MovedTicket
  <2>3. CASE y.ctx \notin e.woken
    <3>1. Mult(e.w.list, y) > 0
      BY <1>1, <2>2, <2>3 DEF MovedTicket
    <3> QED
      BY <2>1, <3>1 DEF Stuck, Ahead
  <2>4. CASE y.ctx \in e.woken
    <3>1. Mult(e.g.list, y) = Mult(g.list, y) + Mult(w.list, y)
      BY <1>1, <2>4 DEF MovedTicket
    <3>2. Mult(e.g.list, y) > 0
      BY <1>1, <2>2, <3>1
    <3>3. y.ctx # x.ctx
      BY <2>4
    <3>4. y.type \in Incompatible(k, x.type)
      BY <2>1, TicketFacts DEF YieldsToConflicts
    <3> QED
      BY <3>2, <3>3, <3>4 DEF Stuck, Against
  <2> QED
    BY <2>3, <2>4
<1>3. CASE Against(k, s.g, x.type, x.ctx)
  <2>1. PICK z \in Tickets :
            Mult(s.g.list, z) > 0 /\ z.ctx # x.ctx /\ z.type \in Incompatible(k, x.type)
    BY <1>3 DEF Against
  <2>2. Mult(e.g.list, z) > 0
    <3>1. CASE z.ctx \in s.woken
      BY <1>1, <2>1, <3>1 DEF MovedTicket
    <3>2. CASE z.ctx \notin s.woken
      <4>1. Mult(g.list, z) > 0
        BY <1>1, <2>1, <3>2 DEF MovedTicket
      <4>2. \/ Mult(e.g.list, z) = Mult(g.list, z)
            \/ Mult(e.g.list, z) = Mult(g.list, z) + Mult(w.list, z)
        BY <1>1 DEF MovedTicket
      <4> QED
        BY <1>1, <4>1, <4>2
    <3> QED
      BY <3>1, <3>2
  <2> QED
    BY <2>1, <2>2 DEF Stuck, Against
<1> QED
  BY <1>2, <1>3 DEF Stuck

\* Strong requests in U are passed over only while they give way.
Heard(k, U) == GivesWay(k) => U \cap Hogs(k) = {}

\* What the pass leaves waiting with an open slot is stuck.
LEMMA PassLeavesStuck ==
    ASSUME NEW k \in Keys, NEW g, NEW w, Good(g), Good(w), Single(w), FitTogether(g, w),
           YieldsToConflicts, NEW U, Heard(k, U), NEW r, r = reschedule_waiters(k, g, w),
           NEW x \in Tickets, Mult(r.w.list, x) > 0, m_wait[x.ctx] = "EMPTY", x.type \in U
    PROVE  Stuck(k, r.g, r.w, x)
<1> DEFINE n == Len(w.list)
<1>1. w.list \in Seq(Tickets) /\ n \in Nat
  BY LenProperties DEF Good, TicketList
<1>2. PICK f : Loop(f, k, g, w) /\ Returns(f[n], r)
  BY LoopFacts
<1>3. n \in 0 .. n
  BY <1>1
<1> DEFINE e == f[n]
<1>4. Passed(k, g, w, n, e) /\ Returns(e, r)
  BY <1>2, <1>3 DEF Loop
<1>5. MovedTicket(g, w, e, x) /\ Mult(e.w.list, x) > 0
  BY <1>4 DEF Passed, Returns
<1>6. x.ctx \notin e.woken /\ Mult(w.list, x) > 0
  <2> HIDE DEF e
  <2> QED
    BY <1>5 DEF MovedTicket
<1>7. PICK j \in 1 .. n : w.list[j] = x
  BY <1>6, MultFacts
<1>8. j \in 0 .. n /\ j - 1 \in 0 .. n
  BY <1>1
<1> DEFINE s == f[j - 1]
<1>9. f[j] = GrantTicket(k, Skip(k, w), s, x)
  BY <1>2, <1>7 DEF Loop
<1>10. Passed(k, g, w, j - 1, s)
  BY <1>2, <1>8 DEF Loop
<1>11. s.woken \subseteq e.woken /\ f[j].woken \subseteq e.woken
  <2>1. \A i \in 0 .. n : f[i].woken \subseteq f[n].woken
    BY <1>1, <1>2, WokenGrows
  <2> QED
    BY <1>8, <2>1
<1> HIDE DEF s, e, n
<1>12. ~(/\ ~(Skip(k, w) /\ x.type \in Hogs(k))
         /\ can_grant_lock(k, s.g, s.w, x.type, x.ctx, Skip(k, w))
         /\ MayWake(x.ctx))
  <2> SUFFICES ASSUME /\ ~(Skip(k, w) /\ x.type \in Hogs(k))
                      /\ can_grant_lock(k, s.g, s.w, x.type, x.ctx, Skip(k, w))
                      /\ MayWake(x.ctx)
               PROVE  FALSE
    OBVIOUS
  <2>1. f[j].woken = s.woken \cup {x.ctx}
    BY <1>9 DEF GrantTicket
  <2> QED
    BY <1>6, <1>11, <2>1
<1>13. ~(Skip(k, w) /\ x.type \in Hogs(k)) /\ MayWake(x.ctx)
  BY DEF Heard, Skip, MayWake
<1>14. ~can_grant_lock(k, s.g, s.w, x.type, x.ctx, Skip(k, w))
  BY <1>12, <1>13
<1>15. Good(s.g) /\ Good(s.w)
  BY <1>10 DEF Passed
<1>16. Stuck(k, s.g, s.w, x)
  BY <1>14, <1>15, RefusedIsStuck
<1>17. Stuck(k, e.g, e.w, x)
  BY <1>4, <1>6, <1>10, <1>11, <1>16, StaysStuck
<1> QED
  BY <1>4, <1>17 DEF Returns

-----------------------------------------------------------------------------
(* Steps that do not reschedule *)

\* Whatever a ticket in g is in the way of, one of its context in g2 is.
Covers(k, g, g2) ==
    \A z \in Tickets : Mult(g.list, z) > 0 =>
        \E z2 \in Tickets : /\ Mult(g2.list, z2) > 0 /\ z2.ctx = z.ctx
                            /\ \A t \in Types : z.type \in Incompatible(k, t) =>
                                                    z2.type \in Incompatible(k, t)
NoFewer(tl, tl2) == \A y \in Tickets : Mult(tl.list, y) > 0 => Mult(tl2.list, y) > 0

\* Who waits in w2 with an open slot did so before, or is stuck already.
NewStuck(k, g, w, slots, w2, slots2) ==
    \A x \in Tickets : Mult(w2.list, x) > 0 /\ slots2[x.ctx] = "EMPTY" =>
        Stuck(k, g, w, x) \/ (Mult(w.list, x) > 0 /\ slots[x.ctx] = "EMPTY")

\* A longer list covers a shorter one.
LEMMA NoFewerCovers ==
    ASSUME NEW k, NEW g, NEW g2, NoFewer(g, g2)
    PROVE  Covers(k, g, g2)
  BY DEF NoFewer, Covers

\* What is stuck stays so while nothing leaves the lists.
LEMMA StuckGrows ==
    ASSUME NEW k, NEW g, NEW w, NEW g2, NEW w2, Covers(k, g, g2), NoFewer(w, w2),
           NEW x \in Tickets, Stuck(k, g, w, x)
    PROVE  Stuck(k, g2, w2, x)
<1>1. CASE Ahead(k, w, x.type)
  <2>1. Ahead(k, w2, x.type)
    BY <1>1 DEF Ahead, NoFewer
  <2> QED
    BY <2>1 DEF Stuck
<1>2. CASE Against(k, g, x.type, x.ctx)
  <2>1. PICK z \in Tickets :
            Mult(g.list, z) > 0 /\ z.ctx # x.ctx /\ z.type \in Incompatible(k, x.type)
    BY <1>2 DEF Against
  <2>2. PICK z2 \in Tickets : /\ Mult(g2.list, z2) > 0 /\ z2.ctx = z.ctx
                              /\ \A t \in Types : z.type \in Incompatible(k, t) =>
                                                      z2.type \in Incompatible(k, t)
    BY <2>1 DEF Covers
  <2>3. z2.type \in Incompatible(k, x.type)
    BY <2>1, <2>2, TicketFacts
  <2> QED
    BY <2>1, <2>2, <2>3 DEF Stuck, Against
<1> QED
  BY <1>1, <1>2 DEF Stuck

\* A key whose lists grow, with new waiting tickets that are stuck.
LEMMA KeyGrows ==
    ASSUME NEW k, NEW U, NEW g, NEW w, NEW slots, KeyStuck(k, U, g, w, slots),
           NEW g2, NEW w2, NEW slots2, Covers(k, g, g2), NoFewer(w, w2),
           NewStuck(k, g, w, slots, w2, slots2)
    PROVE  KeyStuck(k, U, g2, w2, slots2)
<1> SUFFICES ASSUME NEW x \in Tickets, Mult(w2.list, x) > 0, slots2[x.ctx] = "EMPTY", x.type \in U
             PROVE  Stuck(k, g2, w2, x)
  BY DEF KeyStuck
<1>1. Stuck(k, g, w, x)
  BY DEF KeyStuck, NewStuck
<1> QED
  BY <1>1, StuckGrows

\* A slot once closed is not opened by a step.
NoSlotOpened == \A d \in Ctx : m_wait'[d] = "EMPTY" => m_wait[d] = "EMPTY"

\* A key that a step leaves alone.
LEMMA SameKeyStuck ==
    ASSUME NEW k, NEW U, NEW g, NEW w, NoSlotOpened, KeyStuck(k, U, g, w, m_wait)
    PROVE  KeyStuck(k, U, g, w, m_wait')
  BY TicketFacts DEF KeyStuck, NoSlotOpened

\* A step that only closes slots.
LEMMA QuietUnmissed ==
    ASSUME NEW T, Unmissed(T), UNCHANGED <<m_granted, m_waiting>>, NoSlotOpened
    PROVE  AllStuck(T, m_granted', m_waiting', m_wait')
<1> SUFFICES ASSUME NEW k \in Keys
             PROVE  KeyStuck(k, T[k], m_granted[k], m_waiting[k], m_wait')
  BY DEF AllStuck
<1> QED
  BY SameKeyStuck DEF Unmissed, AllStuck

\* add_ticket() removes nothing, whatever the counters do.
LEMMA AddNoFewer ==
    ASSUME NEW tl, tl.list \in Seq(Tickets), NEW x \in Tickets
    PROVE  /\ NoFewer(tl, add_ticket(tl, x))
           /\ \A y \in Tickets : Mult(add_ticket(tl, x).list, y) > 0 => y = x \/ Mult(tl.list, y) > 0
           /\ Mult(add_ticket(tl, x).list, x) > 0
<1>1. tl.list \in Seq(Tickets)
  OBVIOUS
<1>2. ASSUME NEW y \in Tickets
      PROVE  /\ Mult(add_ticket(tl, x).list, y) = Mult(tl.list, y) + Same(x, y)
             /\ Mult(tl.list, y) \in Nat
  <2>1. Occ(Append(tl.list, x), {y}) = Occ(tl.list, {y}) + In(x, {y})
    BY <1>1, OccAppend
  <2>2. Occ(tl.list, {y}) \in Nat
    BY <1>1, OccFacts
  <2> QED
    BY <2>1, <2>2, AddList, InSingleton DEF Mult
<1>3. ASSUME NEW y \in Tickets, Mult(tl.list, y) > 0 PROVE Mult(add_ticket(tl, x).list, y) > 0
  BY <1>2, <1>3 DEF Same
<1>4. ASSUME NEW y \in Tickets, Mult(add_ticket(tl, x).list, y) > 0
      PROVE  y = x \/ Mult(tl.list, y) > 0
  BY <1>2, <1>4 DEF Same
<1>5. Mult(add_ticket(tl, x).list, x) > 0
  BY <1>2 DEF Same
<1> QED
  BY <1>3, <1>4, <1>5 DEF NoFewer

\* A granted ticket is added.
LEMMA AddUnmissed ==
    ASSUME MdlInv, NEW T, Unmissed(T), NEW c \in Ctx, NEW r \in Reqs, AddGranted(c, r),
           UNCHANGED <<m_waiting, m_wait>>
    PROVE  AllStuck(T, m_granted', m_waiting', m_wait')
<1> DEFINE x == Ticket(c, r.type)
<1>1. r.key \in Keys /\ x \in Tickets
  BY TicketFacts DEF Reqs
<1>2. m_granted' = [m_granted EXCEPT ![r.key] = add_ticket(m_granted[r.key], x)]
  BY DEF AddGranted
<1> HIDE DEF x
<1>3. NoSlotOpened
  BY DEF NoSlotOpened
<1> SUFFICES ASSUME NEW k \in Keys
             PROVE  KeyStuck(k, T[k], m_granted'[k], m_waiting'[k], m_wait')
  BY DEF AllStuck
<1>4. KeyStuck(k, T[k], m_granted[k], m_waiting[k], m_wait)
  BY DEF Unmissed, AllStuck
<1>5. CASE k # r.key
  <2>1. m_granted'[k] = m_granted[k] /\ m_waiting'[k] = m_waiting[k]
    BY <1>2, <1>5 DEF MdlInv, MdlTypes
  <2> QED
    BY <1>3, <1>4, <2>1, SameKeyStuck
<1>6. CASE k = r.key
  <2> DEFINE g2 == add_ticket(m_granted[k], x)
  <2>1. m_granted'[k] = g2 /\ m_waiting'[k] = m_waiting[k] /\ m_wait' = m_wait
    BY <1>1, <1>2, <1>6 DEF MdlInv, MdlTypes
  <2>2. NoFewer(m_granted[k], g2) /\ NoFewer(m_waiting[k], m_waiting[k])
    BY <1>1, AddNoFewer DEF MdlInv, ListOk, Good, TicketList, NoFewer
  <2> HIDE DEF g2
  <2>3. NewStuck(k, m_granted[k], m_waiting[k], m_wait, m_waiting[k], m_wait)
    BY DEF NewStuck
  <2>4. KeyStuck(k, T[k], g2, m_waiting[k], m_wait)
    BY <1>4, <2>2, <2>3, NoFewerCovers, KeyGrows
  <2> QED
    BY <2>1, <2>4
<1> QED
  BY <1>5, <1>6

\* A context that does not wait has no waiting ticket.
LEMMA NotWaiting ==
    ASSUME MdlInv, NEW k \in Keys, NEW y \in Tickets, pc[y.ctx] \notin Waiting
    PROVE  Mult(m_waiting[k].list, y) = 0
<1>1. y.ctx \in Ctx /\ y.type \in Types /\ y = Ticket(y.ctx, y.type)
  BY TicketFacts
<1>2. Mult(m_waiting[k].list, Ticket(y.ctx, y.type)) = PendingIn(y.ctx, k, y.type)
  BY <1>1 DEF MdlInv, ListOk
<1>3. PendingIn(y.ctx, k, y.type) = 0
  BY DEF PendingIn, WaitsIn
<1> QED
  BY <1>1, <1>2, <1>3

\* A request that cannot be granted is queued.
LEMMA QueuedUnmissed ==
    ASSUME MdlInv, NEW T, Unmissed(T), NEW c \in Ctx, NEW r \in Reqs, pc[c] \notin Waiting,
           ~Grantable(c, r), UNCHANGED m_granted,
           m_waiting' = [m_waiting EXCEPT ![r.key] = add_ticket(@, Ticket(c, r.type))],
           m_wait' = [m_wait EXCEPT ![c] = "EMPTY"]
    PROVE  AllStuck(T, m_granted', m_waiting', m_wait')
<1> DEFINE x == Ticket(c, r.type)
<1>1. r.key \in Keys /\ x \in Tickets /\ x.ctx = c /\ x.type = r.type
  BY TicketFacts DEF Reqs
<1>2. m_waiting' = [m_waiting EXCEPT ![r.key] = add_ticket(m_waiting[r.key], x)]
  OBVIOUS
<1>3. \A d \in Ctx \ {c} : m_wait'[d] = m_wait[d]
  BY DEF MdlInv, MdlTypes
<1>4. Good(m_granted[r.key]) /\ Good(m_waiting[r.key])
  BY <1>1 DEF MdlInv, ListOk
<1>5. Stuck(r.key, m_granted[r.key], m_waiting[r.key], x)
  <2>1. ~can_grant_lock(r.key, m_granted[r.key], m_waiting[r.key], x.type, x.ctx, FALSE)
    BY <1>1 DEF Grantable
  <2> HIDE DEF x
  <2> QED
    BY <1>1, <1>4, <2>1, RefusedIsStuck
<1> HIDE DEF x
<1>6. ASSUME NEW k \in Keys, NEW y \in Tickets, Mult(m_waiting[k].list, y) > 0
      PROVE  y.ctx # c /\ y.ctx \in Ctx
  <2>1. y.ctx # c
    BY <1>6, NotWaiting
  <2> QED
    BY <2>1, TicketFacts
<1> SUFFICES ASSUME NEW k \in Keys
             PROVE  KeyStuck(k, T[k], m_granted'[k], m_waiting'[k], m_wait')
  BY DEF AllStuck
<1>7. KeyStuck(k, T[k], m_granted[k], m_waiting[k], m_wait)
  BY DEF Unmissed, AllStuck
<1>8. m_granted'[k] = m_granted[k]
  OBVIOUS
<1>9. NoFewer(m_granted[k], m_granted[k]) /\ NoFewer(m_waiting[k], m_waiting[k])
  BY DEF NoFewer
<1>10. CASE k # r.key
  <2>1. m_waiting'[k] = m_waiting[k]
    BY <1>2, <1>10 DEF MdlInv, MdlTypes
  <2>2. \A y \in Tickets : Mult(m_waiting[k].list, y) > 0 /\ m_wait'[y.ctx] = "EMPTY" =>
                               m_wait[y.ctx] = "EMPTY"
    BY <1>3, <1>6
  <2>3. KeyStuck(k, T[k], m_granted[k], m_waiting[k], m_wait')
    BY <1>7, <2>2 DEF KeyStuck
  <2> QED
    BY <1>8, <2>1, <2>3
<1>11. CASE k = r.key
  <2> DEFINE w2 == add_ticket(m_waiting[k], x)
  <2>1. m_waiting'[k] = w2
    BY <1>1, <1>2, <1>11 DEF MdlInv, MdlTypes
  <2>2. /\ NoFewer(m_waiting[k], w2)
        /\ \A y \in Tickets : Mult(w2.list, y) > 0 => y = x \/ Mult(m_waiting[k].list, y) > 0
    BY <1>1, <1>4, <1>11, AddNoFewer DEF Good, TicketList
  <2> HIDE DEF w2
  <2>3. NewStuck(k, m_granted[k], m_waiting[k], m_wait, w2, m_wait')
    <3> SUFFICES ASSUME NEW y \in Tickets, Mult(w2.list, y) > 0, m_wait'[y.ctx] = "EMPTY",
                        y # x
                 PROVE  Mult(m_waiting[k].list, y) > 0 /\ m_wait[y.ctx] = "EMPTY"
      BY <1>5, <1>11 DEF NewStuck
    <3>1. Mult(m_waiting[k].list, y) > 0
      BY <2>2
    <3>2. y.ctx \in Ctx \ {c}
      BY <1>6, <3>1
    <3> QED
      BY <1>3, <3>1, <3>2
  <2>4. Covers(k, m_granted[k], m_granted[k])
    BY <1>9, NoFewerCovers
  <2>5. KeyStuck(k, T[k], m_granted[k], w2, m_wait')
    BY <1>7, <2>2, <2>3, <2>4, KeyGrows
  <2> QED
    BY <1>8, <2>1, <2>5
<1> QED
  BY <1>10, <1>11

\* acquire_lock() up to the wait.
LEMMA AcquireUnmissed ==
    ASSUME MdlInv, NEW T, Unmissed(T), NEW c \in Ctx, NEW r \in Reqs, NEW cl,
           pc[c] \notin Waiting, acquire_lock(c, r, cl)
    PROVE  AllStuck(T, m_granted', m_waiting', m_wait')
<1>1. CASE UNCHANGED <<m_granted, m_waiting, m_wait>>
  <2>1. NoSlotOpened
    BY <1>1 DEF NoSlotOpened
  <2> QED
    BY <1>1, <2>1, QuietUnmissed
<1>2. CASE AddGranted(c, r) /\ UNCHANGED <<m_waiting, m_wait>>
  BY <1>2, AddUnmissed
<1>3. CASE /\ ~Grantable(c, r) /\ UNCHANGED m_granted
           /\ m_waiting' = [m_waiting EXCEPT ![r.key] = add_ticket(@, Ticket(c, r.type))]
           /\ m_wait' = [m_wait EXCEPT ![c] = "EMPTY"]
  BY <1>3, QueuedUnmissed
<1> QED
  BY <1>1, <1>2, <1>3 DEF acquire_lock, Acquired

\* remove_ticket() leaves the other tickets.
LEMMA RemoveLeaves ==
    ASSUME NEW tl, tl.list \in Seq(Tickets), NEW x \in Tickets
    PROVE  /\ remove_ticket(tl, x).list \in Seq(Tickets)
           /\ \A y \in Tickets \ {x} : Mult(tl.list, y) > 0 => Mult(remove_ticket(tl, x).list, y) > 0
<1> DEFINE s == tl.list
<1>1. remove_ticket(tl, x).list = Without(s, x)
  BY DEF remove_ticket
<1>2. DOMAIN s = 1 .. Len(s)
  BY LenProperties
<1>3. CASE \E i \in 1 .. Len(s) : s[i] = x
  <2>1. PICK p \in 1 .. Len(s) : s[p] = x /\ Without(s, x) = RemoveAt(s, p)
    <3> HIDE DEF s
    <3>1. s \in Seq(Tickets)
      BY DEF s
    <3> QED
      BY <1>3, <3>1, WithoutFacts
  <2>2. RemoveAt(s, p) \in Seq(Tickets)
    BY RemoveAtFacts
  <2>3. ASSUME NEW y \in Tickets \ {x}, Mult(s, y) > 0 PROVE Mult(RemoveAt(s, p), y) > 0
    <3>1. Occ(RemoveAt(s, p), {y}) = Occ(s, {y}) - In(s[p], {y})
      BY OccRemoveAt
    <3>2. In(s[p], {y}) = 0
      BY <2>1 DEF In
    <3>3. Occ(s, {y}) \in Nat
      BY OccFacts
    <3> QED
      BY <2>3, <3>1, <3>2, <3>3 DEF Mult
  <2> QED
    BY <1>1, <2>1, <2>2, <2>3
<1>4. CASE ~ \E i \in 1 .. Len(s) : s[i] = x
  <2>1. Without(s, x) = s
    BY <1>2, <1>4 DEF Without, Range
  <2> QED
    BY <1>1, <2>1
<1> QED
  BY <1>3, <1>4

\* An upgrade is one that the SQL layer does: from the type of the old ticket to
\* the type that is asked for.
FromTo(p, r, cl) ==
    p = "merge" \/ (p \in Waiting /\ cl.kind = "upgrade") => <<cl.old.type, r.type>> \in Upgrades
UpgradesKnown == \A c \in Ctx : FromTo(pc[c], cur[c], call[c])

\* The end of an upgrade: the ticket of the new type takes the place of the old
\* one, and nobody is rescheduled.
LEMMA MergeUnmissed ==
    ASSUME MdlInv, NEW T, Unmissed(T), UpgradesStrengthen, UpgradesKnown, NEW c \in Ctx, Merge(c)
    PROVE  AllStuck(T, m_granted', m_waiting', m_wait')
<1> DEFINE r == cur[c]
           k == r.key
           old == call[c].old
           is_new_ticket == Len(m_tickets[c]) > call[c].svp
           new == Ticket(c, r.type)
           was == Ticket(c, old.type)
           tl == IF is_new_ticket THEN remove_ticket(m_granted[k], new) ELSE m_granted[k]
           tl2 == remove_ticket(tl, was)
           g == add_ticket(tl2, new)
<1>1. /\ pc[c] = "merge" /\ m_granted' = [m_granted EXCEPT ![k] = g]
      /\ UNCHANGED <<m_waiting, m_wait>>
  BY DEF Merge
<1>2. r \in Reqs /\ MergeOk(m_tickets[c], r, call[c])
  BY <1>1 DEF MdlInv, CallOk
<1>3. k \in Keys /\ r.type \in Types /\ old.type \in Types
  BY <1>2 DEF MergeOk, Reqs
<1>4. /\ new \in Tickets /\ new.ctx = c /\ new.type = r.type
      /\ was \in Tickets /\ was.ctx = c /\ was.type = old.type
  BY <1>3, TicketFacts
<1>5. <<old.type, r.type>> \in Upgrades
  BY <1>1 DEF UpgradesKnown, FromTo
<1>6. \A t \in Types : was.type \in Incompatible(k, t) => new.type \in Incompatible(k, t)
  <2> DEFINE u == <<old.type, r.type>>
  <2>1. u \in Upgrades /\ u[1] = old.type /\ u[2] = r.type
    BY <1>5
  <2> HIDE DEF u
  <2> QED
    BY <1>3, <1>4, <2>1 DEF UpgradesStrengthen
<1>7. m_granted[k].list \in Seq(Tickets)
  BY <1>3 DEF MdlInv, ListOk, Good, TicketList
<1> HIDE DEF new, was
<1>8. /\ tl.list \in Seq(Tickets)
      /\ \A y \in Tickets \ {new} : Mult(m_granted[k].list, y) > 0 => Mult(tl.list, y) > 0
  BY <1>4, <1>7, RemoveLeaves
<1> HIDE DEF tl
<1>9. /\ tl2.list \in Seq(Tickets)
      /\ \A y \in Tickets \ {was} : Mult(tl.list, y) > 0 => Mult(tl2.list, y) > 0
  BY <1>4, <1>8, RemoveLeaves
<1> HIDE DEF tl2
<1>10. NoFewer(tl2, g) /\ Mult(g.list, new) > 0
  BY <1>4, <1>9, AddNoFewer
<1> HIDE DEF g
<1>11. Covers(k, m_granted[k], g)
  <2> SUFFICES ASSUME NEW z \in Tickets, Mult(m_granted[k].list, z) > 0
               PROVE  \E z2 \in Tickets : /\ Mult(g.list, z2) > 0 /\ z2.ctx = z.ctx
                                          /\ \A t \in Types : z.type \in Incompatible(k, t) =>
                                                                  z2.type \in Incompatible(k, t)
    BY DEF Covers
  <2>1. CASE z \in {new, was}
    BY <1>4, <1>6, <1>10, <2>1
  <2>2. CASE z \notin {new, was}
    <3>1. Mult(g.list, z) > 0
      BY <1>8, <1>9, <1>10, <2>2 DEF NoFewer
    <3> QED
      BY <3>1
  <2> QED
    BY <2>1, <2>2
<1> SUFFICES ASSUME NEW j \in Keys
             PROVE  KeyStuck(j, T[j], m_granted'[j], m_waiting'[j], m_wait')
  BY DEF AllStuck
<1>12. KeyStuck(j, T[j], m_granted[j], m_waiting[j], m_wait)
  BY DEF Unmissed, AllStuck
<1>13. m_waiting'[j] = m_waiting[j] /\ m_wait' = m_wait
  BY <1>1
<1>14. CASE j # k
  <2>1. m_granted'[j] = m_granted[j]
    BY <1>1, <1>14 DEF MdlInv, MdlTypes
  <2> QED
    BY <1>12, <1>13, <2>1
<1>15. CASE j = k
  <2>1. m_granted'[j] = g
    BY <1>1, <1>3, <1>15 DEF MdlInv, MdlTypes
  <2>2. /\ NoFewer(m_waiting[j], m_waiting[j]) /\ Covers(j, m_granted[j], g)
        /\ NewStuck(j, m_granted[j], m_waiting[j], m_wait, m_waiting[j], m_wait)
    BY <1>11, <1>15 DEF NoFewer, NewStuck
  <2>3. KeyStuck(j, T[j], g, m_waiting[j], m_wait)
    BY <1>12, <2>2, KeyGrows
  <2> QED
    BY <1>13, <2>1, <2>3
<1> QED
  BY <1>14, <1>15

-----------------------------------------------------------------------------
(* Steps that reschedule *)

\* After Rescheduled() nobody is missed.
LEMMA RescheduledUnmissed ==
    ASSUME MdlInv, NEW T, Unmissed(T), YieldsToConflicts, NEW k \in Keys, Heard(k, T[k]),
           NEW g, NEW w, Good(g), Good(w), Single(w), FitTogether(g, w), Rescheduled(k, g, w)
    PROVE  AllStuck(T, m_granted', m_waiting', m_wait')
<1> DEFINE s == reschedule_waiters(k, g, w)
<1>1. /\ m_granted' = [m_granted EXCEPT ![k] = s.g] /\ m_waiting' = [m_waiting EXCEPT ![k] = s.w]
      /\ m_wait' = [d \in Ctx |-> IF d \in s.woken THEN "GRANTED" ELSE m_wait[d]]
  BY DEF Rescheduled, SetLists
<1>2. ASSUME NEW x \in Tickets, Mult(s.w.list, x) > 0, m_wait[x.ctx] = "EMPTY", x.type \in T[k]
      PROVE  Stuck(k, s.g, s.w, x)
  BY <1>2, PassLeavesStuck
<1> HIDE DEF s
<1>3. NoSlotOpened
  BY <1>1 DEF NoSlotOpened
<1> SUFFICES ASSUME NEW j \in Keys
             PROVE  KeyStuck(j, T[j], m_granted'[j], m_waiting'[j], m_wait')
  BY DEF AllStuck
<1>4. CASE j # k
  <2>1. m_granted'[j] = m_granted[j] /\ m_waiting'[j] = m_waiting[j]
    BY <1>1, <1>4 DEF MdlInv, MdlTypes
  <2>2. KeyStuck(j, T[j], m_granted[j], m_waiting[j], m_wait)
    BY DEF Unmissed, AllStuck
  <2> QED
    BY <1>3, <2>1, <2>2, SameKeyStuck
<1>5. CASE j = k
  <2>1. m_granted'[j] = s.g /\ m_waiting'[j] = s.w
    BY <1>1, <1>5 DEF MdlInv, MdlTypes
  <2>2. KeyStuck(k, T[k], s.g, s.w, m_wait')
    <3> SUFFICES ASSUME NEW x \in Tickets, Mult(s.w.list, x) > 0, m_wait'[x.ctx] = "EMPTY",
                        x.type \in T[k]
                 PROVE  Stuck(k, s.g, s.w, x)
      BY DEF KeyStuck
    <3>1. m_wait[x.ctx] = "EMPTY"
      BY <1>3, TicketFacts DEF NoSlotOpened
    <3> QED
      BY <1>2, <3>1
  <2> QED
    BY <1>5, <2>1, <2>2
<1> QED
  BY <1>4, <1>5

\* Nor after Removed(): with both lists empty nobody waits.
LEMMA RemovedUnmissed ==
    ASSUME MdlInv, NEW T, Unmissed(T), YieldsToConflicts, NEW k \in Keys, Heard(k, T[k]),
           NEW g, NEW w, Good(g), Good(w), Single(w), FitTogether(g, w), Removed(k, g, w)
    PROVE  AllStuck(T, m_granted', m_waiting', m_wait')
<1>1. CASE g.list = <<>> /\ w.list = <<>>
  <2>1. /\ m_granted' = [m_granted EXCEPT ![k] = g] /\ m_waiting' = [m_waiting EXCEPT ![k] = w]
        /\ m_wait' = m_wait
    BY <1>1 DEF Removed, SetLists
  <2> SUFFICES ASSUME NEW j \in Keys
               PROVE  KeyStuck(j, T[j], m_granted'[j], m_waiting'[j], m_wait')
    BY DEF AllStuck
  <2>2. CASE j # k
    <3>1. m_granted'[j] = m_granted[j] /\ m_waiting'[j] = m_waiting[j]
      BY <2>1, <2>2 DEF MdlInv, MdlTypes
    <3> QED
      BY <2>1, <3>1 DEF Unmissed, AllStuck
  <2>3. CASE j = k
    <3>1. m_waiting'[j] = w
      BY <2>1, <2>3 DEF MdlInv, MdlTypes
    <3>2. \A x : Mult(w.list, x) = 0
      BY <1>1, EmptyOcc DEF Mult
    <3> QED
      BY <3>1, <3>2 DEF KeyStuck
  <2> QED
    BY <2>2, <2>3
<1>2. CASE ~(g.list = <<>> /\ w.list = <<>>)
  BY <1>2, RescheduledUnmissed DEF Removed
<1> QED
  BY <1>1, <1>2

\* A context waits for a key with one ticket at most.
LEMMA SingleWaiting ==
    ASSUME MdlInv, NEW k \in Keys
    PROVE  Single(m_waiting[k])
<1> DEFINE w == m_waiting[k]
<1>1. ASSUME NEW y \in Tickets, Mult(w.list, y) > 0
      PROVE  Mult(w.list, y) = 1 /\ cur[y.ctx].type = y.type /\ y = Ticket(y.ctx, y.type)
  <2>1. y.ctx \in Ctx /\ y.type \in Types /\ y = Ticket(y.ctx, y.type)
    BY TicketFacts
  <2>2. Mult(w.list, Ticket(y.ctx, y.type)) = PendingIn(y.ctx, k, y.type)
    BY <2>1 DEF MdlInv, ListOk
  <2>3. Mult(w.list, y) = 1 /\ WaitsIn(y.ctx, k, y.type)
    BY <1>1, <2>1, <2>2 DEF PendingIn
  <2> QED
    BY <2>1, <2>3 DEF WaitsIn
<1> SUFFICES ASSUME NEW y \in Tickets, NEW z \in Tickets, y.ctx = z.ctx,
                    Mult(w.list, y) > 0, Mult(w.list, z) > 0
             PROVE  y = z /\ Mult(w.list, y) = 1
  BY DEF Single
<1>2. y.type = z.type
  BY <1>1
<1> QED
  BY <1>1, <1>2

\* So it is when a ticket has left the list.
LEMMA SingleLess ==
    ASSUME NEW w, NEW w2, NEW x \in Tickets, Good(w), Single(w), OneLess(w, w2, x)
    PROVE  Single(w2)
<1>1. ASSUME NEW y \in Tickets, Mult(w2.list, y) > 0
      PROVE  Mult(w.list, y) > 0 /\ (Mult(w.list, y) = 1 => Mult(w2.list, y) = 1)
  <2>1. Mult(w.list, y) \in Nat /\ Mult(w2.list, y) = Mult(w.list, y) - Same(x, y)
    BY MultFacts DEF OneLess
  <2> QED
    BY <1>1, <2>1 DEF Same
<1> SUFFICES ASSUME NEW y \in Tickets, NEW z \in Tickets, y.ctx = z.ctx,
                    Mult(w2.list, y) > 0, Mult(w2.list, z) > 0
             PROVE  y = z /\ Mult(w2.list, y) = 1
  BY DEF Single
<1>2. y = z /\ Mult(w.list, y) = 1
  BY <1>1 DEF Single
<1> QED
  BY <1>1, <1>2

\* release_lock().
LEMMA ReleaseUnmissed ==
    ASSUME MdlInv, AllFit, NEW T, Unmissed(T), YieldsToConflicts,
           \A j \in Keys : Heard(j, T[j]), NEW c \in Ctx, NEW i \in DOMAIN m_tickets[c],
           Release(c, i)
    PROVE  AllStuck(T, m_granted', m_waiting', m_wait')
<1> DEFINE r == m_tickets[c][i]
           k == r.key
           x == Ticket(c, r.type)
           g == remove_ticket(m_granted[k], x)
           w == m_waiting[k]
<1>1. r \in Reqs /\ k \in Keys /\ r.type \in Types /\ Mult(m_granted[k].list, x) > 0
  BY HeldIsGranted
<1>2. Removed(k, g, w)
  BY DEF Release, RemoveGranted
<1>3. x \in Tickets
  BY <1>1, TicketFacts
<1> HIDE DEF x, r, k
<1>4. /\ Good(m_granted[k]) /\ Good(w) /\ Fits(m_granted[k])
      /\ Len(m_granted[k].list) \in Nat /\ Len(w.list) \in Nat
      /\ Len(m_granted[k].list) + Len(w.list) < COUNTER_MOD /\ COUNTER_MOD \in Nat
  BY <1>1, FitsOk
<1>5. OneLess(m_granted[k], g, x)
  BY <1>1, <1>3, <1>4, RemoveFacts
<1>6. Single(w)
  BY <1>1, SingleWaiting
<1> HIDE DEF g, w
<1>7. Good(g) /\ FitTogether(g, w)
  <2>1. \A a, b, m \in Nat : a + b < m => (a - 1) + b < m
    OBVIOUS
  <2> QED
    BY <1>4, <1>5, <2>1 DEF OneLess, FitTogether
<1> QED
  BY <1>1, <1>2, <1>4, <1>6, <1>7, RemovedUnmissed

\* The ticket of a failed wait leaves the waiting list.
LEMMA WithdrawUnmissed ==
    ASSUME MdlInv, AllFit, NEW T, Unmissed(T), YieldsToConflicts,
           \A j \in Keys : Heard(j, T[j]), NEW c \in Ctx, Withdraw(c), ~Overtaken(c)
    PROVE  AllStuck(T, m_granted', m_waiting', m_wait')
<1> DEFINE r == cur[c]
           k == r.key
           x == Ticket(c, r.type)
           g == m_granted[k]
           w == remove_ticket(m_waiting[k], x)
<1>1. pc[c] = "withdraw" /\ RemoveWaiting(k, x)
  BY DEF Withdraw
<1>2. r \in Reqs /\ m_wait[c] # "GRANTED"
  BY <1>1 DEF MdlInv, CallOk, Told, Waiting, Overtaken
<1>3. k \in Keys /\ r.type \in Types
  BY <1>2 DEF Reqs
<1>4. PendingIn(c, k, r.type) = 1
  BY <1>1, <1>2 DEF PendingIn, WaitsIn, Waiting
<1>5. x \in Tickets
  BY <1>3, TicketFacts
<1>6. Mult(m_waiting[k].list, x) = 1
  BY <1>3, <1>4 DEF MdlInv, ListOk
<1>7. /\ Good(g) /\ Good(m_waiting[k]) /\ Fits(m_waiting[k])
      /\ Len(g.list) \in Nat /\ Len(m_waiting[k].list) \in Nat
      /\ Len(g.list) + Len(m_waiting[k].list) < COUNTER_MOD /\ COUNTER_MOD \in Nat
  BY <1>3, FitsOk
<1>8. OneLess(m_waiting[k], w, x)
  BY <1>5, <1>6, <1>7, RemoveFacts
<1>9. Removed(k, g, w)
  <2>1. PICK i \in 1 .. Len(m_waiting[k].list) : m_waiting[k].list[i] = x
    BY <1>5, <1>6, <1>7, MultFacts
  <2>2. i \in DOMAIN m_waiting[k].list
    BY <1>7, LenProperties DEF Good, TicketList
  <2>3. x \in Range(m_waiting[k].list)
    BY <2>1, <2>2 DEF Range
  <2> QED
    BY <1>1, <2>3 DEF RemoveWaiting
<1> HIDE DEF g, w, x, r, k
<1>10. Good(w) /\ FitTogether(g, w)
  <2>1. \A a, b, m \in Nat : a + b < m => a + (b - 1) < m
    OBVIOUS
  <2> QED
    BY <1>7, <1>8, <2>1 DEF OneLess, FitTogether
<1>11. Single(w)
  BY <1>3, <1>5, <1>7, <1>8, SingleWaiting, SingleLess
<1> QED
  BY <1>3, <1>7, <1>9, <1>10, <1>11, RemovedUnmissed

\* downgrade_lock().
LEMMA DowngradeUnmissed ==
    ASSUME MdlInv, AllFit, NEW T, Unmissed(T), YieldsToConflicts,
           \A j \in Keys : Heard(j, T[j]), NEW c \in Ctx, Downgrade(c)
    PROVE  AllStuck(T, m_granted', m_waiting', m_wait')
<1>1. PICK i \in DOMAIN m_tickets[c], dd \in Downgrades :
          Rescheduled(m_tickets[c][i].key,
                      add_ticket(remove_ticket(m_granted[m_tickets[c][i].key],
                                               Ticket(c, m_tickets[c][i].type)),
                                 Ticket(c, dd[2])),
                      m_waiting[m_tickets[c][i].key])
  BY DEF Downgrade
<1>2. PICK type \in Types : type = dd[2]
  BY MdlAssumption
<1> DEFINE r == m_tickets[c][i]
           k == r.key
           x == Ticket(c, r.type)
           y == Ticket(c, type)
           g == add_ticket(remove_ticket(m_granted[k], x), y)
           w == m_waiting[k]
<1>3. r \in Reqs /\ k \in Keys /\ r.type \in Types /\ Mult(m_granted[k].list, x) > 0
  BY HeldIsGranted
<1>4. x \in Tickets /\ y \in Tickets
  BY <1>3, TicketFacts
<1>5. Rescheduled(k, g, w)
  BY <1>1, <1>2
<1> HIDE DEF x, y, r, k
<1>6. /\ Good(m_granted[k]) /\ Good(w) /\ Fits(m_granted[k])
      /\ Len(m_granted[k].list) + Len(w.list) < COUNTER_MOD
  BY <1>3, FitsOk
<1>7. Changed(k, m_granted[k], g, x, y)
  BY <1>3, <1>4, <1>6, ChangeFacts
<1>8. Single(w)
  BY <1>3, SingleWaiting
<1> HIDE DEF g, w
<1>9. Good(g) /\ FitTogether(g, w)
  BY <1>6, <1>7 DEF Changed, FitTogether
<1> QED
  BY <1>3, <1>5, <1>6, <1>8, <1>9, RescheduledUnmissed

-----------------------------------------------------------------------------
(* Upgrades are known while they last *)

\* A step of c changes the call of nobody else.
LEMMA KnownKept ==
    ASSUME NEW c \in Ctx, UpgradesKnown, FromTo(pc'[c], cur'[c], call'[c]),
           \A d \in Ctx \ {c} : pc'[d] = pc[d] /\ cur'[d] = cur[d] /\ call'[d] = call[d]
    PROVE  UpgradesKnown'
<1>1. ASSUME NEW d \in Ctx PROVE FromTo(pc'[d], cur'[d], call'[d])
  BY DEF UpgradesKnown
<1> QED
  BY <1>1 DEF UpgradesKnown, FromTo, Waiting

\* acquire_lock() of a known upgrade, or of another request.
LEMMA AcquireKnown ==
    ASSUME MdlInv, UpgradesKnown, NEW c \in Ctx, NEW r \in Reqs, NEW cl \in Calls,
           cl.kind = "upgrade" => <<cl.old.type, r.type>> \in Upgrades, acquire_lock(c, r, cl)
    PROVE  UpgradesKnown'
<1>1. PICK label \in {After(cl), "added"} : Continue(c, label, r, cl)
  BY DEF acquire_lock
<1>2. label \in Labels /\ r \in Reqs \cup {NoRequest} /\ MdlTypes
  BY DEF After, Labels, Waiting, MdlInv
<1>3. /\ pc'[c] = label
      /\ cur'[c] = IF label \in {"run", "release"} THEN NoRequest ELSE r
      /\ call'[c] = IF label \in {"run", "release"} THEN NoCall ELSE cl
      /\ \A d \in Ctx \ {c} : pc'[d] = pc[d] /\ cur'[d] = cur[d] /\ call'[d] = call[d]
  BY <1>1, <1>2, ContinueFacts
<1>4. label = "merge" => cl.kind = "upgrade"
  BY DEF After
<1>5. FromTo(pc'[c], cur'[c], call'[c])
  BY <1>3, <1>4 DEF FromTo, Waiting, After
<1> QED
  BY <1>3, <1>5, KnownKept

\* A step that changes nobody's call.
LEMMA SameKnown ==
    ASSUME UpgradesKnown, UNCHANGED <<pc, cur, call>>
    PROVE  UpgradesKnown'
  BY DEF UpgradesKnown, FromTo, Waiting

\* A step that only takes c elsewhere, not from outside into a wait.
LEMMA GotoKnown ==
    ASSUME MdlInv, UpgradesKnown, NEW c \in Ctx, NEW label \in Labels \ {"merge"}, Goto(c, label),
           label \in Waiting => pc[c] \in Waiting, UNCHANGED <<cur, call>>
    PROVE  UpgradesKnown'
<1>1. /\ pc'[c] = label /\ cur'[c] = cur[c] /\ call'[c] = call[c]
      /\ \A d \in Ctx \ {c} : pc'[d] = pc[d] /\ cur'[d] = cur[d] /\ call'[d] = call[d]
  BY GotoFacts
<1>2. FromTo(pc[c], cur[c], call[c])
  BY DEF UpgradesKnown
<1>3. FromTo(pc'[c], cur'[c], call'[c])
  BY <1>1, <1>2 DEF FromTo
<1> QED
  BY <1>1, <1>3, KnownKept

\* The end of a failed call.
LEMMA FailKnown ==
    ASSUME MdlInv, UpgradesKnown, NEW c \in Ctx, Fail(c)
    PROVE  UpgradesKnown'
<1>1. /\ pc'[c] \in {"run", "release"}
      /\ \A d \in Ctx \ {c} : pc'[d] = pc[d] /\ cur'[d] = cur[d] /\ call'[d] = call[d]
  BY FailFacts
<1>2. FromTo(pc'[c], cur'[c], call'[c])
  BY <1>1 DEF FromTo, Waiting
<1> QED
  BY <1>1, <1>2, KnownKept

\* The wait is over: an upgrade that was granted goes on to merge.
LEMMA DoneWaitingForKnown ==
    ASSUME MdlInv, UpgradesKnown, NEW c \in Ctx, DoneWaitingFor(c)
    PROVE  UpgradesKnown'
<1>1. pc[c] = "woken" /\ pc[c] \in Waiting
  BY DEF DoneWaitingFor, Waiting
<1>2. CASE Continue(c, After(call[c]), cur[c], call[c])
  <2>1. /\ cur[c] \in Reqs \cup {NoRequest} /\ call[c] \in Calls /\ MdlTypes
        /\ After(call[c]) \in Labels
    BY DEF After, Labels, MdlInv, MdlTypes
  <2>2. /\ pc'[c] = After(call[c])
        /\ cur'[c] = IF After(call[c]) \in {"run", "release"} THEN NoRequest ELSE cur[c]
        /\ call'[c] = IF After(call[c]) \in {"run", "release"} THEN NoCall ELSE call[c]
        /\ \A d \in Ctx \ {c} : pc'[d] = pc[d] /\ cur'[d] = cur[d] /\ call'[d] = call[d]
    BY <1>2, <2>1, ContinueFacts
  <2>3. FromTo(pc[c], cur[c], call[c])
    BY DEF UpgradesKnown
  <2>4. After(call[c]) = "merge" => call[c].kind = "upgrade"
    BY DEF After
  <2>5. After(call[c]) \notin Waiting
    BY DEF After, Waiting
  <2>6. FromTo(pc'[c], cur'[c], call'[c])
    BY <1>1, <2>2, <2>3, <2>4, <2>5 DEF FromTo
  <2> QED
    BY <2>2, <2>6, KnownKept
<1>3. CASE Goto(c, "withdraw") /\ UNCHANGED <<m_tickets, cur, call>>
  <2>1. "withdraw" \in Labels \ {"merge"}
    BY DEF Labels, Waiting
  <2> QED
    BY <1>1, <1>3, <2>1, GotoKnown
<1> QED
  BY <1>2, <1>3 DEF DoneWaitingFor

-----------------------------------------------------------------------------
(* Every step *)

\* what a step has to keep
Kept(T) == AllStuck(T, m_granted', m_waiting', m_wait') /\ UpgradesKnown'

\* what is given before a step
Given(T) ==
    /\ MdlInv /\ AllFit /\ YieldsToConflicts /\ UpgradesStrengthen
    /\ Unmissed(T) /\ UpgradesKnown /\ \A k \in Keys : Heard(k, T[k])

\* The requests of the SQL layer.
LEMMA RequestKeeps ==
    ASSUME NEW T, Given(T), NEW c \in Ctx, Request(c)
    PROVE  Kept(T)
<1> USE DEF Given
<1>1. ASSUME NEW r \in Reqs, NEW cl \in Calls, pc[c] \notin Waiting, acquire_lock(c, r, cl),
             cl.kind = "upgrade" => <<cl.old.type, r.type>> \in Upgrades
      PROVE  Kept(T)
  BY <1>1, AcquireUnmissed, AcquireKnown DEF Kept
<1>2. CASE Acquire(c)
  <2>1. PICK r \in Requests[c] : acquire_lock(c, r, Call(c, "acquire", <<>>, NONE))
    BY <1>2 DEF Acquire
  <2>2. r \in Reqs
    BY MdlAssumption DEF Reqs
  <2>3. pc[c] \notin Waiting
    BY <1>2 DEF Acquire, Begin, Waiting
  <2> DEFINE cl == Call(c, "acquire", <<>>, NONE)
  <2>4. cl \in Calls /\ cl.kind = "acquire"
    <3>1. <<>> \in Seq(Keys) /\ NONE \in Reqs \cup {NONE}
      BY EmptySeq
    <3> QED
      BY <3>1, SavepointType DEF Call, Calls
  <2> QED
    BY <1>1, <2>1, <2>2, <2>3, <2>4
<1>3. CASE TryAcquire(c)
  <2>1. PICK r \in Requests[c] : Acquired(c, r) \/ UNCHANGED <<m_granted, m_tickets>>
    BY <1>3 DEF TryAcquire
  <2>2. r \in Reqs
    BY MdlAssumption DEF Reqs
  <2>3. UNCHANGED <<m_waiting, m_wait, pc, cur, call>>
    BY <1>3 DEF TryAcquire
  <2>4. UpgradesKnown'
    BY <2>3, SameKnown
  <2>5. NoSlotOpened
    BY <2>3 DEF NoSlotOpened
  <2>6. AllStuck(T, m_granted', m_waiting', m_wait')
    BY <2>1, <2>2, <2>3, <2>5, QuietUnmissed, AddUnmissed DEF Acquired
  <2> QED
    BY <2>4, <2>6 DEF Kept
<1>4. CASE AcquireLocks(c)
  <2>1. PICK s \in Lists[c] : acquire_lock(c, Exclusive(Head(s)), Call(c, "locks", Tail(s), NONE))
    BY <1>4 DEF AcquireLocks
  <2>2. s \in Seq(Keys) /\ s # <<>> /\ "X" \in Types
    BY MdlAssumption
  <2>3. Head(s) \in Keys /\ Tail(s) \in Seq(Keys)
    BY <2>2, HeadTailProperties
  <2>4. pc[c] \notin Waiting
    BY <1>4 DEF AcquireLocks, Begin, Waiting
  <2> DEFINE cl == Call(c, "locks", Tail(s), NONE)
             r == Exclusive(Head(s))
  <2>5. r \in Reqs
    BY <2>2, <2>3, ExclusiveType
  <2>6. cl \in Calls /\ cl.kind = "locks"
    <3>1. NONE \in Reqs \cup {NONE}
      OBVIOUS
    <3> QED
      BY <2>3, <3>1, SavepointType DEF Call, Calls
  <2> QED
    BY <1>1, <2>1, <2>4, <2>5, <2>6
<1>5. CASE Upgrade(c)
  <2>1. PICK i \in DOMAIN m_tickets[c], u \in Upgrades :
          /\ pc[c] = "run" /\ m_tickets[c][i].type = u[1]
          /\ acquire_lock(c, [key |-> m_tickets[c][i].key, type |-> u[2], dur |-> "TRANSACTION"],
                          Call(c, "upgrade", <<>>, m_tickets[c][i]))
    BY <1>5 DEF Upgrade, Begin
  <2> DEFINE t == m_tickets[c][i]
             r == [key |-> t.key, type |-> u[2], dur |-> "TRANSACTION"]
             cl == Call(c, "upgrade", <<>>, t)
  <2>2. t \in Reqs /\ t.key \in Keys
    BY HeldIsGranted
  <2>3. u[2] \in Types /\ u = <<u[1], u[2]>>
    BY MdlAssumption
  <2>4. acquire_lock(c, r, cl) /\ t.type = u[1]
    BY <2>1
  <2> HIDE DEF t
  <2>5. r \in Reqs /\ r.type = u[2]
    BY <2>2, <2>3 DEF Reqs
  <2>6. cl \in Calls /\ cl.old = t
    <3>1. <<>> \in Seq(Keys) /\ t \in Reqs \cup {NONE}
      BY <2>2, EmptySeq
    <3> QED
      BY <3>1, SavepointType DEF Call, Calls
  <2>7. pc[c] \notin Waiting
    BY <2>1 DEF Waiting
  <2>8. <<cl.old.type, r.type>> \in Upgrades
    BY <2>3, <2>4, <2>5, <2>6
  <2> HIDE DEF cl, r
  <2> QED
    BY <1>1, <2>4, <2>5, <2>6, <2>7, <2>8
<1>6. CASE Downgrade(c)
  <2>1. UNCHANGED <<pc, cur, call>>
    BY <1>6 DEF Downgrade
  <2> QED
    BY <1>6, <2>1, SameKnown, DowngradeUnmissed DEF Kept
<1> QED
  BY <1>2, <1>3, <1>4, <1>5, <1>6 DEF Request

\* The steps of a waiting context, which close slots at most.
LEMMA WaitingKeeps ==
    ASSUME NEW T, Given(T), NEW c \in Ctx,
           \/ WillWaitFor(c) \/ find_deadlock(c) \/ SetVictim(c) \/ Wait(c) \/ WaitFault(c)
           \/ DoneWaitingFor(c)
    PROVE  Kept(T)
<1> USE DEF Given
<1>1. UNCHANGED <<m_granted, m_waiting>>
  BY DEF WillWaitFor, find_deadlock, SetVictim, Wait, WaitFault, WaitReturns, DoneWaitingFor,
         lockVars
<1>2. NoSlotOpened
  <2>1. CASE WillWaitFor(c) \/ find_deadlock(c) \/ Wait(c) \/ DoneWaitingFor(c)
    BY <2>1 DEF WillWaitFor, find_deadlock, Wait, DoneWaitingFor, ctxVars, NoSlotOpened
  <2>2. CASE SetVictim(c)
    <3>1. m_wait' = [m_wait EXCEPT ![dvisitor[c].victim] = IF @ = "EMPTY" THEN "VICTIM" ELSE @]
      BY <2>2 DEF SetVictim
    <3> QED
      BY <3>1 DEF NoSlotOpened, MdlInv, MdlTypes
  <2>3. CASE WaitFault(c)
    <3>1. PICK f \in Faults[c] :
              m_wait[c] = "EMPTY" /\ m_wait' = [m_wait EXCEPT ![c] = IF f = "DISCONNECT" THEN @ ELSE f]
      BY <2>3 DEF WaitFault
    <3> QED
      BY <3>1 DEF NoSlotOpened, MdlInv, MdlTypes
  <2> QED
    BY <2>1, <2>2, <2>3
<1>3. AllStuck(T, m_granted', m_waiting', m_wait')
  BY <1>1, <1>2, QuietUnmissed
<1>4. ASSUME NEW label \in Waiting, Goto(c, label), pc[c] \in Waiting, UNCHANGED <<cur, call>>
      PROVE  UpgradesKnown'
  <2>1. label \in Labels \ {"merge"}
    BY DEF Labels, Waiting
  <2> QED
    BY <1>4, <2>1, GotoKnown
<1>5. CASE WillWaitFor(c)
  BY <1>3, <1>4, <1>5 DEF WillWaitFor, Waiting, Kept
<1>6. CASE find_deadlock(c)
  <2>1. pc[c] = "detect" /\ UNCHANGED <<cur, call>>
    BY <1>6 DEF find_deadlock
  <2>2. Goto(c, "wait") \/ Goto(c, "victim") \/ UNCHANGED pc
    <3>1. ASSUME NEW x, NEW path, Visit(c, x, path)
          PROVE  Goto(c, "wait") \/ Goto(c, "victim") \/ UNCHANGED pc
      BY <3>1 DEF Visit
    <3> QED
      BY <1>6, <3>1 DEF find_deadlock
  <2> QED
    BY <1>3, <1>4, <2>1, <2>2, SameKnown DEF Waiting, Kept
<1>7. CASE SetVictim(c)
  <2>1. pc[c] = "victim" /\ UNCHANGED <<cur, call>> /\ (Goto(c, "wait") \/ Goto(c, "detect"))
    BY <1>7 DEF SetVictim
  <2> QED
    BY <1>3, <1>4, <2>1 DEF Waiting, Kept
<1>8. CASE Wait(c) \/ WaitFault(c)
  <2>1. pc[c] = "wait" /\ UNCHANGED <<cur, call>> /\ Goto(c, "woken")
    BY <1>8 DEF Wait, WaitFault, WaitReturns
  <2> QED
    BY <1>3, <1>4, <2>1 DEF Waiting, Kept
<1>9. CASE DoneWaitingFor(c)
  BY <1>3, <1>9, DoneWaitingForKnown DEF Kept
<1> QED
  BY <1>5, <1>6, <1>7, <1>8, <1>9

\* The steps that end a call or a transaction.
LEMMA EndingKeeps ==
    ASSUME NEW T, Given(T), NEW c \in Ctx, ~Overtaken(c),
           Withdraw(c) \/ Rollback(c) \/ Commit(c) \/ ReleaseLocks(c)
    PROVE  Kept(T)
<1> USE DEF Given
<1>1. ASSUME UNCHANGED <<m_granted, m_waiting, m_wait>>
      PROVE  AllStuck(T, m_granted', m_waiting', m_wait')
  <2>1. NoSlotOpened
    BY <1>1 DEF NoSlotOpened
  <2> QED
    BY <1>1, <2>1, QuietUnmissed
<1>2. ASSUME NEW label \in {"run", "release", "end", "rollback"}, Goto(c, label), UNCHANGED <<cur, call>>
      PROVE  UpgradesKnown'
  <2>1. label \in Labels \ {"merge"} /\ label \notin Waiting
    BY DEF Labels, Waiting
  <2> QED
    BY <1>2, <2>1, GotoKnown
<1>3. CASE Withdraw(c)
  <2>1. AllStuck(T, m_granted', m_waiting', m_wait')
    BY <1>3, WithdrawUnmissed
  <2>2. (Goto(c, "rollback") /\ UNCHANGED <<cur, call>>) \/ Fail(c)
    BY <1>3 DEF Withdraw
  <2> QED
    BY <1>2, <2>1, <2>2, FailKnown DEF Kept
<1>4. CASE Rollback(c)
  <2>1. CASE Len(m_tickets[c]) > call[c].svp /\ Release(c, 1) /\ UNCHANGED <<pc, cur, call>>
    <3>1. m_tickets[c] \in Seq(Reqs) /\ call[c] \in Calls
      BY DEF MdlInv, MdlTypes
    <3>2. call[c].svp \in Nat /\ Len(m_tickets[c]) \in Nat
      BY <3>1, LenProperties DEF Calls
    <3>3. 1 \in 1 .. Len(m_tickets[c])
      BY <2>1, <3>2
    <3>4. 1 \in DOMAIN m_tickets[c]
      BY <3>1, <3>3, LenProperties
    <3> QED
      BY <2>1, <3>4, ReleaseUnmissed, SameKnown DEF Kept
  <2>2. CASE Fail(c) /\ UNCHANGED <<lockVars, m_tickets, m_wait>>
    BY <1>1, <2>2, FailKnown DEF Kept, lockVars
  <2> QED
    BY <1>4, <2>1, <2>2 DEF Rollback
<1>5. CASE Commit(c)
  <2>1. Goto(c, "release") /\ UNCHANGED <<m_granted, m_waiting, m_wait, cur, call>>
    BY <1>5 DEF Commit, lockVars, ctxVars
  <2> QED
    BY <1>1, <1>2, <2>1 DEF Kept
<1>6. CASE ReleaseLocks(c)
  <2>1. UNCHANGED <<cur, call>>
    BY <1>6 DEF ReleaseLocks
  <2>2. CASE Due(c) # {}
    <3> DEFINE i == Min(Due(c))
    <3>1. DOMAIN m_tickets[c] = 1 .. Len(m_tickets[c]) /\ Len(m_tickets[c]) \in Nat
      BY LenProperties DEF MdlInv, MdlTypes
    <3>2. Due(c) \subseteq DOMAIN m_tickets[c]
      BY DEF Due, Transactional
    <3>3. Due(c) \in SUBSET Nat
      BY <3>1, <3>2
    <3>4. \E x \in Due(c) : \A y \in Due(c) : x <= y
      BY <2>2, <3>3, LeastNat
    <3>5. i \in Due(c)
      BY <3>4 DEF Min
    <3>6. Release(c, i) /\ UNCHANGED pc
      BY <1>6, <2>2 DEF ReleaseLocks
    <3> HIDE DEF i
    <3> QED
      BY <2>1, <3>2, <3>5, <3>6, ReleaseUnmissed, SameKnown DEF Kept
  <2>3. CASE ~(Due(c) # {})
    <3>1. PICK label \in {"run", "end"} : Goto(c, label)
      BY <1>6, <2>3 DEF ReleaseLocks
    <3>2. UNCHANGED <<m_granted, m_waiting, m_wait>>
      BY <1>6, <2>3 DEF ReleaseLocks, lockVars
    <3> QED
      BY <1>1, <1>2, <2>1, <3>1, <3>2 DEF Kept
  <2> QED
    BY <2>2, <2>3
<1> QED
  BY <1>3, <1>4, <1>5, <1>6

\* acquire_locks(), for the next key of its list.
LEMMA MoreKeeps ==
    ASSUME NEW T, Given(T), NEW c \in Ctx, More(c)
    PROVE  Kept(T)
<1> USE DEF Given
<1> DEFINE s == call[c].more
           cl == [call[c] EXCEPT !.more = Tail(s)]
           r == Exclusive(Head(s))
<1>1. pc[c] = "more" /\ acquire_lock(c, r, cl)
  BY DEF More
<1>2. call[c] \in Calls
  BY DEF MdlInv, MdlTypes
<1>3. s # <<>> /\ call[c].kind # "upgrade" /\ "X" \in Types
  BY <1>1 DEF MdlInv, CallOk
<1>4. s \in Seq(Keys)
  BY <1>2 DEF Calls
<1>5. Head(s) \in Keys /\ Tail(s) \in Seq(Keys)
  BY <1>3, <1>4, HeadTailProperties
<1>6. cl \in Calls /\ cl.kind # "upgrade"
  BY <1>2, <1>3, <1>5 DEF Calls
<1>7. r \in Reqs
  BY <1>3, <1>5, ExclusiveType
<1>8. pc[c] \notin Waiting
  BY <1>1 DEF Waiting
<1> HIDE DEF cl, r
<1> QED
  BY <1>1, <1>6, <1>7, <1>8, AcquireUnmissed, AcquireKnown DEF Kept

\* The end of an upgrade.
LEMMA MergeKeeps ==
    ASSUME NEW T, Given(T), NEW c \in Ctx, Merge(c)
    PROVE  Kept(T)
<1> USE DEF Given
<1>1. AllStuck(T, m_granted', m_waiting', m_wait')
  BY MergeUnmissed
<1>2. Continue(c, "run", cur[c], call[c])
  BY DEF Merge
<1>3. "run" \in Labels /\ cur[c] \in Reqs \cup {NoRequest} /\ call[c] \in Calls /\ MdlTypes
  BY DEF Labels, MdlInv, MdlTypes
<1>4. /\ pc'[c] = "run"
      /\ \A d \in Ctx \ {c} : pc'[d] = pc[d] /\ cur'[d] = cur[d] /\ call'[d] = call[d]
  BY <1>2, <1>3, ContinueFacts
<1>5. FromTo(pc'[c], cur'[c], call'[c])
  BY <1>4 DEF FromTo, Waiting
<1>6. UpgradesKnown'
  BY <1>4, <1>5, KnownKept
<1> QED
  BY <1>1, <1>6 DEF Kept

\* Every step.
LEMMA NextKeeps ==
    ASSUME NEW T, Given(T), [Next]_vars, overtaken' = {}
    PROVE  Kept(T)
<1>1. CASE UNCHANGED vars
  <2>1. UNCHANGED <<m_granted, m_waiting, m_wait, pc, cur, call>>
    BY <1>1 DEF vars, lockVars, ctxVars, callVars
  <2>2. NoSlotOpened
    BY <2>1 DEF NoSlotOpened
  <2> QED
    BY <2>1, <2>2, QuietUnmissed, SameKnown DEF Given, Kept
<1>2. ASSUME NEW c \in Ctx, Run(c), ~Overtaken(c) PROVE Kept(T)
  BY <1>2, MoreKeeps, MergeKeeps, WaitingKeeps, EndingKeeps DEF Run
<1>3. ASSUME NEW c \in Ctx, Request(c) PROVE Kept(T)
  BY <1>3, RequestKeeps
<1>4. ASSUME NEW c \in Ctx, WaitFault(c) PROVE Kept(T)
  BY <1>4, WaitingKeeps
<1>5. CASE Next
  <2>1. PICK c \in Ctx : /\ Run(c) \/ Request(c) \/ WaitFault(c)
                         /\ overtaken' = IF Overtaken(c) THEN overtaken \cup {c} ELSE overtaken
    BY <1>5 DEF Next
  <2>2. ~Overtaken(c)
    BY <2>1
  <2> QED
    BY <1>2, <1>3, <1>4, <2>1, <2>2
<1> QED
  BY <1>1, <1>5

\* Nobody waits before the first call.
LEMMA InitUnmissed ==
    ASSUME Init, NEW T
    PROVE  Unmissed(T) /\ UpgradesKnown
<1>1. \A k \in Keys : m_waiting[k] = EmptyList
  BY DEF Init
<1>2. \A x : ~(Mult(EmptyList.list, x) > 0)
  BY EmptyListGood
<1>3. Unmissed(T)
  BY <1>1, <1>2 DEF Unmissed, AllStuck, KeyStuck
<1>4. UpgradesKnown
  BY DEF UpgradesKnown, FromTo, Init, Waiting
<1> QED
  BY <1>3, <1>4

\* What is stuck cannot be granted.
LEMMA UnmissedFacts ==
    ASSUME MdlInv, NEW T, Unmissed(T), NEW k \in Keys, NEW x \in Range(m_waiting[k].list),
           m_wait[x.ctx] = "EMPTY", x.type \in T[k]
    PROVE  ~can_grant_lock(k, m_granted[k], m_waiting[k], x.type, x.ctx, FALSE)
<1>1. /\ Good(m_granted[k]) /\ Good(m_waiting[k]) /\ m_waiting[k].list \in Seq(Tickets)
  BY DEF MdlInv, ListOk, Good, TicketList
<1>2. PICK i \in DOMAIN m_waiting[k].list : m_waiting[k].list[i] = x
  BY DEF Range
<1>3. i \in 1 .. Len(m_waiting[k].list)
  BY <1>1, LenProperties
<1>4. x \in Tickets
  BY <1>1, <1>2, <1>3, ElementOfSeq
<1>5. Mult(m_waiting[k].list, x) > 0
  BY <1>1, <1>2, <1>3, <1>4, MultFacts
<1>6. Stuck(k, m_granted[k], m_waiting[k], x)
  BY <1>4, <1>5 DEF Unmissed, AllStuck, KeyStuck
<1> QED
  BY <1>1, <1>4, <1>6, StuckIsRefused

-----------------------------------------------------------------------------
(* The theorems *)

\* all types, and those that never give way
EveryType == [k \in Keys |-> Types]
WeakTypes == [k \in Keys |-> Types \ Hogs(k)]

\* m_hog_lock_count stays below max_write_lock_count
NeverGivesWay == \A k \in Keys : ~GivesWay(k)

(* No waiting weak request with an open slot could be granted, whether or  *)
(* not reschedule_waiters() is passing over the strong ones.               *)
NoWeakMissedGrant ==
    \A k \in Keys : \A x \in Range(m_waiting[k].list) :
        m_wait[x.ctx] = "EMPTY" /\ x.type \notin Hogs(k) =>
            ~can_grant_lock(k, m_granted[k], m_waiting[k], x.type, x.ctx, FALSE)

\* A waiting ticket has one of the types.
LEMMA WaitingTypes ==
    ASSUME MdlInv, NEW k \in Keys, NEW x \in Range(m_waiting[k].list)
    PROVE  x.type \in Types
<1>1. m_waiting[k].list \in Seq(Tickets)
  BY DEF MdlInv, ListOk, Good, TicketList
<1>2. PICK i \in DOMAIN m_waiting[k].list : m_waiting[k].list[i] = x
  BY DEF Range
<1>3. x \in Tickets
  BY <1>1, <1>2, LenProperties, ElementOfSeq
<1> QED
  BY <1>3, TicketFacts

\* Every step keeps the weak requests stuck, however long the strong ones hog.
LEMMA WeakStep ==
    ASSUME MdlInv, AllFit, YieldsToConflicts, UpgradesStrengthen, Unmissed(WeakTypes),
           UpgradesKnown, [Next]_vars, overtaken' = {}
    PROVE  Unmissed(WeakTypes)' /\ UpgradesKnown'
<1>1. \A k \in Keys : Heard(k, WeakTypes[k])
  BY DEF Heard, WeakTypes
<1>2. Kept(WeakTypes)
  BY <1>1, NextKeeps DEF Given
<1>3. AllStuck(WeakTypes, m_granted', m_waiting', m_wait') => Unmissed(WeakTypes)'
  BY DEF Unmissed, AllStuck, KeyStuck, Stuck, Ahead, Against, Mult, Occ, Tickets, Yields,
         Incompatible, WeakTypes, Hogs
<1> QED
  BY <1>2, <1>3 DEF Kept

\* Every step keeps all requests stuck, while none is passed over.
LEMMA EveryStep ==
    ASSUME MdlInv, AllFit, YieldsToConflicts, UpgradesStrengthen, NeverGivesWay,
           Unmissed(EveryType), UpgradesKnown, [Next]_vars, overtaken' = {}
    PROVE  Unmissed(EveryType)' /\ UpgradesKnown'
<1>1. \A k \in Keys : Heard(k, EveryType[k])
  BY DEF Heard, NeverGivesWay
<1>2. Kept(EveryType)
  BY <1>1, NextKeeps DEF Given
<1>3. AllStuck(EveryType, m_granted', m_waiting', m_wait') => Unmissed(EveryType)'
  BY DEF Unmissed, AllStuck, KeyStuck, Stuck, Ahead, Against, Mult, Occ, Tickets, Yields,
         Incompatible, EveryType
<1> QED
  BY <1>2, <1>3 DEF Kept

(* No request that could be granted is left waiting: whatever is added,    *)
(* released, withdrawn, upgraded or downgraded, those whom it lets through *)
(* are woken, for any number of sessions, objects and calls.  Provided     *)
(* that a type yields only to types that it conflicts with, an upgrade     *)
(* goes to a type that is in the way of no less, and max_write_lock_count  *)
(* is never reached; up to the first overtaken withdrawal.                 *)
THEOREM NoGrantMissed ==
    ASSUME YieldsToConflicts, UpgradesStrengthen
    PROVE  MdlSafety /\ []AllFit /\ []NeverGivesWay => [](NoneOvertaken => NoMissedGrant)
<1>1. Init => Unmissed(EveryType) /\ UpgradesKnown
  BY InitUnmissed
<1>2. (NoneOvertaken => MdlInv) /\ AllFit /\ NeverGivesWay /\ [Next]_vars
      => ((NoneOvertaken => Unmissed(EveryType) /\ UpgradesKnown)
             => (NoneOvertaken => Unmissed(EveryType) /\ UpgradesKnown)')
  BY EveryStep, OvertakenStays DEF NoneOvertaken
<1>3. MdlInv /\ Unmissed(EveryType) => NoMissedGrant
  <2> SUFFICES ASSUME MdlInv, Unmissed(EveryType), NEW k \in Keys,
                      NEW x \in Range(m_waiting[k].list), m_wait[x.ctx] = "EMPTY"
               PROVE  ~can_grant_lock(k, m_granted[k], m_waiting[k], x.type, x.ctx, FALSE)
    BY DEF NoMissedGrant
  <2>1. x.type \in EveryType[k]
    BY WaitingTypes DEF EveryType
  <2> QED
    BY <2>1, UnmissedFacts
<1> QED
  BY <1>1, <1>2, <1>3, MdlInvariant, PTL DEF MdlSafety

(* With a limit that is reached, it is still so of the requests that are   *)
(* not strong, for which the strong ones are passed over.                  *)
THEOREM NoWeakGrantMissed ==
    ASSUME YieldsToConflicts, UpgradesStrengthen
    PROVE  MdlSafety /\ []AllFit => [](NoneOvertaken => NoWeakMissedGrant)
<1>1. Init => Unmissed(WeakTypes) /\ UpgradesKnown
  BY InitUnmissed
<1>2. (NoneOvertaken => MdlInv) /\ AllFit /\ [Next]_vars
      => ((NoneOvertaken => Unmissed(WeakTypes) /\ UpgradesKnown)
             => (NoneOvertaken => Unmissed(WeakTypes) /\ UpgradesKnown)')
  BY WeakStep, OvertakenStays DEF NoneOvertaken
<1>3. MdlInv /\ Unmissed(WeakTypes) => NoWeakMissedGrant
  <2> SUFFICES ASSUME MdlInv, Unmissed(WeakTypes), NEW k \in Keys,
                      NEW x \in Range(m_waiting[k].list), m_wait[x.ctx] = "EMPTY",
                      x.type \notin Hogs(k)
               PROVE  ~can_grant_lock(k, m_granted[k], m_waiting[k], x.type, x.ctx, FALSE)
    BY DEF NoWeakMissedGrant
  <2>1. x.type \in WeakTypes[k]
    BY WaitingTypes DEF WeakTypes
  <2> QED
    BY <2>1, UnmissedFacts
<1> QED
  BY <1>1, <1>2, <1>3, MdlInvariant, PTL DEF MdlSafety

\* each upgrade of the SQL layer goes to a type at least as strong
UpgradesUp == \A k \in Keys, u \in Upgrades : has_stronger_or_equal_type(Namespace[k], u[2], u[1])

\* The matrices of tables and schemas meet both conditions.
LEMMA TablesOrderly ==
    ASSUME TableKeys \/ SchemaKeys, UpgradesUp
    PROVE  YieldsToConflicts /\ UpgradesStrengthen
<1>1. YieldsToConflicts
  <2> SUFFICES ASSUME NEW k \in Keys, NEW t \in Types
               PROVE  Yields(k, t) \subseteq Incompatible(k, t)
    BY DEF YieldsToConflicts
  <2>1. CASE TableKeys
    <3>1. /\ Yields(k, t) = object_waiting(t) /\ Incompatible(k, t) = object_granted(t)
          /\ t \in ObjectTypes
      BY <2>1 DEF Yields, Incompatible, incompatible_granted_types_bitmap,
                  incompatible_waiting_types_bitmap, TableKeys
    <3>2. object_waiting(t) \subseteq object_granted(t)
      BY <3>1 DEF object_waiting, object_granted, ObjectTypes, Shared, Strong
    <3> QED
      BY <3>1, <3>2
  <2>2. CASE SchemaKeys
    <3>1. /\ Yields(k, t) = scoped_waiting(t) /\ Incompatible(k, t) = scoped_granted(t)
          /\ t \in {"IX", "S", "X"}
      BY <2>2 DEF Yields, Incompatible, incompatible_granted_types_bitmap,
                  incompatible_waiting_types_bitmap, SchemaKeys
    <3>2. scoped_waiting(t) \subseteq scoped_granted(t)
      BY <3>1 DEF scoped_waiting, scoped_granted, IX
    <3> QED
      BY <3>1, <3>2
  <2> QED
    BY <2>1, <2>2
<1>2. UpgradesStrengthen
  <2> SUFFICES ASSUME NEW k \in Keys, NEW u \in Upgrades, NEW t \in Types, u[1] \in Incompatible(k, t)
               PROVE  u[2] \in Incompatible(k, t)
    BY DEF UpgradesStrengthen
  <2>1. u[1] \in Types /\ u[2] \in Types
    BY MdlAssumption
  <2>2. t \in Incompatible(k, u[1])
    BY <2>1, ConflictsSymmetric
  <2>3. Incompatible(k, u[1]) \subseteq Incompatible(k, u[2])
    BY DEF UpgradesUp, has_stronger_or_equal_type, Incompatible
  <2> QED
    BY <2>1, <2>2, <2>3, ConflictsSymmetric
<1> QED
  BY <1>1, <1>2

(* So no grant is missed on tables and schemas, if upgrades go to stronger *)
(* types only and max_write_lock_count is out of reach.                    *)
COROLLARY NoTableGrantMissed ==
    ASSUME TableKeys \/ SchemaKeys, UpgradesUp
    PROVE  MdlSafety /\ []AllFit /\ []NeverGivesWay => [](NoneOvertaken => NoMissedGrant)
  BY TablesOrderly, NoGrantMissed
=============================================================================
