---------------------------- MODULE SuxLockProofs ----------------------------
(***************************************************************************)
(* Proofs about sux_lock for any number of threads and any number of holds *)
(* that "recursive" can count.  The safety properties rest on one relation *)
(* that no single function of sux_lock.h shows: "recursive" is the weight  *)
(* of the owner's memo, in whatever order its holds are released, so that  *)
(* the hold whose release makes it zero is the last one; and the mode of   *)
(* the underlying lock follows from the kinds in the memo, unless the last *)
(* X hold went before a U hold.                                            *)
(***************************************************************************)
EXTENDS SuxLock, Integers, FiniteSetTheorems, SequenceTheorems,
        FunctionTheorems, TLAPS

(* Where a memo has holds of a kind, and what they add up to. *)
Where(s, kind) == {i \in 1 .. Len(s) : s[i] = kind}
Holds(s, kind) == Cardinality(Where(s, kind))
Weight(s) == Holds(s, "X") + RECURSIVE_U * Holds(s, "U")
Latches == {"S", "U", "X"}
Owned == {"U", "X"}

-----------------------------------------------------------------------------
(* A number in base B shows its two digits (recursive & RECURSIVE_MAX and
   recursive / RECURSIVE_U). *)
LEMMA Digits ==
    ASSUME NEW B \in Nat, NEW x \in 0 .. B - 1, NEW u \in Nat
    PROVE  (x + B * u) % B = x /\ (x + B * u) \div B = u
<1> DEFINE a == x + B * u
           q == a \div B
           r == a % B
<1>1. /\ a = B * q + r /\ r \in 0 .. B - 1
      /\ q \in Int /\ a \in Nat /\ r \in Int
  OBVIOUS
<1> HIDE DEF q, r
<1>2. B * (u - q) = r - x
  BY <1>1
<1>3. u = q
  <2>1. CASE u - q >= 1
    <3>1. B * (u - q) >= B
      BY <2>1, <1>1
    <3> QED
      BY <3>1, <1>1, <1>2
  <2>2. CASE u - q <= -1
    <3>1. B * (u - q) <= -B
      BY <2>2, <1>1
    <3> QED
      BY <3>1, <1>1, <1>2
  <2> QED
    BY <2>1, <2>2, <1>1
<1>4. r = x
  BY <1>1, <1>2, <1>3
<1> QED
  BY <1>3, <1>4 DEF q, r

(* A memo without its i-th hold. *)
LEMMA Removed ==
    ASSUME NEW S, NEW s \in Seq(S), NEW p \in 1 .. Len(s)
    PROVE  /\ RemoveAt(s, p) \in Seq(S) /\ Len(RemoveAt(s, p)) = Len(s) - 1
           /\ Len(s) \in Nat /\ s[p] \in S
           /\ \A i \in 1 .. Len(RemoveAt(s, p)) :
                 RemoveAt(s, p)[i] = s[IF i < p THEN i ELSE i + 1]
<1> DEFINE a == SubSeq(s, 1, p - 1)
           b == SubSeq(s, p + 1, Len(s))
           t == RemoveAt(s, p)
<1>0. Len(s) \in Nat /\ (\A i \in 1 .. Len(s) : s[i] \in S) /\ p \in Int
  BY LenProperties, ElementOfSeq
<1>1. a \in Seq(S) /\ Len(a) = p - 1 /\ \A i \in 1 .. p - 1 : a[i] = s[i]
  <2>1. \A i \in 1 .. p - 1 : s[i] \in S
    BY <1>0
  <2>2. /\ a \in Seq(S) /\ Len(a) = (IF 1 <= p - 1 THEN p - 1 - 1 + 1 ELSE 0)
        /\ \A i \in 1 .. p - 1 - 1 + 1 : a[i] = s[1 + i - 1]
    BY <1>0, <2>1, SubSeqProperties
  <2> HIDE DEF a
  <2> QED
    BY <1>0, <2>2
<1>2. /\ b \in Seq(S) /\ Len(b) = Len(s) - p
      /\ \A i \in 1 .. Len(s) - p : b[i] = s[p + i]
  <2>1. \A i \in p + 1 .. Len(s) : s[i] \in S
    BY <1>0
  <2>2. /\ b \in Seq(S)
        /\ Len(b) = (IF p + 1 <= Len(s) THEN Len(s) - (p + 1) + 1 ELSE 0)
        /\ \A i \in 1 .. Len(s) - (p + 1) + 1 : b[i] = s[p + 1 + i - 1]
    BY <1>0, <2>1, SubSeqProperties
  <2> HIDE DEF b
  <2> QED
    BY <1>0, <2>2
<1>3. t = a \o b
  BY DEF RemoveAt
<1> HIDE DEF a, b, t
<1>4. /\ t \in Seq(S) /\ Len(t) = Len(a) + Len(b)
      /\ \A i \in 1 .. Len(a) + Len(b) :
            t[i] = IF i <= Len(a) THEN a[i] ELSE b[i - Len(a)]
  BY <1>1, <1>2, <1>3, ConcatProperties
<1>5. Len(t) = Len(s) - 1
  BY <1>0, <1>1, <1>2, <1>4
<1>6. ASSUME NEW i \in 1 .. Len(t) PROVE t[i] = s[IF i < p THEN i ELSE i + 1]
  <2>1. i \in 1 .. Len(a) + Len(b)
    BY <1>4
  <2>2. CASE i < p
    BY <1>0, <1>1, <1>4, <2>1, <2>2
  <2>3. CASE ~(i < p)
    <3>1. t[i] = b[i - (p - 1)]
      BY <1>0, <1>1, <1>4, <2>1, <2>3
    <3>2. i - (p - 1) \in 1 .. Len(s) - p
      BY <1>0, <1>5, <2>3
    <3>3. b[i - (p - 1)] = s[p + (i - (p - 1))]
      BY <1>2, <3>2
    <3>4. p + (i - (p - 1)) = i + 1
      BY <1>0
    <3> QED
      BY <2>3, <3>1, <3>3, <3>4
  <2> QED
    BY <2>2, <2>3
<1> QED
  BY <1>0, <1>4, <1>5, <1>6 DEF t

\* The indices of a sequence: finitely many, and as many as it is long.
LEMMA Interval ==
    ASSUME NEW n \in Nat
    PROVE  IsFiniteSet(1 .. n) /\ Cardinality(1 .. n) = n
<1>1. 1 \in Int /\ n \in Int
  OBVIOUS
<1>2. /\ IsFiniteSet(1 .. n)
      /\ Cardinality(1 .. n) = IF 1 > n THEN 0 ELSE n - 1 + 1
  BY <1>1, FS_Interval
<1>3. (IF 1 > n THEN 0 ELSE n - 1 + 1) = n
  OBVIOUS
<1> QED
  BY <1>2, <1>3

LEMMA HoldsType ==
    ASSUME NEW s \in Seq(Latches), NEW kind
    PROVE  /\ IsFiniteSet(Where(s, kind))
           /\ Holds(s, kind) \in 0 .. Len(s)
           /\ Holds(s, kind) = 0 <=> \A i \in 1 .. Len(s) : s[i] # kind
<1>1. IsFiniteSet(1 .. Len(s)) /\ Cardinality(1 .. Len(s)) = Len(s)
  <2>1. Len(s) \in Nat
    BY LenProperties
  <2> QED
    BY <2>1, Interval
<1>2. Where(s, kind) \in SUBSET (1 .. Len(s))
  BY DEF Where
<1>3. IsFiniteSet(Where(s, kind)) /\ Holds(s, kind) <= Len(s)
  BY <1>1, <1>2, FS_Subset DEF Holds
<1>4. Holds(s, kind) \in Nat
  BY <1>3, FS_CardinalityType DEF Holds
<1>5. Holds(s, kind) = 0 <=> Where(s, kind) = {}
  BY <1>3, FS_EmptySet DEF Holds
<1> QED
  BY <1>3, <1>4, <1>5 DEF Where

(* The memo of an owner has no S hold, so the two digits make its length. *)
LEMMA HoldsSum ==
    ASSUME NEW s \in Seq(Owned)
    PROVE  Holds(s, "X") + Holds(s, "U") = Len(s)
<1>1. s \in Seq(Latches)
  BY DEF Latches, Owned
<1>2. /\ Where(s, "X") \cup Where(s, "U") = 1 .. Len(s)
      /\ Where(s, "X") \cap Where(s, "U") = {}
  BY DEF Where, Owned
<1>3. Cardinality(1 .. Len(s)) =
        Holds(s, "X") + Holds(s, "U") - Cardinality({})
  BY <1>1, <1>2, HoldsType, FS_Union DEF Holds
<1>4. Cardinality(1 .. Len(s)) = Len(s)
  <2>1. Len(s) \in Nat
    BY LenProperties
  <2> QED
    BY <2>1, Interval
<1>5. Holds(s, "X") \in Nat /\ Holds(s, "U") \in Nat /\ Len(s) \in Nat
  BY <1>1, HoldsType
<1> QED
  BY <1>3, <1>4, <1>5, FS_EmptySet

(* Pushing, popping and rewriting a memo. *)
LEMMA HoldsAppend ==
    ASSUME NEW s \in Seq(Latches), NEW k \in Latches, NEW kind
    PROVE  Holds(Append(s, k), kind) =
             IF k = kind THEN Holds(s, kind) + 1 ELSE Holds(s, kind)
<1>1. Len(s) + 1 \notin Where(s, kind)
  BY DEF Where
<1>2. Where(Append(s, k), kind) =
        IF k = kind THEN Where(s, kind) \cup {Len(s) + 1} ELSE Where(s, kind)
  BY DEF Where
<1> QED
  BY <1>1, <1>2, HoldsType, FS_AddElement DEF Holds

LEMMA HoldsRemove ==
    ASSUME NEW s \in Seq(Latches), NEW p \in 1 .. Len(s), NEW kind
    PROVE  Holds(s, kind) = IF s[p] = kind THEN Holds(RemoveAt(s, p), kind) + 1
                            ELSE Holds(RemoveAt(s, p), kind)
<1> DEFINE r == RemoveAt(s, p)
           A == Where(r, kind)
           B == Where(s, kind) \ {p}
           f == [i \in A |-> IF i < p THEN i ELSE i + 1]
<1>1. /\ r \in Seq(Latches) /\ Len(r) = Len(s) - 1 /\ Len(s) \in Nat
      /\ \A i \in 1 .. Len(r) : r[i] = s[IF i < p THEN i ELSE i + 1]
  BY Removed
<1> HIDE DEF r
<1>2. A = {i \in 1 .. Len(r) : r[i] = kind}
  BY DEF Where
<1>3. B = {i \in 1 .. Len(s) : s[i] = kind /\ i # p}
  BY DEF Where
<1>4. /\ IsFiniteSet(A) /\ IsFiniteSet(Where(s, kind))
      /\ Holds(r, kind) = Cardinality(A) /\ Holds(r, kind) \in Nat
      /\ Holds(s, kind) = Cardinality(Where(s, kind)) /\ Holds(s, kind) \in Nat
      /\ p \in Where(s, kind) <=> s[p] = kind
  <2>1. Len(r) \in Nat
    BY <1>1
  <2>2. /\ IsFiniteSet(Where(r, kind)) /\ Holds(r, kind) \in 0 .. Len(r)
        /\ IsFiniteSet(Where(s, kind)) /\ Holds(s, kind) \in 0 .. Len(s)
    BY <1>1, HoldsType
  <2>3. p \in Where(s, kind) <=> s[p] = kind
    BY DEF Where
  <2> QED
    BY <2>1, <2>2, <2>3, <1>1 DEF Holds
<1>5. Cardinality(B) =
        IF p \in Where(s, kind) THEN Holds(s, kind) - 1 ELSE Holds(s, kind)
  BY <1>4, FS_RemoveElement
<1> HIDE DEF A, B
<1>6. f \in [A -> B]
  <2> SUFFICES ASSUME NEW i \in A PROVE (IF i < p THEN i ELSE i + 1) \in B
    OBVIOUS
  <2>1. i \in 1 .. Len(r) /\ s[IF i < p THEN i ELSE i + 1] = kind
    BY <1>1, <1>2
  <2>2. /\ (IF i < p THEN i ELSE i + 1) \in 1 .. Len(s)
        /\ (IF i < p THEN i ELSE i + 1) # p
    BY <1>1, <2>1
  <2> QED
    BY <1>3, <2>1, <2>2
<1>7. \A i, j \in A : f[i] = f[j] => i = j
  BY <1>1, <1>2
<1>8. \A j \in B : \E i \in A : f[i] = j
  <2> SUFFICES ASSUME NEW j \in B PROVE \E i \in A : f[i] = j
    OBVIOUS
  <2> DEFINE i == IF j < p THEN j ELSE j - 1
  <2>1. j \in 1 .. Len(s) /\ s[j] = kind /\ j # p
    BY <1>3
  <2>2. i \in 1 .. Len(r) /\ (IF i < p THEN i ELSE i + 1) = j
    BY <1>1, <2>1
  <2> HIDE DEF i
  <2>3. i \in A
    BY <1>1, <1>2, <2>1, <2>2
  <2> QED
    BY <2>2, <2>3
<1> HIDE DEF f
<1>9. f \in Bijection(A, B)
  BY <1>6, <1>7, <1>8, Fun_IsBij
<1>10. Cardinality(B) = Cardinality(A)
  BY <1>4, <1>9, FS_Bijection, Fun_ExistsBij
<1> QED
  BY <1>4, <1>5, <1>10 DEF r

LEMMA HoldsAll ==
    ASSUME NEW s \in Seq(Latches), NEW k \in Owned, NEW kind
    PROVE  /\ All(s, k) \in Seq(Owned) /\ Len(All(s, k)) = Len(s)
           /\ Holds(All(s, k), kind) = IF k = kind THEN Len(s) ELSE 0
<1>1. All(s, k) \in Seq(Owned) /\ Len(All(s, k)) = Len(s)
  BY DEF All
<1>2. Where(All(s, k), kind) = IF k = kind THEN 1 .. Len(s) ELSE {}
  BY <1>1 DEF Where, All
<1> QED
  BY <1>1, <1>2, FS_Interval, FS_EmptySet DEF Holds

-----------------------------------------------------------------------------
(* What "recursive" tells of the memo of its owner. *)
LEMMA WeightFacts ==
    ASSUME NEW s \in Seq(Owned), Len(s) <= MaxHold
    PROVE  /\ Weight(s) \in 0 .. RECURSIVE_U * RECURSIVE_U - 1
           /\ Weight(s) % RECURSIVE_U = 0 <=> \A i \in 1 .. Len(s) : s[i] = "U"
           /\ Weight(s) < RECURSIVE_U <=> \A i \in 1 .. Len(s) : s[i] = "X"
           /\ (\A i \in 1 .. Len(s) : s[i] = "U")
                => /\ Weight(s) = RECURSIVE_U * Len(s)
                   /\ Weight(s) \div RECURSIVE_U = Len(s)
           /\ (\A i \in 1 .. Len(s) : s[i] = "X") => Weight(s) = Len(s)
           /\ \A i \in 1 .. Len(s) : Weight(s) = Units(s[i]) <=> Len(s) = 1
<1> DEFINE x == Holds(s, "X")
           u == Holds(s, "U")
           B == RECURSIVE_U
<1>1. s \in Seq(Latches) /\ Len(s) \in Nat
  BY DEF Latches, Owned
<1>2. /\ B \in Nat /\ B > 1 /\ Len(s) <= B - 1
  BY <1>1, SuxAssumption DEF SuxAssumption
<1>3. /\ x \in Nat /\ u \in Nat /\ x + u = Len(s)
      /\ x = 0 <=> \A i \in 1 .. Len(s) : s[i] # "X"
      /\ u = 0 <=> \A i \in 1 .. Len(s) : s[i] # "U"
  BY <1>1, HoldsType, HoldsSum
<1>4. \A i \in 1 .. Len(s) : s[i] = "X" <=> s[i] # "U"
  BY DEF Owned
<1>5. Weight(s) = x + B * u
  BY DEF Weight
<1> HIDE DEF x, u, B
<1>6. Weight(s) % B = x /\ Weight(s) \div B = u
  <2>1. x \in 0 .. B - 1
    BY <1>1, <1>2, <1>3
  <2>2. B \in Nat /\ u \in Nat
    BY <1>2, <1>3
  <2>3. (x + B * u) % B = x /\ (x + B * u) \div B = u
    BY <2>1, <2>2, Digits, Zenon
  <2> QED
    BY <2>3, <1>5
<1>7. B * u >= 0 /\ (u >= 1 => B * u >= B) /\ (u >= 2 => B * u >= 2 * B)
      /\ B * u <= B * (B - 1) /\ B * (B - 1) + B = B * B
  BY <1>2, <1>3
<1>8. Weight(s) \in 0 .. B * B - 1
  <2>1. B * u + x <= B * (B - 1) + x
    BY <1>2, <1>3, <1>7
  <2> QED
    BY <2>1, <1>2, <1>3, <1>5, <1>7
<1>9. Weight(s) < B <=> u = 0
  BY <1>2, <1>3, <1>5, <1>7
<1>10. ASSUME NEW i \in 1 .. Len(s)
       PROVE  Weight(s) = Units(s[i]) <=> Len(s) = 1
  <2>1. CASE s[i] = "X"
    <3>1. x >= 1 /\ Units(s[i]) = 1
      BY <2>1, <1>1, <1>3 DEF Units, RECURSIVE_X
    <3> QED
      BY <3>1, <1>2, <1>3, <1>5, <1>7
  <2>2. CASE s[i] = "U"
    <3>1. u >= 1 /\ Units(s[i]) = B
      BY <2>2, <1>1, <1>3 DEF Units, B
    <3> QED
      BY <3>1, <1>2, <1>3, <1>5, <1>7
  <2> QED
    BY <2>1, <2>2 DEF Owned
<1> QED
  BY <1>3, <1>4, <1>5, <1>6, <1>8, <1>9, <1>10, <1>2 DEF B

LEMMA WeightAppend ==
    ASSUME NEW s \in Seq(Owned), NEW k \in Owned
    PROVE  /\ Weight(Append(s, k)) = Weight(s) + Units(k)
           /\ Weight(<<>>) = 0 /\ Weight(<<k>>) = Units(k)
<1>1. s \in Seq(Latches) /\ <<>> \in Seq(Latches) /\ k \in Latches
  BY DEF Latches, Owned
<1>2. /\ Holds(s, "X") \in Nat /\ Holds(s, "U") \in Nat /\ RECURSIVE_U \in Nat
  <2>1. Len(s) \in Nat
    BY <1>1
  <2> QED
    BY <2>1, <1>1, HoldsType, SuxAssumption DEF SuxAssumption
<1>3. Holds(<<>>, "X") = 0 /\ Holds(<<>>, "U") = 0
  <2>1. Len(<<>>) = 0 /\ 1 .. 0 = {}
    OBVIOUS
  <2>2. Where(<<>>, "X") = {} /\ Where(<<>>, "U") = {}
    BY <2>1 DEF Where
  <2> QED
    BY <2>2, FS_EmptySet DEF Holds
<1>4. <<k>> = Append(<<>>, k)
  OBVIOUS
<1>5. ASSUME NEW r \in Seq(Latches),
             Holds(r, "X") \in Nat /\ Holds(r, "U") \in Nat
      PROVE  Weight(Append(r, k)) = Weight(r) + Units(k)
  <2>1. /\ Holds(Append(r, k), "X") =
             IF k = "X" THEN Holds(r, "X") + 1 ELSE Holds(r, "X")
        /\ Holds(Append(r, k), "U") =
             IF k = "U" THEN Holds(r, "U") + 1 ELSE Holds(r, "U")
    BY <1>1, HoldsAppend
  <2> QED
    BY <2>1, <1>2, <1>5 DEF Weight, Units, Owned, RECURSIVE_X
<1>6. Weight(<<>>) = 0
  BY <1>2, <1>3 DEF Weight
<1>7. Units(k) \in Nat
  BY <1>2 DEF Units, RECURSIVE_X
<1>8. Weight(Append(s, k)) = Weight(s) + Units(k)
  BY <1>1, <1>2, <1>5
<1>9. Weight(Append(<<>>, k)) = Weight(<<>>) + Units(k)
  <2>1. Holds(<<>>, "X") \in Nat /\ Holds(<<>>, "U") \in Nat
    BY <1>3
  <2> QED
    BY <2>1, <1>1, <1>5
<1> QED
  BY <1>4, <1>6, <1>7, <1>8, <1>9

LEMMA WeightRemove ==
    ASSUME NEW s \in Seq(Owned), NEW p \in 1 .. Len(s)
    PROVE  LET r == RemoveAt(s, p)
           IN  /\ r \in Seq(Owned) /\ Len(r) = Len(s) - 1
               /\ \A i \in 1 .. Len(r) : r[i] = s[IF i < p THEN i ELSE i + 1]
               /\ s[p] \in Owned
               /\ Weight(s) = Weight(r) + Units(s[p])
<1> DEFINE r == RemoveAt(s, p)
<1>1. s \in Seq(Latches) /\ Len(s) \in Nat
  BY DEF Latches, Owned
<1>2. /\ r \in Seq(Owned) /\ Len(r) = Len(s) - 1 /\ s[p] \in Owned
      /\ \A i \in 1 .. Len(r) : r[i] = s[IF i < p THEN i ELSE i + 1]
  BY Removed
<1>3. r \in Seq(Latches)
  BY <1>2 DEF Latches, Owned
<1>4. Holds(r, "X") \in Nat /\ Holds(r, "U") \in Nat /\ RECURSIVE_U \in Nat
  <2> HIDE DEF r
  <2>1. Len(r) \in Nat
    BY <1>3
  <2> QED
    BY <2>1, <1>3, HoldsType, SuxAssumption DEF SuxAssumption
<1>5. /\ Holds(s, "X") = IF s[p] = "X" THEN Holds(r, "X") + 1 ELSE Holds(r, "X")
      /\ Holds(s, "U") = IF s[p] = "U" THEN Holds(r, "U") + 1 ELSE Holds(r, "U")
  BY <1>1, HoldsRemove
<1> HIDE DEF r
<1>6. Weight(s) = Weight(r) + Units(s[p])
  BY <1>2, <1>4, <1>5 DEF Weight, Units, Owned, RECURSIVE_X
<1> QED
  BY <1>2, <1>6 DEF r

LEMMA WeightAll ==
    ASSUME NEW s \in Seq(Owned), NEW k \in Owned
    PROVE  /\ All(s, k) \in Seq(Owned) /\ Len(All(s, k)) = Len(s)
           /\ Weight(All(s, k)) =
                IF k = "U" THEN RECURSIVE_U * Len(s) ELSE Len(s)
<1>1. s \in Seq(Latches) /\ Len(s) \in Nat /\ RECURSIVE_U \in Nat
  BY SuxAssumption DEF Latches, Owned, SuxAssumption
<1> QED
  BY <1>1, HoldsAll DEF Weight, Owned

-----------------------------------------------------------------------------
(* The inductive invariant. *)

\* At most one owner has U, W or X, and X is alone.
Exclusive ==
    /\ \A a, b \in Owners :
          mode[a] \in {"U", "W", "X"} /\ mode[b] \in {"U", "W", "X"} => a = b
    /\ \A a, b \in Owners : mode[a] = "X" /\ a # b => mode[b] = "none"

\* "recursive" is the weight of the owner's memo.  With an X hold in the memo
\* the underlying lock is X; with U holds only it is U or on its way to X,
\* except for an owner that is "early", whose lock is X for good.
KindsOk(r, m, step, e) ==
    \/ m = "X" /\ step = "-" /\ (e <=> OnlyU(r))
    \/ /\ OnlyU(r) /\ ~e
       /\ \/ step = "-" /\ m = "U"
          \/ step = "upgrade" /\ m \in {"W", "X"}

OwnerOk(t) ==
    /\ memo[t] \in Seq(Owned) /\ Len(memo[t]) \in 1 .. MaxHold
    /\ recursive = Weight(memo[t])
    /\ KindsOk(memo[t], mode[t], call[t].step, t \in early)

\* A thread that is not the owner has S or nothing, and was "early" only if it
\* is releasing the lock for the last time.
OtherOk(t) ==
    /\ memo[t] = <<>> \/ (memo[t] = <<"S">> /\ mode[t] = "S")
    /\ t \in early => call[t].step = "drop" /\ call[t].for = t

MemoOk ==
    \A t \in Threads : IF writer = t THEN OwnerOk(t) ELSE OtherOk(t)

\* Between the underlying lock and the owner field there is one thread.
Busy(t) == call[t].step \in {"wait", "got", "drop"}

CallOk ==
    /\ \A t \in Threads :
          /\ call[t].step = "-" => call[t] = Idle
          /\ call[t].step = "upgrade" => writer = t
          /\ Busy(t) =>
               /\ writer = NONE
               /\ call[t].for \in {t, FOR_IO} /\ call[t].kind \in Owned
               /\ mode[call[t].for] =
                    IF call[t].step = "wait" THEN "W"
                    ELSE IF call[t].for \in early THEN "X" ELSE call[t].kind
               /\ call[t].for \in early => call[t].kind = "U"
               /\ call[t].step \in {"wait", "got"} => memo[t] = <<>>
    /\ \A s, t \in Threads : Busy(s) /\ Busy(t) => s = t

IoOk ==
    /\ io = "-" <=> writer # FOR_IO
    /\ writer = FOR_IO => mode[FOR_IO] = io /\ recursive = Units(io)

SuxInv == SuxTypeOK /\ Exclusive /\ MemoOk /\ CallOk /\ IoOk

LEMMA SuxInitInv == SuxInit => SuxInv
<1> SUFFICES ASSUME SuxInit PROVE SuxInv
  OBVIOUS
<1>1. RECURSIVE_U * RECURSIVE_U - 1 >= 0 /\ RECURSIVE_U \in Nat
  BY SuxAssumption DEF SuxAssumption
<1>2. SuxTypeOK
  BY <1>1 DEF SuxInit, SuxTypeOK, lock!ModesInit, lock!Modes, Idle, Calls, Owners
<1>3. Exclusive
  BY DEF SuxInit, Exclusive, lock!ModesInit
<1>4. MemoOk
  BY SuxAssumption DEF SuxInit, MemoOk, OtherOk, SuxAssumption
<1>5. CallOk
  BY DEF SuxInit, CallOk, Idle, Busy
<1>6. IoOk
  BY SuxAssumption DEF SuxInit, IoOk, SuxAssumption
<1> QED
  BY <1>2, <1>3, <1>4, <1>5, <1>6 DEF SuxInv

(* What the owner's memo says, with the names of WeightFacts. *)
LEMMA OwnerFacts ==
    ASSUME SuxInv, NEW t \in Threads, writer = t
    PROVE  /\ memo[t] \in Seq(Owned) /\ Len(memo[t]) \in 1 .. MaxHold
           /\ recursive = Weight(memo[t]) /\ recursive \in Nat
           /\ call[t].step \in {"-", "upgrade"}
           /\ mode[t] \in {"U", "W", "X"}
           /\ \A s \in Threads : ~Busy(s)
           /\ t \in Owners /\ t # FOR_IO /\ t # NONE
<1>1. OwnerOk(t)
  BY DEF SuxInv, MemoOk
<1>2. t # FOR_IO /\ t # NONE /\ t \in Owners
  BY SuxAssumption DEF SuxAssumption, Owners
<1>3. \A s \in Threads : ~Busy(s)
  BY <1>2 DEF SuxInv, CallOk
<1>4. recursive \in Nat
  BY <1>2 DEF SuxInv, SuxTypeOK
<1> QED
  BY <1>1, <1>2, <1>3, <1>4 DEF OwnerOk, KindsOk

(* The S latch. *)
LEMMA SharedInv ==
    ASSUME SuxInv, NEW t \in Threads, s_lock(t) \/ s_unlock(t), UNCHANGED early
    PROVE  SuxInv'
<1> USE SuxAssumption DEF SuxAssumption, SuxInv, Owners
<1>1. /\ UNCHANGED <<recursive, writer, call, io>>
      /\ call[t].step = "-" /\ mode[t] \in {"none", "S"}
      /\ mode' = [mode EXCEPT ![t] = IF mode[t] = "none" THEN "S" ELSE "none"]
      /\ memo' = [memo EXCEPT ![t] = IF mode[t] = "none" THEN <<"S">> ELSE <<>>]
      /\ mode[t] = "none" => \A a \in Owners : mode[a] # "X"
  <2>1. CASE s_lock(t)
    <3>1. Append(<<>>, "S") = <<"S">>
      OBVIOUS
    <3>2. /\ UNCHANGED <<recursive, writer, call, io>>
          /\ call[t] = Idle /\ mode[t] = "none"
          /\ mode' = [mode EXCEPT ![t] = "S"]
          /\ memo' = [memo EXCEPT ![t] = <<"S">>]
          /\ \A s \in Owners \ {t} : mode[s] \in {"none", "S", "U"}
      BY <2>1, <3>1 DEF s_lock, CanCall, Push, lock!AcquireS, lock!Become,
                        lock!Others
    <3> QED
      BY <3>2 DEF Idle
  <2>2. CASE s_unlock(t)
    <3>1. writer # t
      <4> SUFFICES ASSUME writer = t PROVE FALSE
        OBVIOUS
      <4>1. memo[t] \in Seq(Owned)
        BY OwnerFacts
      <4>2. <<"S">> \notin Seq(Owned)
        <5> SUFFICES ASSUME <<"S">> \in Seq(Owned) PROVE FALSE
          OBVIOUS
        <5>1. Len(<<"S">>) = 1 /\ <<"S">>[1] = "S"
          OBVIOUS
        <5> QED
          BY <5>1, ElementOfSeq DEF Owned
      <4> QED
        BY <2>2, <4>1, <4>2 DEF s_unlock
    <3>2. mode[t] = "S"
      BY <2>2, <3>1 DEF s_unlock, MemoOk, OtherOk
    <3> QED
      BY <2>2, <3>2 DEF s_unlock, Idle, lock!Release, lock!Become, lock!Others
  <2> QED
    BY <2>1, <2>2
<1>2. SuxTypeOK'
  <2>1. <<"S">> \in Seq({"S", "U", "X"}) /\ <<>> \in Seq({"S", "U", "X"})
    OBVIOUS
  <2>2. mode' \in [Owners -> lock!Modes]
    BY <1>1 DEF SuxTypeOK, lock!Modes
  <2>3. memo' \in [Threads -> Seq({"S", "U", "X"})]
    BY <2>1, <1>1 DEF SuxTypeOK
  <2> QED
    BY <2>2, <2>3, <1>1 DEF SuxTypeOK
<1>3. Exclusive'
  BY <1>1 DEF SuxTypeOK, Exclusive
<1>4. writer # t
  BY <1>1, OwnerFacts
<1>5. MemoOk'
  <2> SUFFICES ASSUME NEW s \in Threads
               PROVE  (IF writer = s THEN OwnerOk(s) ELSE OtherOk(s))'
    BY DEF MemoOk
  <2>1. CASE s = t
    BY <2>1, <1>1, <1>4 DEF SuxTypeOK, MemoOk, OtherOk
  <2>2. CASE s # t
    BY <2>2, <1>1 DEF SuxTypeOK, MemoOk, OtherOk, OwnerOk, KindsOk, OnlyU
  <2> QED
    BY <2>1, <2>2
<1>6. CallOk'
  BY <1>1 DEF SuxTypeOK, CallOk, Busy, Owned, Idle
<1>7. IoOk'
  BY <1>1 DEF SuxTypeOK, IoOk
<1> QED
  BY <1>2, <1>3, <1>5, <1>6, <1>7

(* While a thread is between the underlying lock and the owner field, or in
   the grant that brings it there, there is no owner. *)
LEMMA NoOwner ==
    ASSUME SuxInv, NEW a \in Owners,
           \A b \in Owners \ {a} : mode[b] \in {"none", "S"},
           mode[a] \in {"none", "S"}
    PROVE  /\ writer = NONE
           /\ \A s \in Threads : ~Busy(s)
<1> USE SuxAssumption DEF SuxAssumption, SuxInv, Owners
<1>1. \A b \in Owners : mode[b] \notin {"U", "W", "X"}
  OBVIOUS
<1>2. writer \notin Threads
  BY <1>1, OwnerFacts
<1>3. writer # FOR_IO
  BY <1>1 DEF IoOk, SuxTypeOK
<1>4. writer = NONE
  BY <1>2, <1>3 DEF SuxTypeOK
<1>5. ASSUME NEW s \in Threads, Busy(s) PROVE FALSE
  <2>1. call[s].for \in Owners /\ mode[call[s].for] \in {"U", "W", "X"}
    BY <1>5 DEF CallOk, Owned
  <2> QED
    BY <2>1, <1>1
<1> QED
  BY <1>4, <1>5

(* The underlying lock is acquired, or an X lock requested, by a thread that
   is not the owner (u_lock, x_lock). *)
LEMMA AcquireInv ==
    ASSUME SuxInv, NEW t \in Threads, NEW a \in {t, FOR_IO},
           u_lock(t, a) \/ x_lock(t, a), UNCHANGED early
    PROVE  SuxInv'
<1> USE SuxAssumption DEF SuxAssumption, SuxInv, Owners
<1>1. /\ UNCHANGED <<recursive, writer, memo, io>>
      /\ call[t] = Idle /\ memo[t] = <<>> /\ mode[a] = "none"
      /\ \A b \in Owners \ {a} : mode[b] \in {"none", "S"}
  BY DEF u_lock, x_lock, CanCall, lock!AcquireU, lock!AcquireX, lock!RequestX,
         lock!Become, lock!Others
<1>2. PICK m \in {"U", "W", "X"}, st \in {"got", "wait"}, k \in Owned :
        /\ mode' = [mode EXCEPT ![a] = m]
        /\ call' = [call EXCEPT ![t] = [step |-> st, kind |-> k, for |-> a]]
        /\ m = IF st = "wait" THEN "W" ELSE k
        /\ m = "X" => \A b \in Owners \ {a} : mode[b] = "none"
  <2>1. CASE u_lock(t, a)
    BY <2>1 DEF u_lock, SetCall, lock!AcquireU, lock!Become, Owned
  <2>2. CASE x_lock(t, a)
    BY <2>2 DEF x_lock, SetCall, lock!AcquireX, lock!RequestX, lock!Become,
                lock!Others, Owned
  <2> QED
    BY <2>1, <2>2
<1>3. writer = NONE /\ \A s \in Threads : ~Busy(s)
  BY <1>1, NoOwner
<1>9. t \notin early /\ a \notin early
  <2>1. t \notin early
    BY <1>1, <1>3 DEF MemoOk, OtherOk, Idle
  <2> QED
    BY <2>1 DEF SuxTypeOK
<1>4. SuxTypeOK'
  <2>1. mode' \in [Owners -> lock!Modes]
    BY <1>2 DEF SuxTypeOK, lock!Modes
  <2>2. call' \in [Threads -> Calls]
    BY <1>2 DEF SuxTypeOK, Calls, Owned
  <2> QED
    BY <2>1, <2>2, <1>1 DEF SuxTypeOK
<1>5. Exclusive'
  BY <1>1, <1>2 DEF SuxTypeOK, Exclusive
<1>6. MemoOk'
  BY <1>1, <1>2, <1>3, <1>9 DEF SuxTypeOK, MemoOk, OtherOk
<1>7. CallOk'
  BY <1>1, <1>2, <1>3, <1>9 DEF SuxTypeOK, CallOk, Busy, Idle
<1>8. IoOk'
  BY <1>1, <1>3 DEF IoOk
<1> QED
  BY <1>4, <1>5, <1>6, <1>7, <1>8

(* The readers have left: the X lock that was requested is granted. *)
LEMMA GrantedInv ==
    ASSUME SuxInv, NEW t \in Threads, x_lock_granted(t), UNCHANGED early
    PROVE  SuxInv'
<1> USE SuxAssumption DEF SuxAssumption, SuxInv, Owners
<1> DEFINE a == call[t].for
<1>1. /\ UNCHANGED <<recursive, writer, memo, io>>
      /\ Busy(t) /\ call[t].step = "wait"
      /\ mode' = [mode EXCEPT ![a] = "X"]
      /\ call' = [call EXCEPT ![t] = [step |-> "got", kind |-> "X", for |-> a]]
      /\ \A b \in Owners \ {a} : mode[b] = "none"
  BY DEF x_lock_granted, SetCall, Busy, lock!AcquireX, lock!Become, lock!Others
<1>2. writer = NONE /\ a \in {t, FOR_IO} /\ memo[t] = <<>> /\ mode[a] = "W"
  BY <1>1 DEF CallOk
<1>9. t \notin early /\ a \notin early
  <2>1. t \notin early
    BY <1>1, <1>2 DEF MemoOk, OtherOk
  <2> QED
    BY <2>1, <1>2 DEF SuxTypeOK
<1> HIDE DEF a
<1>3. \A s \in Threads : s # t => ~Busy(s)
  BY <1>1 DEF CallOk
<1>4. SuxTypeOK'
  <2>1. mode' \in [Owners -> lock!Modes]
    BY <1>1 DEF SuxTypeOK, lock!Modes
  <2>2. call' \in [Threads -> Calls]
    BY <1>1, <1>2 DEF SuxTypeOK, Calls
  <2> QED
    BY <2>1, <2>2, <1>1 DEF SuxTypeOK
<1>5. Exclusive'
  BY <1>1, <1>2 DEF SuxTypeOK, Exclusive
<1>6. MemoOk'
  BY <1>1, <1>2, <1>9 DEF SuxTypeOK, MemoOk, OtherOk
<1>7. CallOk'
  BY <1>1, <1>2, <1>3, <1>9 DEF SuxTypeOK, CallOk, Busy, Idle, Owned
<1>8. IoOk'
  BY <1>1, <1>2 DEF IoOk
<1> QED
  BY <1>4, <1>5, <1>6, <1>7, <1>8

(* set_first_owner(): the first hold of a thread, or one for an I/O. *)
LEMMA FirstOwnerInv ==
    ASSUME SuxInv, NEW t \in Threads, set_first_owner(t), UNCHANGED early
    PROVE  SuxInv'
<1> USE SuxAssumption DEF SuxAssumption, SuxInv, Owners
<1> DEFINE a == call[t].for
           k == call[t].kind
<1>1. /\ UNCHANGED mode /\ Busy(t) /\ call[t].step = "got"
      /\ writer' = a /\ recursive' = Units(k)
      /\ call' = [call EXCEPT ![t] = Idle]
  BY DEF set_first_owner, Return, Busy
<1>2. /\ writer = NONE /\ a \in {t, FOR_IO} /\ memo[t] = <<>>
      /\ mode[a] = k /\ k \in Owned /\ a \notin early
  <2>1. writer = NONE /\ a \in {t, FOR_IO} /\ memo[t] = <<>> /\ k \in Owned
    BY <1>1 DEF CallOk
  <2>2. t \notin early /\ FOR_IO \notin early
    BY <1>1, <2>1 DEF MemoOk, OtherOk, SuxTypeOK
  <2> QED
    BY <1>1, <2>1, <2>2 DEF CallOk
<1>3. IF a = FOR_IO THEN io' = k /\ memo' = memo
      ELSE io' = io /\ memo' = [memo EXCEPT ![t] = <<k>>]
  <2>1. Append(<<>>, k) = <<k>>
    OBVIOUS
  <2> QED
    BY <2>1, <1>2 DEF set_first_owner, Push
<1>4. /\ <<k>> \in Seq(Owned) /\ <<k>> \in Seq({"S", "U", "X"})
      /\ Len(<<k>>) = 1 /\ <<k>>[1] = k /\ Weight(<<k>>) = Units(k)
  <2>1. <<>> \in Seq(Owned)
    OBVIOUS
  <2>2. Weight(<<k>>) = Units(k)
    BY <2>1, <1>2, WeightAppend
  <2> QED
    BY <2>2, <1>2 DEF Owned
<1> HIDE DEF a, k
<1>5. \A s \in Threads : s # t => ~Busy(s)
  BY <1>1 DEF CallOk
<1>6. SuxTypeOK'
  <2>1. call' \in [Threads -> Calls]
    BY <1>1 DEF SuxTypeOK, Calls, Idle
  <2>2. memo' \in [Threads -> Seq({"S", "U", "X"})]
    BY <1>3, <1>4 DEF SuxTypeOK
  <2>3. Units(k) \in 0 .. RECURSIVE_U * RECURSIVE_U - 1
    <3>1. Len(<<k>>) <= MaxHold
      BY <1>4
    <3> QED
      BY <3>1, <1>4, WeightFacts
  <2> QED
    BY <2>1, <2>2, <2>3, <1>1, <1>2, <1>3 DEF SuxTypeOK, Owned
<1>7. Exclusive'
  BY <1>1 DEF Exclusive
<1>8. MemoOk'
  <2> SUFFICES ASSUME NEW s \in Threads
               PROVE  (IF writer = s THEN OwnerOk(s) ELSE OtherOk(s))'
    BY DEF MemoOk
  <2>1. CASE s = a
    <3>1. s = t /\ writer' = s
      BY <2>1, <1>1, <1>2
    <3>2. memo'[s] = <<k>> /\ call'[s] = Idle /\ mode'[s] = k
      BY <2>1, <3>1, <1>1, <1>2, <1>3 DEF SuxTypeOK
    <3>3. k = "X" \/ k = "U"
      BY <1>2 DEF Owned
    <3>4. \A i \in 1 .. Len(<<k>>) : <<k>>[i] = k
      BY <1>4
    <3>5. MaxHold \in Nat /\ MaxHold >= 1
      OBVIOUS
    <3>6. OwnerOk(s)'
      <4>1. OnlyU(<<k>>) <=> k = "U"
        BY <1>4 DEF OnlyU
      <4>2. s \notin early'
        BY <3>1, <1>1, <1>2 DEF MemoOk, OtherOk
      <4> QED
        BY <3>2, <3>3, <3>5, <4>1, <4>2, <1>1, <1>4 DEF OwnerOk, KindsOk, Idle
    <3> QED
      BY <3>1, <3>6
  <2>2. CASE s # a
    BY <2>2, <1>1, <1>2, <1>3 DEF SuxTypeOK, MemoOk, OtherOk
  <2> QED
    BY <2>1, <2>2
<1>9. CallOk'
  BY <1>1, <1>2, <1>5 DEF SuxTypeOK, CallOk, Busy, Idle
<1>10. IoOk'
  BY <1>1, <1>2, <1>3 DEF IoOk, Owned
<1> QED
  BY <1>6, <1>7, <1>8, <1>9, <1>10

(* A step of the owner that leaves it the owner: it is enough to look at its
   own memo, mode and call. *)
LEMMA OwnerStepInv ==
    ASSUME SuxInv, NEW t \in Threads, writer = t,
           NEW m \in {"U", "W", "X"}, NEW r \in Seq(Owned), NEW c \in Calls,
           mode' = [mode EXCEPT ![t] = m], memo' = [memo EXCEPT ![t] = r],
           call' = [call EXCEPT ![t] = c], UNCHANGED <<writer, io>>,
           early' \in SUBSET Threads,
           \A b \in Threads \ {t} : b \in early' <=> b \in early,
           m = "X" => \A b \in Owners \ {t} : mode[b] = "none",
           c = Idle \/ c.step = "upgrade",
           Len(r) \in 1 .. MaxHold, recursive' = Weight(r),
           KindsOk(r, m, c.step, t \in early')
    PROVE  SuxInv'
<1> USE SuxAssumption DEF SuxAssumption, SuxInv, Owners
<1>1. /\ t # FOR_IO /\ t # NONE /\ mode[t] \in {"U", "W", "X"}
      /\ \A s \in Threads : ~Busy(s)
  BY OwnerFacts
<1>2. SuxTypeOK'
  <2>1. mode' \in [Owners -> lock!Modes]
    BY DEF SuxTypeOK, lock!Modes
  <2>2. r \in Seq({"S", "U", "X"})
    BY DEF Owned
  <2>3. memo' \in [Threads -> Seq({"S", "U", "X"})]
    BY <2>2 DEF SuxTypeOK
  <2>4. call' \in [Threads -> Calls]
    BY DEF SuxTypeOK
  <2>5. Weight(r) \in 0 .. RECURSIVE_U * RECURSIVE_U - 1
    BY WeightFacts
  <2> QED
    BY <2>1, <2>3, <2>4, <2>5 DEF SuxTypeOK
<1>3. Exclusive'
  BY <1>1 DEF SuxTypeOK, Exclusive
<1>4. MemoOk'
  <2> SUFFICES ASSUME NEW s \in Threads
               PROVE  (IF writer = s THEN OwnerOk(s) ELSE OtherOk(s))'
    BY DEF MemoOk
  <2>1. CASE s = t
    <3>1. memo'[t] = r /\ mode'[t] = m /\ call'[t] = c
      BY DEF SuxTypeOK
    <3>2. OwnerOk(t)'
      BY <3>1 DEF OwnerOk
    <3> QED
      BY <2>1, <3>2
  <2>2. CASE s # t
    BY <2>2 DEF SuxTypeOK, MemoOk, OtherOk
  <2> QED
    BY <2>1, <2>2
<1>5. CallOk'
  BY <1>1 DEF SuxTypeOK, CallOk, Busy, Idle
<1>6. IoOk'
  BY <1>1 DEF IoOk
<1> QED
  BY <1>2, <1>3, <1>4, <1>5, <1>6

(* A thread that is the owner is the only one with a strong mode. *)
LEMMA AloneWithX ==
    ASSUME SuxInv, NEW t \in Owners, mode[t] = "X"
    PROVE  \A b \in Owners \ {t} : mode[b] = "none"
BY DEF SuxInv, Exclusive

(* writer_recurse(): one more hold. *)
LEMMA RecurseInv ==
    ASSUME SuxInv, NEW t \in Threads, NEW k \in {"U", "X"}, writer_recurse(t, k),
           UNCHANGED early
    PROVE  SuxInv'
<1> DEFINE s == memo[t]
           r == Append(s, k)
<1>1. /\ writer = t /\ call[t] = Idle /\ Len(s) < MaxHold
      /\ k = "X" => recursive % RECURSIVE_U # 0
      /\ recursive' = recursive + Units(k)
      /\ memo' = [memo EXCEPT ![t] = r] /\ UNCHANGED <<mode, writer, call, io>>
  BY DEF writer_recurse, CanCall, Push
<1>2. /\ s \in Seq(Owned) /\ Len(s) \in 1 .. MaxHold /\ recursive = Weight(s)
      /\ mode[t] \in {"U", "W", "X"} /\ t \in Owners
  BY <1>1, OwnerFacts
<1>3. OwnerOk(t) /\ call[t].step = "-"
  BY <1>1 DEF SuxInv, MemoOk, Idle
<1> HIDE DEF s
<1>4. MaxHold \in Nat /\ Len(s) \in Nat
  BY <1>2, SuxAssumption DEF SuxAssumption
<1>5. /\ r \in Seq(Owned) /\ Len(r) = Len(s) + 1 /\ r[Len(s) + 1] = k
      /\ \A i \in 1 .. Len(s) : r[i] = s[i]
  BY <1>2, AppendProperties DEF Owned
<1>6. Weight(r) = Weight(s) + Units(k)
  BY <1>2, WeightAppend DEF Owned
<1>7. /\ OnlyU(s) => k = "U"
      /\ OnlyU(r) <=> OnlyU(s) /\ k = "U"
  <2>1. DOMAIN s = 1 .. Len(s)
    BY <1>2
  <2>2. OnlyU(s) => k = "U"
    BY <2>1, <1>1, <1>2, <1>4, WeightFacts DEF OnlyU
  <2> HIDE DEF r
  <2>3. DOMAIN r = 1 .. Len(s) + 1
    BY <1>5
  <2>4. Len(s) + 1 \in 1 .. Len(s) + 1 /\ \A i \in 1 .. Len(s) + 1 : i = Len(s) + 1 \/ i \in 1 .. Len(s)
    BY <1>4
  <2>5. \A i \in 1 .. Len(s) : i \in 1 .. Len(s) + 1
    BY <1>4
  <2> QED
    BY <2>1, <2>2, <2>3, <2>4, <2>5, <1>5, Zenon DEF OnlyU
<1> HIDE DEF r
<1>8. KindsOk(r, mode[t], "-", t \in early)
  BY <1>3, <1>7 DEF OwnerOk, KindsOk, s
<1>9. /\ mode' = [mode EXCEPT ![t] = mode[t]] /\ call' = [call EXCEPT ![t] = Idle]
      /\ Idle \in Calls /\ Idle.step = "-"
  BY <1>1, <1>2 DEF SuxInv, SuxTypeOK, Calls, Idle
<1>10. Len(r) \in 1 .. MaxHold /\ recursive' = Weight(r)
  BY <1>1, <1>2, <1>4, <1>5, <1>6
<1>11. mode[t] = "X" => \A b \in Owners \ {t} : mode[b] = "none"
  BY <1>2, AloneWithX
<1>12. /\ KindsOk(r, mode[t], Idle.step, t \in early')
       /\ early' \in SUBSET Threads
       /\ \A b \in Threads \ {t} : b \in early' <=> b \in early
       /\ UNCHANGED <<writer, io>> /\ r \in Seq(Owned)
       /\ memo' = [memo EXCEPT ![t] = r] /\ writer = t
       /\ mode[t] \in {"U", "W", "X"} /\ Idle \in Calls
  BY <1>1, <1>2, <1>5, <1>8, <1>9 DEF SuxInv, SuxTypeOK
<1> QED
  BY <1>9, <1>10, <1>11, <1>12, OwnerStepInv

(* u_x_upgrade(): the owner of U asks for X, and gets it. *)
LEMMA UpgradeInv ==
    ASSUME SuxInv, NEW t \in Threads, u_x_upgrade(t) \/ u_wr_granted(t),
           UNCHANGED early
    PROVE  SuxInv'
<1> DEFINE c == [step |-> "upgrade", kind |-> "X", for |-> t]
<1>1. PICK m \in {"W", "X"} :
        /\ mode' = [mode EXCEPT ![t] = m]
        /\ m = "X" => \A b \in Owners \ {t} : mode[b] = "none"
  BY DEF u_x_upgrade, u_wr_granted, lock!AcquireX, lock!RequestX, lock!Become,
         lock!Others
<1>2. UNCHANGED <<recursive, writer, memo, io>>
  BY DEF u_x_upgrade, u_wr_granted
<1>3. writer = t
  BY DEF u_x_upgrade, u_wr_granted, SuxInv, CallOk
<1>4. /\ memo[t] \in Seq(Owned) /\ Len(memo[t]) \in 1 .. MaxHold
      /\ recursive = Weight(memo[t]) /\ OwnerOk(t)
  BY <1>3, OwnerFacts DEF SuxInv, MemoOk
<1>5. \A i \in 1 .. Len(memo[t]) : memo[t][i] = "U"
  <2>1. CASE u_x_upgrade(t)
    <3>1. recursive % RECURSIVE_U = 0 /\ Len(memo[t]) <= MaxHold
      BY <2>1, <1>4, SuxAssumption DEF u_x_upgrade, SuxAssumption
    <3> QED
      BY <3>1, <1>4, WeightFacts
  <2>2. CASE u_wr_granted(t)
    BY <2>2, <1>4 DEF u_wr_granted, OwnerOk, KindsOk, OnlyU
  <2> QED
    BY <2>1, <2>2
<1>6. PICK d \in Calls : call' = [call EXCEPT ![t] = d] /\ d.step = "upgrade"
  <2>1. CASE u_x_upgrade(t)
    <3>1. c \in Calls /\ c.step = "upgrade"
      BY DEF Calls, Owners
    <3> QED
      BY <2>1, <3>1 DEF u_x_upgrade, SetCall
  <2>2. CASE u_wr_granted(t)
    <3>1. call[t] \in Calls /\ call[t].step = "upgrade" /\ call' = call
      BY <2>2 DEF u_wr_granted, SuxInv, SuxTypeOK
    <3>2. call' = [call EXCEPT ![t] = call[t]]
      BY <3>1 DEF SuxInv, SuxTypeOK
    <3> QED
      BY <3>1, <3>2
  <2> QED
    BY <2>1, <2>2
<1>7. memo' = [memo EXCEPT ![t] = memo[t]]
  BY <1>2 DEF SuxInv, SuxTypeOK
<1>8. /\ m \in {"U", "W", "X"} /\ early' \in SUBSET Threads
      /\ \A b \in Threads \ {t} : b \in early' <=> b \in early
  BY DEF SuxInv, SuxTypeOK
<1>9. OnlyU(memo[t])
  <2>1. DOMAIN memo[t] = 1 .. Len(memo[t])
    BY <1>4
  <2> QED
    BY <2>1, <1>5 DEF OnlyU
<1>10. t \notin early
  BY <1>4, <1>9 DEF OwnerOk, KindsOk, u_x_upgrade, u_wr_granted, Idle,
                    lock!AcquireX, lock!RequestX, lock!Become
<1>11. KindsOk(memo[t], m, d.step, t \in early')
  BY <1>6, <1>9, <1>10 DEF KindsOk
<1> QED
  BY <1>1, <1>2, <1>3, <1>4, <1>6, <1>7, <1>8, <1>11, OwnerStepInv

(* The end of an upgrade and x_u_downgrade(): every hold changes its kind. *)
LEMMA RewriteInv ==
    ASSUME SuxInv, NEW t \in Threads, upgraded(t) \/ x_u_downgrade(t), UNCHANGED early
    PROVE  SuxInv'
<1> DEFINE s == memo[t]
           k == IF upgraded(t) THEN "X" ELSE "U"
           r == All(s, k)
<1>1. writer = t
  BY DEF upgraded, x_u_downgrade, SuxInv, CallOk
<1>2. /\ s \in Seq(Owned) /\ Len(s) \in 1 .. MaxHold /\ recursive = Weight(s)
      /\ OwnerOk(t) /\ t \in Owners
  BY <1>1, OwnerFacts DEF SuxInv, MemoOk
<1>3. MaxHold \in Nat /\ Len(s) \in Nat /\ Len(s) <= MaxHold /\ RECURSIVE_U \in Nat
  BY <1>2, SuxAssumption DEF SuxAssumption
<1>4. /\ r \in Seq(Owned) /\ Len(r) = Len(s)
      /\ Weight(r) = IF k = "U" THEN RECURSIVE_U * Len(s) ELSE Len(s)
      /\ \A i \in 1 .. Len(r) : r[i] = k
  <2>1. k \in Owned
    BY DEF Owned
  <2>2. \A i \in 1 .. Len(s) : r[i] = k
    BY <1>2 DEF All
  <2> HIDE DEF k, s
  <2> QED
    BY <2>1, <2>2, <1>2, WeightAll
<1>5. call' = [call EXCEPT ![t] = Idle] /\ UNCHANGED <<writer, io>>
  BY DEF upgraded, x_u_downgrade, Return, SuxInv, SuxTypeOK
<1>6. Idle \in Calls /\ Idle.step = "-"
  BY DEF Calls, Idle
<1>7. mode[t] = "X"
  BY DEF upgraded, x_u_downgrade, lock!Downgrade, lock!Become
<1>8. \A b \in Owners \ {t} : mode[b] = "none"
  BY <1>2, <1>7, AloneWithX
<1>9. mode' = [mode EXCEPT ![t] = k] /\ memo' = [memo EXCEPT ![t] = r]
  <2>1. CASE upgraded(t)
    BY <2>1, <1>2, <1>7 DEF upgraded, SuxInv, SuxTypeOK
  <2>2. CASE ~upgraded(t)
    BY <2>2 DEF x_u_downgrade, lock!Downgrade, lock!Become
  <2> QED
    BY <2>1, <2>2
<1>10. recursive' = Weight(r)
  <2>1. CASE upgraded(t)
    <3>1. \A i \in 1 .. Len(s) : s[i] = "U"
      BY <2>1, <1>2, <1>3 DEF upgraded, OwnerOk, KindsOk, OnlyU
    <3>2. recursive \div RECURSIVE_U = Len(s)
      <4> HIDE DEF s
      <4> QED
        BY <3>1, <1>2, <1>3, WeightFacts
    <3> QED
      BY <2>1, <3>2, <1>4 DEF upgraded
  <2>2. CASE ~upgraded(t)
    <3>1. recursive < RECURSIVE_U /\ recursive' = recursive * RECURSIVE_U
      BY <2>2 DEF x_u_downgrade
    <3>2. recursive = Len(s)
      <4> HIDE DEF s
      <4> QED
        BY <3>1, <1>2, <1>3, WeightFacts
    <3> QED
      BY <2>2, <3>1, <3>2, <1>3, <1>4
  <2> QED
    BY <2>1, <2>2
<1>11. k = "X" \/ k = "U"
  OBVIOUS
<1>14. t \notin early
  <2>1. CASE upgraded(t)
    BY <2>1, <1>2 DEF upgraded, OwnerOk, KindsOk
  <2>2. CASE ~upgraded(t)
    <3>1. recursive < RECURSIVE_U
      BY <2>2 DEF x_u_downgrade
    <3>2. s[1] = "X" /\ 1 \in 1 .. Len(s)
      <4> HIDE DEF s
      <4> QED
        BY <3>1, <1>2, <1>3, WeightFacts
    <3>3. ~OnlyU(s)
      <4>1. 1 \in DOMAIN s
        BY <3>2, <1>2
      <4> QED
        BY <4>1, <3>2 DEF OnlyU
    <3> QED
      BY <3>3, <1>2 DEF OwnerOk, KindsOk
  <2> QED
    BY <2>1, <2>2
<1> HIDE DEF k, r, s
<1>15. OnlyU(r) <=> k = "U"
  <2>1. 1 \in DOMAIN r /\ DOMAIN r = 1 .. Len(r)
    BY <1>2, <1>3, <1>4
  <2> QED
    BY <2>1, <1>4 DEF OnlyU
<1>12. /\ KindsOk(r, k, Idle.step, t \in early')
       /\ k \in {"U", "W", "X"} /\ Len(r) \in 1 .. MaxHold
       /\ early' \in SUBSET Threads
       /\ \A b \in Threads \ {t} : b \in early' <=> b \in early
  BY <1>2, <1>3, <1>4, <1>6, <1>11, <1>14, <1>15 DEF KindsOk, SuxInv, SuxTypeOK
<1>13. k = "X" => \A b \in Owners \ {t} : mode[b] = "none"
  BY <1>8
<1> QED
  BY <1>1, <1>4, <1>5, <1>6, <1>9, <1>10, <1>12, <1>13, OwnerStepInv

(* claim_ownership(): a thread becomes the owner in place of FOR_IO. *)
LEMMA ClaimInv ==
    ASSUME SuxInv, NEW t \in Threads, claim_ownership(t), UNCHANGED early
    PROVE  SuxInv'
<1> USE SuxAssumption DEF SuxAssumption, SuxInv, Owners
<1>1. /\ call[t] = Idle /\ memo[t] = <<>> /\ writer = FOR_IO /\ io = "X"
      /\ writer' = t /\ io' = "-" /\ UNCHANGED <<recursive, call>>
      /\ mode' = [mode EXCEPT ![t] = mode[FOR_IO], ![FOR_IO] = "none"]
  BY DEF claim_ownership, CanCall
<1>2. memo' = [memo EXCEPT ![t] = <<"X">>]
  <2>1. Append(<<>>, "X") = <<"X">>
    OBVIOUS
  <2> QED
    BY <2>1, <1>1 DEF claim_ownership, Push
<1>3. mode[FOR_IO] = "X" /\ recursive = Units("X")
  BY <1>1 DEF IoOk
<1>4. \A b \in Owners \ {FOR_IO} : mode[b] = "none"
  BY <1>3, AloneWithX
<1>5. /\ <<"X">> \in Seq(Owned) /\ <<"X">> \in Seq({"S", "U", "X"})
      /\ Len(<<"X">>) = 1 /\ <<"X">>[1] = "X" /\ Weight(<<"X">>) = Units("X")
  <2>1. <<>> \in Seq(Owned) /\ "X" \in Owned
    BY DEF Owned
  <2>2. Weight(<<"X">>) = Units("X")
    BY <2>1, WeightAppend
  <2> QED
    BY <2>2 DEF Owned
<1>6. \A s \in Threads : ~Busy(s)
  BY <1>1 DEF CallOk
<1>7. SuxTypeOK'
  <2>1. mode' \in [Owners -> lock!Modes]
    BY <1>1, <1>3 DEF SuxTypeOK, lock!Modes
  <2>2. memo' \in [Threads -> Seq({"S", "U", "X"})]
    BY <1>2, <1>5 DEF SuxTypeOK
  <2> QED
    BY <2>1, <2>2, <1>1 DEF SuxTypeOK
<1>8. Exclusive'
  BY <1>1, <1>3, <1>4 DEF SuxTypeOK, Exclusive
<1>9. MemoOk'
  <2> SUFFICES ASSUME NEW s \in Threads
               PROVE  (IF writer = s THEN OwnerOk(s) ELSE OtherOk(s))'
    BY DEF MemoOk
  <2>1. CASE s = t
    <3>1. memo'[t] = <<"X">> /\ mode'[t] = "X" /\ call'[t] = Idle
      BY <1>1, <1>2, <1>3 DEF SuxTypeOK
    <3>3. ~OnlyU(<<"X">>) /\ t \notin early'
      BY <1>1 DEF OnlyU, MemoOk, OtherOk, Idle
    <3>2. OwnerOk(t)'
      BY <3>1, <3>3, <1>1, <1>3, <1>5 DEF OwnerOk, KindsOk, Idle
    <3> QED
      BY <2>1, <3>2, <1>1
  <2>2. CASE s # t
    BY <2>2, <1>1, <1>2, <1>4 DEF SuxTypeOK, MemoOk, OtherOk
  <2> QED
    BY <2>1, <2>2
<1>10. CallOk'
  BY <1>1, <1>6 DEF SuxTypeOK, CallOk, Busy, Idle
<1>11. IoOk'
  BY <1>1 DEF IoOk
<1> QED
  BY <1>7, <1>8, <1>9, <1>10, <1>11

(* The release that is not the last, in any order. *)
LEMMA UnlockInv ==
    ASSUME SuxInv, NEW t \in Threads, NEW p \in DOMAIN memo[t],
           u_or_x_unlock(t, p), Len(memo[t]) # 1
    PROVE  SuxInv'
<1> DEFINE s == memo[t]
           r == RemoveAt(s, p)
<1>1. /\ writer = t /\ call[t] = Idle /\ UNCHANGED <<mode, io>>
      /\ recursive' = recursive - Units(s[p])
      /\ memo' = [memo EXCEPT ![t] = r]
      /\ recursive # Units(s[p]) => UNCHANGED <<writer, call>>
  BY DEF u_or_x_unlock, Unlock
<1>2. /\ s \in Seq(Owned) /\ Len(s) \in 1 .. MaxHold /\ recursive = Weight(s)
      /\ OwnerOk(t) /\ t \in Owners /\ mode[t] \in {"U", "W", "X"}
      /\ p \in 1 .. Len(s)
  BY <1>1, OwnerFacts DEF SuxInv, MemoOk
<1>3. /\ MaxHold \in Nat /\ Len(s) \in Nat /\ Len(s) <= MaxHold /\ Len(s) > 1
      /\ RECURSIVE_U \in Nat
  <2> DEFINE n == Len(s)
  <2>1. n # 1
    OBVIOUS
  <2>2. MaxHold \in Nat /\ RECURSIVE_U \in Nat
    BY SuxAssumption DEF SuxAssumption
  <2>3. n \in 1 .. MaxHold
    BY <1>2
  <2> HIDE DEF n
  <2>4. n \in Nat /\ n <= MaxHold /\ n > 1
    BY <2>1, <2>2, <2>3
  <2> QED
    BY <2>2, <2>4 DEF n
<1>4. /\ early' = IF s[p] = "X" /\ OnlyU(r) THEN early \cup {t} ELSE early
      /\ early' \in SUBSET Threads
      /\ \A b \in Threads \ {t} : b \in early' <=> b \in early
  <2>1. memo'[t] = r
    BY <1>1 DEF SuxInv, SuxTypeOK
  <2> QED
    BY <2>1, <1>3 DEF u_or_x_unlock, SuxInv, SuxTypeOK
<1>5. \/ mode[t] = "X" /\ (t \in early <=> OnlyU(s))
      \/ OnlyU(s) /\ t \notin early /\ mode[t] = "U"
  BY <1>1, <1>2 DEF OwnerOk, KindsOk, Idle
<1> HIDE DEF s
<1>6. /\ r \in Seq(Owned) /\ Len(r) = Len(s) - 1 /\ s[p] \in Owned
      /\ \A i \in 1 .. Len(r) : r[i] = s[IF i < p THEN i ELSE i + 1]
      /\ Weight(s) = Weight(r) + Units(s[p])
  BY <1>2, WeightRemove
<1>7. UNCHANGED <<writer, call>>
  <2>1. Weight(s) # Units(s[p])
    BY <1>2, <1>3, WeightFacts
  <2> QED
    BY <2>1, <1>1, <1>2
<1> HIDE DEF r
<1>8. OnlyU(s) <=> OnlyU(r) /\ s[p] = "U"
  <2>1. /\ DOMAIN s = 1 .. Len(s) /\ DOMAIN r = 1 .. Len(r)
    BY <1>2, <1>6
  <2>2. ASSUME OnlyU(s) PROVE OnlyU(r) /\ s[p] = "U"
    <3>1. \A i \in 1 .. Len(r) : (IF i < p THEN i ELSE i + 1) \in 1 .. Len(s)
      BY <1>2, <1>3, <1>6
    <3> QED
      BY <2>1, <2>2, <3>1, <1>2, <1>6 DEF OnlyU
  <2>3. ASSUME OnlyU(r), s[p] = "U", NEW j \in 1 .. Len(s) PROVE s[j] = "U"
    <3>1. CASE j = p
      BY <2>3, <3>1
    <3>2. CASE j # p
      <4> DEFINE i == IF j < p THEN j ELSE j - 1
      <4>1. i \in 1 .. Len(r) /\ (IF i < p THEN i ELSE i + 1) = j
        BY <3>2, <1>2, <1>3, <1>6
      <4> HIDE DEF i
      <4> QED
        BY <4>1, <2>1, <2>3, <1>6 DEF OnlyU
    <3> QED
      BY <3>1, <3>2
  <2> QED
    BY <2>1, <2>2, <2>3 DEF OnlyU
<1>9. /\ mode' = [mode EXCEPT ![t] = mode[t]] /\ call' = [call EXCEPT ![t] = Idle]
      /\ Idle \in Calls /\ Idle.step = "-"
  BY <1>1, <1>2, <1>7 DEF SuxInv, SuxTypeOK, Calls, Idle
<1>10. KindsOk(r, mode[t], Idle.step, t \in early')
  BY <1>4, <1>5, <1>6, <1>8, <1>9 DEF KindsOk, Owned
<1>11. Len(r) \in 1 .. MaxHold /\ Len(r) <= MaxHold
  BY <1>3, <1>6
<1>12. recursive' = Weight(r)
  <2>1. Weight(r) \in 0 .. RECURSIVE_U * RECURSIVE_U - 1
    BY <1>6, <1>11, WeightFacts
  <2>2. Units(s[p]) \in Nat
    BY <1>3 DEF Units, RECURSIVE_X
  <2> QED
    BY <2>1, <2>2, <1>1, <1>2, <1>6
<1>13. mode[t] = "X" => \A b \in Owners \ {t} : mode[b] = "none"
  BY <1>2, AloneWithX
<1>14. /\ UNCHANGED <<writer, io>> /\ writer = t
       /\ memo' = [memo EXCEPT ![t] = r] /\ mode[t] \in {"U", "W", "X"}
  BY <1>1, <1>2, <1>7
<1> QED
  BY <1>4, <1>6, <1>9, <1>10, <1>11, <1>12, <1>13, <1>14, OwnerStepInv

(* The last release: u_or_x_unlock() by the owner, or of an I/O. *)
LEMMA LastUnlockInv ==
    ASSUME SuxInv, NEW t \in Threads,
           \/ \E p \in DOMAIN memo[t] : u_or_x_unlock(t, p) /\ Len(memo[t]) = 1
           \/ io_complete(t) /\ UNCHANGED early
    PROVE  SuxInv'
<1> USE SuxAssumption DEF SuxAssumption, SuxInv, Owners
<1> DEFINE a == writer
           k == IF a = t THEN memo[t][1] ELSE io
<1>1. /\ call[t] = Idle /\ a \in {t, FOR_IO} /\ UNCHANGED <<mode, early>>
      /\ a = t => /\ Len(memo[t]) = 1 /\ Unlock(t, memo[t][1], t) /\ io' = io
                  /\ memo' = [memo EXCEPT ![t] = <<>>]
                  /\ memo[t] \in Seq(Owned) /\ recursive = Weight(memo[t])
      /\ a = FOR_IO => io # "-" /\ Unlock(t, io, FOR_IO) /\ io' = "-" /\ memo' = memo
  <2>1. CASE io_complete(t) /\ UNCHANGED early
    BY <2>1 DEF io_complete, Unlock
  <2>2. ASSUME NEW p \in DOMAIN memo[t], u_or_x_unlock(t, p), Len(memo[t]) = 1
        PROVE  /\ call[t] = Idle /\ a = t /\ UNCHANGED <<mode, early>>
               /\ Unlock(t, memo[t][1], t) /\ io' = io
               /\ memo' = [memo EXCEPT ![t] = <<>>]
               /\ memo[t] \in Seq(Owned) /\ recursive = Weight(memo[t])
    <3> DEFINE s == memo[t]
    <3>1. a = t /\ call[t] = Idle
      BY <2>2 DEF u_or_x_unlock
    <3>2. s \in Seq(Owned) /\ recursive = Weight(s)
      BY <3>1, OwnerFacts
    <3>3. Len(s) = 1 /\ p \in 1 .. Len(s)
      BY <2>2, <3>2
    <3> HIDE DEF s
    <3>4. p = 1
      BY <3>3
    <3>5. RemoveAt(s, p) = <<>>
      <4>1. RemoveAt(s, p) \in Seq(Owned) /\ Len(RemoveAt(s, p)) = Len(s) - 1
        BY <3>2, <3>3, Removed
      <4>2. Len(RemoveAt(s, p)) = 0
        BY <4>1, <3>3
      <4> QED
        BY <4>1, <4>2, EmptySeq
    <3> QED
      <4>1. /\ Unlock(t, s[p], t) /\ memo' = [memo EXCEPT ![t] = RemoveAt(s, p)]
            /\ io' = io
        BY <2>2 DEF u_or_x_unlock, s
      <4>2. early' = early /\ ~(Len(memo[t]) > 1)
        BY <2>2 DEF u_or_x_unlock
      <4>3. mode' = mode
        BY <4>1 DEF Unlock
      <4> QED
        BY <3>1, <3>2, <3>4, <3>5, <4>1, <4>2, <4>3 DEF s
  <2> QED
    BY <2>1, <2>2
<1>2. a = t => /\ memo' = [memo EXCEPT ![t] = <<>>] /\ memo[t] \in Seq(Owned)
               /\ recursive = Weight(memo[t])
  BY <1>1
<1>3. /\ k \in Owned /\ recursive = Units(k)
      /\ mode[a] = (IF a \in early THEN "X" ELSE k) /\ (a \in early => k = "U")
  <2>1. CASE a = t
    <3>1. memo[t][1] \in Owned
      BY <2>1, <1>1, <1>2, ElementOfSeq
    <3>2. OwnerOk(t)
      BY <2>1 DEF MemoOk
    <3>3. /\ mode[t] = (IF t \in early THEN "X" ELSE memo[t][1])
          /\ t \in early => memo[t][1] = "U"
      <4>1. DOMAIN memo[t] = {1}
        BY <2>1, <1>1, <1>2
      <4>2. OnlyU(memo[t]) <=> memo[t][1] = "U"
        BY <4>1 DEF OnlyU
      <4> QED
        BY <2>1, <3>1, <3>2, <4>2, <1>1 DEF OwnerOk, KindsOk, Idle, Owned
    <3>4. Weight(memo[t]) = Units(memo[t][1])
      <4> DEFINE s == memo[t]
      <4>1. s \in Seq(Owned) /\ Len(s) = 1
        BY <2>1, <1>1, <1>2
      <4> HIDE DEF s
      <4>2. Weight(s) = Units(s[Len(s)])
        <5>1. 1 <= MaxHold /\ Len(s) <= MaxHold /\ Len(s) \in 1 .. Len(s)
          BY <4>1
        <5> QED
          BY <4>1, <5>1, WeightFacts
      <4> QED
        BY <4>1, <4>2 DEF s
    <3> QED
      BY <2>1, <3>1, <3>3, <3>4, <1>2
  <2>2. CASE a = FOR_IO
    BY <2>2, <1>1 DEF IoOk, SuxTypeOK, Owned
  <2> QED
    BY <2>1, <2>2, <1>1
<1>4. /\ writer' = NONE /\ recursive' = Units(k) - Units(k)
      /\ call' = [call EXCEPT ![t] = [step |-> "drop", kind |-> k, for |-> a]]
  <2>1. Unlock(t, k, a)
    BY <1>1
  <2> QED
    BY <2>1, <1>3 DEF Unlock, SetCall
<1>5. io' = "-"
  BY <1>1 DEF IoOk
<1>6. \A s \in Threads : ~Busy(s)
  BY <1>1 DEF CallOk
<1>7. a \in Owners /\ a # NONE
  BY <1>1
<1> HIDE DEF k
<1>8. SuxTypeOK'
  <2>1. call' \in [Threads -> Calls]
    BY <1>3, <1>4, <1>7 DEF SuxTypeOK, Calls, Owned
  <2>2. memo' \in [Threads -> Seq({"S", "U", "X"})]
    <3>1. <<>> \in Seq({"S", "U", "X"})
      OBVIOUS
    <3> QED
      BY <3>1, <1>1, <1>2 DEF SuxTypeOK
  <2>3. Units(k) \in Nat
    BY DEF Units, RECURSIVE_X
  <2>4. recursive' = 0
    BY <2>3, <1>4
  <2>5. 0 \in 0 .. RECURSIVE_U * RECURSIVE_U - 1
    OBVIOUS
  <2> QED
    BY <2>1, <2>2, <2>4, <2>5, <1>1, <1>4, <1>5 DEF SuxTypeOK
<1>9. Exclusive'
  BY <1>1 DEF Exclusive
<1>10. MemoOk'
  <2> SUFFICES ASSUME NEW s \in Threads PROVE OtherOk(s)'
    BY <1>4 DEF MemoOk
  <2>1. CASE s = a
    <3>1. s = t /\ memo'[s] = <<>>
      BY <2>1, <1>1 DEF SuxTypeOK
    <3>2. call'[s].step = "drop" /\ call'[s].for = s
      BY <2>1, <3>1, <1>4 DEF SuxTypeOK
    <3> QED
      BY <3>1, <3>2 DEF OtherOk
  <2>2. CASE s # a
    <3>1. memo'[s] = memo[s] /\ OtherOk(s)
      BY <2>2, <1>1, <1>2 DEF SuxTypeOK, MemoOk
    <3>2. s \notin early \/ s # t
      BY <3>1, <1>1 DEF OtherOk, Idle
    <3> QED
      BY <3>1, <3>2, <1>1, <1>4 DEF SuxTypeOK, OtherOk
  <2> QED
    BY <2>1, <2>2
<1>11. CallOk'
  <2>1. /\ mode'[a] = (IF a \in early' THEN "X" ELSE k) /\ (a \in early' => k = "U")
        /\ early' = early
    BY <1>1, <1>3
  <2> QED
    BY <2>1, <1>1, <1>3, <1>4, <1>6, <1>7 DEF SuxTypeOK, CallOk, Busy, Idle
<1>12. IoOk'
  BY <1>4, <1>5 DEF IoOk
<1> QED
  BY <1>8, <1>9, <1>10, <1>11, <1>12

(* lock.u_unlock() or lock.wr_unlock(). *)
LEMMA DropInv ==
    ASSUME SuxInv, NEW t \in Threads, drop(t), UNCHANGED early
    PROVE  SuxInv'
<1> USE SuxAssumption DEF SuxAssumption, SuxInv, Owners
<1> DEFINE a == call[t].for
<1>1. /\ UNCHANGED <<recursive, writer, memo, io>>
      /\ Busy(t) /\ call[t].step = "drop"
      /\ mode' = [mode EXCEPT ![a] = "none"]
      /\ call' = [call EXCEPT ![t] = Idle]
  BY DEF drop, Return, Busy, lock!Release, lock!Become
<1>2. writer = NONE /\ a \in {t, FOR_IO} /\ mode[a] \in Owned /\ a \notin early
  <2>1. /\ writer = NONE /\ a \in {t, FOR_IO} /\ call[t].kind \in Owned
        /\ mode[a] = (IF a \in early THEN "X" ELSE call[t].kind)
        /\ a \in early => call[t].kind = "U"
    BY <1>1 DEF CallOk
  <2>2. mode[a] = call[t].kind
    BY DEF drop
  <2> QED
    BY <2>1, <2>2 DEF Owned
<1>10. t \notin early
  BY <1>1, <1>2 DEF MemoOk, OtherOk
<1>3. a = t => memo[t] = <<>>
  BY <1>2 DEF MemoOk, OtherOk, Owned
<1> HIDE DEF a
<1>4. \A s \in Threads : s # t => ~Busy(s)
  BY <1>1 DEF CallOk
<1>5. SuxTypeOK'
  <2>1. mode' \in [Owners -> lock!Modes]
    BY <1>1 DEF SuxTypeOK, lock!Modes
  <2>2. call' \in [Threads -> Calls]
    BY <1>1 DEF SuxTypeOK, Calls, Idle
  <2> QED
    BY <2>1, <2>2, <1>1 DEF SuxTypeOK
<1>6. Exclusive'
  BY <1>1, <1>2 DEF SuxTypeOK, Exclusive
<1>7. MemoOk'
  BY <1>1, <1>2, <1>3, <1>10 DEF SuxTypeOK, MemoOk, OtherOk
<1>8. CallOk'
  BY <1>1, <1>2, <1>4 DEF SuxTypeOK, CallOk, Busy, Idle
<1>9. IoOk'
  BY <1>1, <1>2 DEF IoOk
<1> QED
  BY <1>5, <1>6, <1>7, <1>8, <1>9

LEMMA SuxStepInv ==
    ASSUME SuxInv, [SuxNext]_suxvars
    PROVE  SuxInv'
<1>1. CASE UNCHANGED suxvars
  BY <1>1 DEF suxvars, SuxInv, SuxTypeOK, Exclusive, MemoOk, OwnerOk, OtherOk,
              KindsOk, OnlyU, CallOk, Busy, IoOk
<1>2. CASE SuxNext
  <2>1. PICK t \in Threads : SuxStep(t)
    BY <1>2 DEF SuxNext
  <2>2. ASSUME UNCHANGED early, \E k \in {"U", "X"} : writer_recurse(t, k)
        PROVE  SuxInv'
    BY <2>2, RecurseInv
  <2>3. ASSUME UNCHANGED early,
               \E a \in {t, FOR_IO} : u_lock(t, a) \/ x_lock(t, a)
        PROVE  SuxInv'
    BY <2>3, AcquireInv
  <2>4. CASE \E i \in DOMAIN memo[t] : u_or_x_unlock(t, i)
    BY <2>4, UnlockInv, LastUnlockInv
  <2>5. CASE SuxKeepsOrder(t) /\ UNCHANGED early
    BY <2>2, <2>3, <2>5, SharedInv, GrantedInv, FirstOwnerInv, UpgradeInv,
       RewriteInv, ClaimInv, LastUnlockInv, DropInv DEF SuxKeepsOrder
  <2> QED
    BY <2>1, <2>4, <2>5 DEF SuxStep
<1> QED
  BY <1>1, <1>2

-----------------------------------------------------------------------------
(* SuxInv holds in every state of every behaviour of the latch. *)
THEOREM SuxInvariant == SuxSpec => []SuxInv
<1>1. SuxInit => SuxInv
  BY SuxInitInv
<1>2. SuxInv /\ [SuxNext]_suxvars => SuxInv'
  BY SuxStepInv
<1> QED
  BY <1>1, <1>2, PTL DEF SuxSpec

(* A thread that finds itself in "writer", without holding anything that
   protects the field, owns the underlying lock (have_u_or_x, u_lock,
   x_lock). *)
THEOREM SuxNoFalseRecursion == SuxSpec => []NoFalseRecursion
<1>1. SuxInv => NoFalseRecursion
  <2> SUFFICES ASSUME SuxInv, writer # NONE
               PROVE  mode[writer] \in {"U", "W", "X"}
    BY DEF NoFalseRecursion
  <2>1. writer \in Threads \/ writer = FOR_IO
    BY DEF SuxInv, SuxTypeOK, Owners
  <2>2. CASE writer \in Threads
    BY <2>2, OwnerFacts
  <2>3. CASE writer = FOR_IO
    BY <2>3 DEF SuxInv, SuxTypeOK, IoOk
  <2> QED
    BY <2>1, <2>2, <2>3
<1> QED
  BY <1>1, SuxInvariant, PTL

(* What the memo of a mini-transaction says it holds, it holds, after any
   mixture of recursion, upgrade, downgrade and partial release. *)
THEOREM SuxMemoIsHeld == SuxSpec => []MemoIsHeld
<1>1. SuxInv => MemoIsHeld
  <2> SUFFICES ASSUME SuxInv, NEW t \in Threads, NEW i \in DOMAIN memo[t]
               PROVE  /\ memo[t][i] = "S" => mode[t] = "S"
                      /\ memo[t][i] = "X" => mode[t] = "X"
                      /\ memo[t][i] = "U" => mode[t] \in {"U", "W", "X"}
    BY DEF MemoIsHeld
  <2>1. CASE writer = t
    <3>1. /\ memo[t] \in Seq(Owned) /\ mode[t] \in {"U", "W", "X"}
          /\ i \in 1 .. Len(memo[t]) /\ memo[t][i] \in Owned
      BY <2>1, OwnerFacts, ElementOfSeq
    <3>2. OwnerOk(t)
      BY <2>1 DEF SuxInv, MemoOk
    <3> QED
      BY <3>1, <3>2 DEF OwnerOk, KindsOk, OnlyU, Owned
  <2>2. CASE writer # t
    <3>1. OtherOk(t)
      BY <2>2 DEF SuxInv, MemoOk
    <3>2. memo[t] = <<"S">> => i = 1
      OBVIOUS
    <3>3. memo[t] # <<>>
      OBVIOUS
    <3> QED
      BY <3>1, <3>2, <3>3 DEF OtherOk
  <2> QED
    BY <2>1, <2>2
<1> QED
  BY <1>1, SuxInvariant, PTL

(* The release that makes "recursive" zero calls the function that fits the
   underlying lock (u_or_x_unlock), whatever the order of the releases, unless
   the thread's last X hold went before one of its U holds; then it never
   does. *)
THEOREM SuxReleaseMatchesMode == SuxSpec => []ReleaseMatchesMode
<1>1. SuxInv => ReleaseMatchesMode
  BY DEF SuxInv, CallOk, Busy, ReleaseMatchesMode
<1> QED
  BY <1>1, SuxInvariant, PTL
=============================================================================
