---------------------------- MODULE RedoLogProofs ----------------------------
(***************************************************************************)
(* Proofs about log_write_up_to() and log_write_and_flush() for any number *)
(* of threads, calls and any length of the log.                            *)
(*                                                                         *)
(* The argument.  m_lock says which thread is between acquire() and        *)
(* release() (LockOk), so at most one thread writes and one flushes, and   *)
(* what each is about to claim is backed by the file (WriteOk, LsnOk).  A  *)
(* call without a callback gets past each lock only when its lsn has been  *)
(* reached (SyncOk).  A callback is in one place at a time: the arguments  *)
(* of its caller, a vector of pending ones, or the array of a thread in    *)
(* release() (CarryOk, PendingOk, CallingOk, FiredOk).                     *)
(***************************************************************************)
EXTENDS RedoLog, FiniteSetTheorems, SequenceTheorems, WellFoundedInduction,
        TLAPS

Queueable == Callbacks \cup {DUMMY}

LogTypes ==
    /\ m_value \in [Locks -> Nat]
    /\ m_lock \in [Locks -> Threads \cup {NOBODY}]
    /\ m_pending_callbacks \in [Locks -> Seq(Pending)]
    /\ gpc \in [Threads -> GcPC]
    /\ req \in [Threads -> [lock : Locks, num : Nat, cb : CallbackArgs]]
    /\ m_group_commit_leader \in [Threads -> BOOLEAN]
    /\ callbacks \in [Threads -> Seq(Queueable)]
    /\ ret \in [Threads -> Nat]
    /\ fired \in [Callbacks -> Nat]
    /\ lsn \in Nat /\ write_lsn \in Nat /\ flushed_to_disk_lsn \in Nat
    /\ file \in Nat /\ stable \in Nat
    /\ cpc \in [Threads -> CallPC]
    /\ call \in [Threads -> [kind : CallKinds, lsn : Nat]]
    /\ target \in [Threads -> Nat] /\ syncing \in [Threads -> Nat]
    /\ pending_write_lsn \in [Threads -> Nat]
    /\ calls \in [Threads -> 0..MaxCalls]
    /\ asked \in [Callbacks -> Asked]

Acquiring == {"test", "enter", "sleep", "ACQUIRED", "EXPIRED",
              "CALLBACK_QUEUED"}
Releasing == {"lead", "call", "wake", "released"}

\* Where a thread is in acquire() or release(), and where in its call.
ControlOk(t) ==
    /\ cpc[t] = "idle" => gpc[t] = "-"
    /\ cpc[t] = "flush_lock" =>
         /\ gpc[t] \in Acquiring /\ req[t].lock = flush_lock
         /\ call[t].kind # "write"
    /\ cpc[t] = "write_lock" => gpc[t] \in Acquiring /\ req[t].lock = write_lock
    /\ cpc[t] \in {"latch", "write"} => gpc[t] = "ACQUIRED"
    /\ cpc[t] \in {"write_release", "flush_release"} => gpc[t] \in Releasing
    /\ cpc[t] \in {"flush", "fsync"} =>
         gpc[t] \in {"released", "-"} /\ call[t].kind # "write"

HasWrite(t) ==
    \/ cpc[t] = "write_lock" /\ gpc[t] = "ACQUIRED"
    \/ cpc[t] \in {"latch", "write"}

HasFlush(t) ==
    \/ cpc[t] = "flush_lock" /\ gpc[t] = "ACQUIRED"
    \/ /\ call[t].kind # "write"
       /\ cpc[t] \in {"write_lock", "latch", "write", "write_release", "flush",
                      "fsync"}

LockOk ==
    \A t \in Threads :
        /\ m_lock[write_lock] = t <=> HasWrite(t)
        /\ m_lock[flush_lock] = t <=> HasFlush(t)

LsnOk ==
    /\ m_value[write_lock] = file /\ write_lsn = file /\ file <= lsn
    /\ m_value[flush_lock] = flushed_to_disk_lsn
    /\ flushed_to_disk_lsn <= stable /\ stable <= file

\* What the holder of a lock will claim when it releases it.
WriteOk(t) ==
    /\ cpc[t] = "write" => file < target[t] /\ target[t] <= lsn
    /\ cpc[t] \in {"write_release", "flush"} /\ call[t].kind = "shrink"
         => target[t] <= file
    /\ cpc[t] = "fsync" => target[t] <= syncing[t] /\ syncing[t] <= file

Current(t) == <<t, calls[t]>>
FirstLock(kind) == IF kind = "durable" THEN "flush_lock" ELSE "write_lock"
LockOf(kind) == IF kind = "durable" THEN flush_lock ELSE write_lock

AskedOk ==
    /\ \A c \in Callbacks : asked[c].kind # "shrink" /\ asked[c].lsn <= lsn
    /\ \A t \in Threads, k \in 1 .. MaxCalls :
          k > calls[t] => asked[<<t, k>>].lsn = 0

\* The call a thread is in is the last one it made.
CallOk(t) ==
    cpc[t] # "idle" =>
        /\ calls[t] > 0
        /\ IF call[t].kind = "shrink" THEN asked[Current(t)].lsn = 0
           ELSE asked[Current(t)].kind = call[t].kind

\* A call without a callback that has not been served yet is in its first pass.
FirstPass(t) ==
    LET n == asked[Current(t)].lsn IN
    /\ call[t].lsn = n
    /\ cpc[t] \in {"flush_lock", "write_lock"} =>
          /\ req[t].num = n /\ req[t].cb = NONE /\ gpc[t] # "CALLBACK_QUEUED"
          /\ gpc[t] = "EXPIRED" =>
                n <= IF cpc[t] = "flush_lock" THEN stable ELSE file
    /\ cpc[t] \in {"write", "fsync"} => n <= target[t]
    /\ cpc[t] \in {"write_release", "flush"} => n <= file
    /\ cpc[t] # "flush_release"

SyncOk(t) ==
    /\ \A k \in 1 .. MaxCalls :
          k < calls[t] /\ asked[<<t, k>>].sync => Done(<<t, k>>)
    /\ calls[t] > 0 /\ asked[Current(t)].sync =>
          \/ Done(Current(t))
          \/ cpc[t] # "idle" /\ call[t].kind # "shrink" /\ FirstPass(t)

\* The callbacks that are pending, and those some thread is about to call.
PendingCb(c) ==
    \E l \in Locks : \E i \in 1 .. Len(m_pending_callbacks[l]) :
        m_pending_callbacks[l][i].cb = c
CallingCb(c) ==
    \E u \in Threads : \E i \in 1 .. Len(callbacks[u]) : callbacks[u][i] = c

Carries(t, c) ==
    /\ cpc[t] \in {"flush_lock", "write_lock"}
    /\ gpc[t] \in {"test", "enter", "sleep"} /\ req[t].cb = c

CarryOk ==
    \A t \in Threads, c \in Callbacks : Carries(t, c) =>
        /\ c = Current(t) /\ ~asked[c].sync /\ asked[c].lsn > 0
        /\ req[t].num = asked[c].lsn /\ cpc[t] = FirstLock(asked[c].kind)
        /\ fired[c] = 0 /\ ~PendingCb(c) /\ ~CallingCb(c)

PendingOk ==
    \A l \in Locks : \A i \in 1 .. Len(m_pending_callbacks[l]) :
        LET e == m_pending_callbacks[l][i] IN
        e.cb \in Callbacks =>
            /\ asked[e.cb].lsn > 0 /\ e.num = asked[e.cb].lsn
            /\ ~asked[e.cb].sync /\ l = LockOf(asked[e.cb].kind)
            /\ fired[e.cb] = 0
            /\ \A j \in 1 .. Len(m_pending_callbacks[l]) :
                  m_pending_callbacks[l][j].cb = e.cb => i = j

CallingOk ==
    \A u \in Threads : \A i \in 1 .. Len(callbacks[u]) :
        LET c == callbacks[u][i] IN
        c \in Callbacks =>
            /\ asked[c].lsn > 0 /\ ~asked[c].sync
            /\ fired[c] = 0 /\ Done(c) /\ ~PendingCb(c)
            /\ \A w \in Threads : \A j \in 1 .. Len(callbacks[w]) :
                  callbacks[w][j] = c => w = u /\ j = i

FiredOk ==
    \A c \in Callbacks :
        fired[c] > 0 => /\ fired[c] = 1 /\ Done(c)
                        /\ asked[c].lsn > 0 /\ ~asked[c].sync

LogControl ==
    /\ LogTypes
    /\ \A t \in Threads : ControlOk(t)
    /\ LockOk /\ LsnOk /\ AskedOk
    /\ \A t \in Threads : WriteOk(t)
    /\ \A t \in Threads : CallOk(t)

LogInv ==
    /\ LogControl
    /\ \A t \in Threads : SyncOk(t)
    /\ CarryOk /\ PendingOk /\ CallingOk /\ FiredOk

-----------------------------------------------------------------------------
(* Sequences. *)

\* A nonempty set of natural numbers has a least element.
LEMMA LeastNat ==
    ASSUME NEW T \in SUBSET Nat, T # {}
    PROVE  \E x \in T : \A y \in T : x <= y
<1> DEFINE R == OpToRel(<, Nat)
<1>1. IsWellFoundedOn(R, Nat)
  BY NatLessThanWellFounded
<1>2. PICK x \in T : \A y \in T : ~(<<y, x>> \in R)
  <2> HIDE DEF R
  <2> QED
    BY <1>1, WFMin
<1>3. \A y \in T : ~(y < x)
  BY <1>2 DEF OpToRel
<1> QED
  BY <1>3

\* The recursion in Only() defines a function.
Walk(f, s, S, n) ==
    f = [i \in 0 .. n |-> IF i = 0 THEN <<>>
                          ELSE IF s[i] \in S THEN Append(f[i - 1], s[i])
                          ELSE f[i - 1]]

LEMMA WalkExists ==
    ASSUME NEW s, NEW S
    PROVE  \A n \in Nat : \E f : Walk(f, s, S, n)
<1> DEFINE T == {n \in Nat : ~ \E f : Walk(f, s, S, n)}
<1> SUFFICES ASSUME T # {} PROVE FALSE
  OBVIOUS
<1>1. T \in SUBSET Nat
  OBVIOUS
<1>2. PICK n \in T : \A k \in T : n <= k
  <2> HIDE DEF T
  <2> QED
    BY <1>1, LeastNat
<1>3. n \in Nat /\ ~ \E f : Walk(f, s, S, n)
  OBVIOUS
<1>4. CASE n = 0
  <2> DEFINE f == [i \in 0 .. 0 |-> <<>>]
  <2>1. Walk(f, s, S, 0)
    BY DEF Walk
  <2> QED
    BY <1>3, <1>4, <2>1
<1>5. CASE n # 0
  <2>1. n - 1 \in Nat /\ n - 1 \notin T
    <3> HIDE DEF T
    <3> QED
      BY <1>2, <1>3, <1>5
  <2>2. PICK g : Walk(g, s, S, n - 1)
    BY <2>1
  <2> DEFINE Next(h, i) == IF i = 0 THEN <<>>
                           ELSE IF s[i] \in S THEN Append(h[i - 1], s[i])
                           ELSE h[i - 1]
             last == Next(g, n)
             f == [i \in 0 .. n |-> IF i = n THEN last ELSE g[i]]
  <2> HIDE DEF last
  <2>3. \A i \in 0 .. n - 1 : g[i] = Next(g, i)
    BY <2>2 DEF Walk
  <2>4. \A i \in 0 .. n - 1 : f[i] = g[i]
    BY <1>3
  <2>5. ASSUME NEW i \in 0 .. n PROVE f[i] = Next(f, i)
    <3>1. i # 0 => f[i - 1] = g[i - 1]
      BY <1>3, <2>4
    <3>2. Next(f, i) = Next(g, i)
      <4> HIDE DEF f
      <4> QED
        BY <3>1
    <3>3. CASE i = n
      <4>1. f[i] = last
        BY <1>3, <3>3
      <4> QED
        BY <3>2, <3>3, <4>1 DEF last
    <3>4. CASE i # n
      <4>1. i \in 0 .. n - 1
        BY <1>3, <3>4
      <4> HIDE DEF f
      <4> QED
        BY <2>3, <2>4, <3>2, <4>1
    <3> QED
      BY <3>3, <3>4
  <2>6. f = [i \in 0 .. n |-> Next(f, i)]
    <3>1. f = [i \in 0 .. n |-> f[i]]
      OBVIOUS
    <3> HIDE DEF f, Next
    <3> QED
      BY <2>5, <3>1
  <2>7. Walk(f, s, S, n)
    <3> HIDE DEF f
    <3> QED
      BY <2>6 DEF Walk
  <2> HIDE DEF f
  <2> QED
    BY <1>3, <2>7
<1> QED
  BY <1>4, <1>5

LEMMA OnlyDef ==
    ASSUME NEW s, NEW S, Len(s) \in Nat
    PROVE  \E f : Only(s, S) = f[Len(s)] /\ Walk(f, s, S, Len(s))
<1> DEFINE F == CHOOSE f : Walk(f, s, S, Len(s))
<1>1. Walk(F, s, S, Len(s))
  BY WalkExists
<1>2. Only(s, S) = F[Len(s)]
  BY DEF Only, Walk
<1> HIDE DEF F
<1> QED
  BY <1>1, <1>2

\* o takes elements of s that are in S, each place of s at most once.
Picked(o, s, S) ==
    \E m \in [1 .. Len(o) -> 1 .. Len(s)] :
       /\ \A k \in 1 .. Len(o) : o[k] = s[m[k]] /\ s[m[k]] \in S
       /\ \A k, j \in 1 .. Len(o) : m[k] = m[j] => k = j

\* What Only() returns: elements of s that are in S, none of them twice unless
\* s has it twice.
LEMMA OnlyFacts ==
    ASSUME NEW X, NEW s \in Seq(X), NEW S
    PROVE  Only(s, S) \in Seq(X) /\ Picked(Only(s, S), s, S)
<1> DEFINE n == Len(s)
<1>1. n \in Nat /\ \A i \in 1 .. n : s[i] \in X
  BY ElementOfSeq, LenProperties
<1>2. PICK f : Only(s, S) = f[n] /\ Walk(f, s, S, n)
  BY <1>1, OnlyDef
<1> HIDE DEF n
<1>3. f[0] = <<>>
  BY <1>1, <1>2 DEF Walk
<1>4. \A i \in 1 .. n : f[i] = IF s[i] \in S THEN Append(f[i - 1], s[i])
                               ELSE f[i - 1]
  <2> SUFFICES ASSUME NEW i \in 1 .. n
               PROVE  f[i] = IF s[i] \in S THEN Append(f[i - 1], s[i])
                             ELSE f[i - 1]
    OBVIOUS
  <2>1. i \in 0 .. n /\ i # 0
    BY <1>1
  <2>2. f[i] = IF i = 0 THEN <<>>
               ELSE IF s[i] \in S THEN Append(f[i - 1], s[i])
               ELSE f[i - 1]
    BY <1>2, <2>1, Zenon DEF Walk
  <2> QED
    BY <2>1, <2>2
<1> DEFINE Ok(i) ==
             /\ f[i] \in Seq(X)
             /\ \E m \in [1 .. Len(f[i]) -> 1 .. i] :
                   /\ \A k \in 1 .. Len(f[i]) :
                         f[i][k] = s[m[k]] /\ s[m[k]] \in S
                   /\ \A k, j \in 1 .. Len(f[i]) : m[k] = m[j] => k = j
           T == {i \in 0 .. n : ~Ok(i)}
<1>5. Ok(0)
  <2>1. f[0] \in Seq(X) /\ Len(f[0]) = 0
    BY <1>3, EmptySeq
  <2>2. [k \in {} |-> 0] \in [1 .. 0 -> 1 .. 0]
    OBVIOUS
  <2> QED
    BY <2>1, <2>2
<1>6. ASSUME NEW i \in 1 .. n, Ok(i - 1) PROVE Ok(i)
  <2>1. i - 1 \in Nat /\ i \in Nat
    BY <1>1
  <2>2. CASE s[i] \notin S
    <3>1. f[i] = f[i - 1]
      BY <1>4, <2>2
    <3>2. PICK m \in [1 .. Len(f[i - 1]) -> 1 .. i - 1] :
            /\ \A k \in 1 .. Len(f[i - 1]) :
                  f[i - 1][k] = s[m[k]] /\ s[m[k]] \in S
            /\ \A k, j \in 1 .. Len(f[i - 1]) : m[k] = m[j] => k = j
      BY <1>6
    <3>3. m \in [1 .. Len(f[i]) -> 1 .. i]
      BY <2>1, <3>1
    <3>4. f[i] \in Seq(X)
      BY <1>6, <3>1
    <3>5. /\ \A k \in 1 .. Len(f[i]) : f[i][k] = s[m[k]] /\ s[m[k]] \in S
          /\ \A k, j \in 1 .. Len(f[i]) : m[k] = m[j] => k = j
      BY <3>1, <3>2
    <3> QED
      BY <3>3, <3>4, <3>5
  <2>3. CASE s[i] \in S
    <3>1. PICK g : g = f[i - 1]
      OBVIOUS
    <3>2. g \in Seq(X) /\ s[i] \in X /\ f[i] = Append(g, s[i])
      BY <1>1, <1>4, <1>6, <2>3, <3>1
    <3>3. /\ f[i] \in Seq(X) /\ Len(f[i]) = Len(g) + 1 /\ Len(g) \in Nat
          /\ \A k \in 1 .. Len(g) : f[i][k] = g[k]
          /\ f[i][Len(g) + 1] = s[i]
      BY <3>2, AppendProperties, LenProperties
    <3>4. PICK m \in [1 .. Len(g) -> 1 .. i - 1] :
            /\ \A k \in 1 .. Len(g) : g[k] = s[m[k]] /\ s[m[k]] \in S
            /\ \A k, j \in 1 .. Len(g) : m[k] = m[j] => k = j
      BY <1>6, <3>1
    <3>5. PICK q : q = Len(g)
      OBVIOUS
    <3> DEFINE p == [k \in 1 .. q + 1 |-> IF k = q + 1 THEN i ELSE m[k]]
    <3>6. q \in Nat /\ q + 1 \in Nat /\ \A k \in 1 .. q : m[k] \in 1 .. i - 1
      BY <3>3, <3>4, <3>5
    <3>7. p \in [1 .. q + 1 -> 1 .. i]
      BY <2>1, <3>6
    <3>8. /\ \A k \in 1 .. q : p[k] = m[k]
          /\ p[q + 1] = i
      BY <3>6
    <3> HIDE DEF p
    <3>9. \A k \in 1 .. q + 1 : f[i][k] = s[p[k]] /\ s[p[k]] \in S
      <4>1. ASSUME NEW k \in 1 .. q PROVE f[i][k] = s[p[k]] /\ s[p[k]] \in S
        BY <3>3, <3>4, <3>5, <3>8
      <4>2. f[i][q + 1] = s[p[q + 1]] /\ s[p[q + 1]] \in S
        BY <2>3, <3>3, <3>5, <3>8
      <4> QED
        BY <3>6, <4>1, <4>2
    <3>10. \A k, j \in 1 .. q + 1 : p[k] = p[j] => k = j
      <4>1. ASSUME NEW k \in 1 .. q PROVE p[k] # p[q + 1]
        BY <2>1, <3>6, <3>8
      <4>2. ASSUME NEW k \in 1 .. q, NEW j \in 1 .. q, p[k] = p[j]
            PROVE  k = j
        BY <3>4, <3>5, <3>8, <4>2
      <4> QED
        BY <3>6, <4>1, <4>2
    <3>11. /\ p \in [1 .. Len(f[i]) -> 1 .. i]
           /\ \A k \in 1 .. Len(f[i]) : f[i][k] = s[p[k]] /\ s[p[k]] \in S
           /\ \A k, j \in 1 .. Len(f[i]) : p[k] = p[j] => k = j
      BY <3>3, <3>5, <3>7, <3>9, <3>10
    <3> QED
      BY <3>3, <3>11
  <2> QED
    BY <2>2, <2>3
<1>7. \A i \in 0 .. n : Ok(i)
  <2> SUFFICES ASSUME T # {} PROVE FALSE
    OBVIOUS
  <2>1. T \in SUBSET Nat
    BY <1>1
  <2>2. PICK i \in T : \A k \in T : i <= k
    <3> HIDE DEF T
    <3> QED
      BY <2>1, LeastNat
  <2>3. i \in 0 .. n /\ ~Ok(i)
    BY <2>2
  <2> HIDE DEF Ok
  <2>4. i \in 1 .. n
    BY <1>1, <1>5, <2>3
  <2>5. i - 1 \in 0 .. n /\ i - 1 < i /\ i \in Nat
    BY <1>1, <2>4
  <2>6. Ok(i - 1)
    <3>1. i - 1 \in T => i <= i - 1
      <4> HIDE DEF T
      <4> QED
        BY <2>2
    <3> QED
      BY <2>5, <3>1
  <2> QED
    BY <1>6, <2>3, <2>4, <2>6
<1>8. Ok(n)
  <2> HIDE DEF Ok
  <2> QED
    BY <1>1, <1>7
<1>9. Only(s, S) \in Seq(X)
  BY <1>2, <1>8 DEF n
<1>10. Picked(Only(s, S), s, S)
  BY <1>2, <1>8 DEF n, Picked
<1> QED
  BY <1>9, <1>10

-----------------------------------------------------------------------------
(* Callbacks. *)

LEMMA CbFacts ==
    /\ NONE \notin Callbacks /\ DUMMY \notin Callbacks /\ NONE # DUMMY
    /\ write_lock \in Locks /\ flush_lock \in Locks
    /\ \A l \in Locks : l # flush_lock => l = write_lock
    /\ \A c \in Callbacks : /\ c[1] \in Threads /\ c[2] \in 1 .. MaxCalls
                            /\ c = <<c[1], c[2]>>
    /\ \A t \in Threads, k \in 1 .. MaxCalls :
          <<t, k>> \in Callbacks /\ <<t, k>>[1] = t /\ <<t, k>>[2] = k
<1>1. NONE \notin Callbacks /\ DUMMY \notin Callbacks /\ NONE # DUMMY
  <2>1. Len(NONE) = 0 /\ Len(DUMMY) = 1 /\ \A c \in Callbacks : Len(c) = 2
    BY DEF NONE, DUMMY, Callbacks
  <2> QED
    BY <2>1
<1>2. write_lock \in Locks /\ flush_lock \in Locks
  BY RedoLogAssumption
<1>3. \A l \in Locks : l # flush_lock => l = write_lock
  BY RedoLogAssumption
<1>4. \A c \in Callbacks : /\ c[1] \in Threads /\ c[2] \in 1 .. MaxCalls
                           /\ c = <<c[1], c[2]>>
  BY DEF Callbacks
<1>5. \A t \in Threads, k \in 1 .. MaxCalls :
          <<t, k>> \in Callbacks /\ <<t, k>>[1] = t /\ <<t, k>>[2] = k
  BY DEF Callbacks
<1> QED
  BY <1>1, <1>2, <1>3, <1>4, <1>5

\* How often a sequence has an element.
Times(s, c) == Cardinality({i \in DOMAIN s : s[i] = c})
Absent(s, c) == \A i \in 1 .. Len(s) : s[i] # c
Once(s, c) ==
    \E i \in 1 .. Len(s) : s[i] = c /\ \A j \in 1 .. Len(s) : s[j] = c => i = j

LEMMA TimesFacts ==
    ASSUME NEW X, NEW s \in Seq(X), NEW c
    PROVE  /\ Times(s, c) \in Nat
           /\ Absent(s, c) => Times(s, c) = 0
           /\ Once(s, c) => Times(s, c) = 1
<1> DEFINE I == {i \in DOMAIN s : s[i] = c}
<1>1. DOMAIN s = 1 .. Len(s) /\ Len(s) \in Nat
  BY LenProperties
<1>2. IsFiniteSet(1 .. Len(s))
  BY <1>1, FS_Interval
<1>3. IsFiniteSet(I)
  <2>1. I \subseteq 1 .. Len(s)
    BY <1>1
  <2> HIDE DEF I
  <2> QED
    BY <1>2, <2>1, FS_Subset
<1>4. Times(s, c) \in Nat
  BY <1>3, FS_CardinalityType DEF Times
<1>5. ASSUME Absent(s, c) PROVE Times(s, c) = 0
  <2>1. I = {}
    BY <1>1, <1>5 DEF Absent
  <2> QED
    BY <2>1, FS_EmptySet DEF Times
<1>6. ASSUME Once(s, c) PROVE Times(s, c) = 1
  <2>1. PICK i \in 1 .. Len(s) :
               s[i] = c /\ \A j \in 1 .. Len(s) : s[j] = c => i = j
    BY <1>6 DEF Once
  <2>2. I = {i}
    BY <1>1, <2>1
  <2> QED
    BY <2>2, FS_Singleton DEF Times
<1> QED
  BY <1>4, <1>5, <1>6

LEMMA CallAllFacts ==
    ASSUME NEW X, NEW s \in Seq(X), CallAll(s),
           fired \in [Callbacks -> Nat]
    PROVE  /\ fired' \in [Callbacks -> Nat]
           /\ \A c \in Callbacks :
                /\ Absent(s, c) => fired'[c] = fired[c]
                /\ Once(s, c) => fired'[c] = fired[c] + 1
<1>1. fired' = [c \in Callbacks |-> fired[c] + Times(s, c)]
  BY DEF CallAll, Times
<1>2. \A c \in Callbacks : /\ Times(s, c) \in Nat
                           /\ Absent(s, c) => Times(s, c) = 0
                           /\ Once(s, c) => Times(s, c) = 1
  BY TimesFacts
<1> QED
  BY <1>1, <1>2

\* do_completion_callback() of a single argument.
LEMMA CallOneFacts ==
    ASSUME NEW x \in CallbackArgs, CallAll(<<x>>),
           fired \in [Callbacks -> Nat]
    PROVE  /\ fired' \in [Callbacks -> Nat]
           /\ \A c \in Callbacks :
                 fired'[c] = IF c = x THEN fired[c] + 1 ELSE fired[c]
<1>1. <<x>> \in Seq(CallbackArgs) /\ Len(<<x>>) = 1 /\ <<x>>[1] = x
  OBVIOUS
<1>2. PICK s : s = <<x>>
  OBVIOUS
<1>3. s \in Seq(CallbackArgs) /\ Len(s) = 1 /\ s[1] = x /\ CallAll(s)
  BY <1>1, <1>2
<1>4. /\ fired' \in [Callbacks -> Nat]
      /\ \A c \in Callbacks : /\ Absent(s, c) => fired'[c] = fired[c]
                              /\ Once(s, c) => fired'[c] = fired[c] + 1
  BY <1>3, CallAllFacts
<1>5. \A c : IF c = x THEN Once(s, c) ELSE Absent(s, c)
  BY <1>3 DEF Once, Absent
<1> QED
  BY <1>4, <1>5

LEMMA SplitFacts ==
    ASSUME NEW X, NEW s \in Seq(X), NEW f \in 0 .. Len(s)
    PROVE  LET a == SubSeq(s, 1, f)
               b == SubSeq(s, f + 1, Len(s))
           IN  /\ a \in Seq(X) /\ b \in Seq(X)
               /\ \A c : Absent(s, c) => Absent(a, c) /\ Absent(b, c)
               /\ \A c : Once(s, c) => \/ Once(a, c) /\ Absent(b, c)
                                       \/ Absent(a, c) /\ Once(b, c)
<1>1. PICK n : n = Len(s)
  OBVIOUS
<1>2. n \in Nat /\ \A i \in 1 .. n : s[i] \in X
  BY <1>1, LenProperties, ElementOfSeq
<1>3. PICK a : a = SubSeq(s, 1, f)
  OBVIOUS
<1>4. PICK b : b = SubSeq(s, f + 1, n)
  OBVIOUS
<1>5. f \in Nat /\ f <= n
  BY <1>1, <1>2
<1>6. /\ a \in Seq(X) /\ Len(a) = f
      /\ \A i \in 1 .. f : a[i] = s[i]
  <2>1. \A i \in 1 .. f : s[i] \in X
    BY <1>2, <1>5
  <2>2. /\ a \in Seq(X) /\ Len(a) = IF 1 <= f THEN f - 1 + 1 ELSE 0
        /\ \A i \in 1 .. f - 1 + 1 : a[i] = s[1 + i - 1]
    BY <1>3, <1>5, <2>1, SubSeqProperties
  <2>3. f - 1 + 1 = f /\ \A i \in 1 .. f : 1 + i - 1 = i
    BY <1>5
  <2> QED
    BY <1>5, <2>2, <2>3
<1>7. /\ b \in Seq(X) /\ Len(b) = n - f
      /\ \A i \in 1 .. n - f : b[i] = s[f + i]
  <2>1. \A i \in f + 1 .. n : s[i] \in X
    BY <1>2, <1>5
  <2>2. /\ b \in Seq(X) /\ Len(b) = IF f + 1 <= n THEN n - (f + 1) + 1 ELSE 0
        /\ \A i \in 1 .. n - (f + 1) + 1 : b[i] = s[f + 1 + i - 1]
    BY <1>2, <1>4, <1>5, <2>1, SubSeqProperties
  <2>3. n - (f + 1) + 1 = n - f /\ \A i \in 1 .. n - f : f + 1 + i - 1 = f + i
    BY <1>2, <1>5
  <2> QED
    BY <1>2, <1>5, <2>2, <2>3
<1>8. ASSUME NEW c, Absent(s, c) PROVE Absent(a, c) /\ Absent(b, c)
  BY <1>1, <1>2, <1>5, <1>6, <1>7, <1>8 DEF Absent
<1>9. ASSUME NEW c, Once(s, c)
      PROVE  \/ Once(a, c) /\ Absent(b, c)
             \/ Absent(a, c) /\ Once(b, c)
  <2>1. PICK i \in 1 .. n : s[i] = c /\ \A j \in 1 .. n : s[j] = c => i = j
    BY <1>1, <1>9 DEF Once
  <2>2. CASE i <= f
    <3>1. Once(a, c)
      <4>1. i \in 1 .. f /\ a[i] = c
        BY <1>2, <1>5, <1>6, <2>1, <2>2
      <4>2. ASSUME NEW j \in 1 .. f, a[j] = c PROVE i = j
        <5>1. j \in 1 .. n
          BY <1>2, <1>5
        <5> QED
          BY <1>6, <2>1, <4>2, <5>1
      <4> QED
        BY <1>6, <4>1, <4>2 DEF Once
    <3>2. Absent(b, c)
      BY <1>2, <1>5, <1>7, <2>1, <2>2 DEF Absent
    <3> QED
      BY <3>1, <3>2
  <2>3. CASE i > f
    <3>1. Absent(a, c)
      BY <1>2, <1>5, <1>6, <2>1, <2>3 DEF Absent
    <3>2. i \in Nat /\ i - f \in 1 .. n - f /\ f + (i - f) = i
      BY <1>2, <1>5, <2>3
    <3>3. b[i - f] = c
      BY <1>7, <2>1, <3>2
    <3>4. ASSUME NEW j \in 1 .. n - f, b[j] = c PROVE i - f = j
      BY <1>2, <1>5, <1>7, <2>1, <3>4
    <3>5. Once(b, c)
      BY <1>7, <3>2, <3>3, <3>4 DEF Once
    <3> QED
      BY <3>1, <3>5
  <2> QED
    BY <1>2, <1>5, <2>2, <2>3
<1> QED
  BY <1>1, <1>3, <1>4, <1>6, <1>7, <1>8, <1>9

\* The callback c is pending for at most one request.
Single(P, c) ==
    \A i, j \in 1 .. Len(P) : P[i].cb = c /\ P[j].cb = c => i = j

Cbs(due) == [i \in DOMAIN due |-> due[i].cb]

LEMMA DueFacts ==
    ASSUME NEW l \in Locks, NEW num \in Nat,
           m_pending_callbacks[l] \in Seq(Pending)
    PROVE  LET P == m_pending_callbacks[l]
               s == Cbs(Due(l, num))
           IN  /\ s \in Seq(Queueable)
               /\ \A c : \/ Absent(s, c)
                         \/ \E i \in 1 .. Len(P) : P[i].cb = c /\ P[i].num <= num
               /\ \A c : Single(P, c) => Absent(s, c) \/ Once(s, c)
<1>1. PICK P : P = m_pending_callbacks[l]
  OBVIOUS
<1>2. PICK S : S = {c \in ToSet(P) : c.num <= num}
  OBVIOUS
<1>3. PICK d : d = Due(l, num) /\ d = Only(P, S)
  BY <1>1, <1>2 DEF Due
<1>4. P \in Seq(Pending)
  BY <1>1
<1>5. /\ d \in Seq(Pending)
      /\ \E m \in [1 .. Len(d) -> 1 .. Len(P)] :
            /\ \A k \in 1 .. Len(d) : d[k] = P[m[k]] /\ P[m[k]] \in S
            /\ \A k, j \in 1 .. Len(d) : m[k] = m[j] => k = j
  <2>1. Only(P, S) \in Seq(Pending) /\ Picked(Only(P, S), P, S)
    BY <1>4, OnlyFacts
  <2>2. d \in Seq(Pending) /\ Picked(d, P, S)
    BY <1>3, <2>1
  <2> QED
    BY <2>2 DEF Picked
<1>6. PICK m \in [1 .. Len(d) -> 1 .. Len(P)] :
            /\ \A k \in 1 .. Len(d) : d[k] = P[m[k]] /\ P[m[k]] \in S
            /\ \A k, j \in 1 .. Len(d) : m[k] = m[j] => k = j
  BY <1>5
<1>7. PICK n : n = Len(d)
  OBVIOUS
<1>8. PICK s : s = Cbs(d)
  OBVIOUS
<1>9. n \in Nat /\ DOMAIN d = 1 .. n /\ \A i \in 1 .. n : d[i] \in Pending
  BY <1>5, <1>7, LenProperties, ElementOfSeq
<1>10. s = [i \in 1 .. n |-> d[i].cb] /\ \A i \in 1 .. n : d[i].cb \in Queueable
  BY <1>8, <1>9 DEF Cbs, Pending, Queueable
<1>11. s \in Seq(Queueable) /\ Len(s) = n /\ \A i \in 1 .. n : s[i] = d[i].cb
  <2>1. \A i \in 1 .. n : s[i] = d[i].cb
    BY <1>10
  <2>2. s \in [1 .. n -> Queueable]
    BY <1>10
  <2> QED
    BY <1>9, <2>1, <2>2
<1>12. \A k \in 1 .. n : m[k] \in 1 .. Len(P) /\ d[k] = P[m[k]] /\ P[m[k]].num <= num
  BY <1>2, <1>6, <1>7
<1>13. ASSUME NEW c, ~Absent(s, c)
       PROVE  \E i \in 1 .. Len(P) : P[i].cb = c /\ P[i].num <= num
  <2>1. PICK k \in 1 .. n : d[k].cb = c
    BY <1>11, <1>13 DEF Absent
  <2> QED
    BY <1>12, <2>1
<1>14. ASSUME NEW c, Single(P, c), ~Absent(s, c) PROVE Once(s, c)
  <2>1. PICK k \in 1 .. n : d[k].cb = c
    BY <1>11, <1>14 DEF Absent
  <2>2. ASSUME NEW j \in 1 .. n, s[j] = c PROVE k = j
    <3>1. P[m[k]].cb = c /\ P[m[j]].cb = c
      BY <1>11, <1>12, <2>1, <2>2
    <3>2. m[k] = m[j]
      BY <1>12, <1>14, <3>1 DEF Single
    <3> QED
      BY <1>6, <1>7, <3>2
  <2> QED
    BY <1>11, <2>1, <2>2 DEF Once
<1> QED
  BY <1>1, <1>3, <1>8, <1>11, <1>13, <1>14

LEMMA NotDueFacts ==
    ASSUME NEW l \in Locks, NEW num \in Nat,
           m_pending_callbacks[l] \in Seq(Pending)
    PROVE  LET P == m_pending_callbacks[l]
               Q == NotDue(l, num)
           IN  /\ Q \in Seq(Pending)
               /\ StillPending(l, num) \in Nat
               /\ \A k \in 1 .. Len(Q) :
                     \E i \in 1 .. Len(P) : Q[k] = P[i] /\ P[i].num > num
               /\ \A c : Single(P, c) => Single(Q, c)
<1>1. PICK P : P = m_pending_callbacks[l]
  OBVIOUS
<1>2. PICK S : S = {c \in ToSet(P) : c.num > num}
  OBVIOUS
<1>3. PICK Q : Q = NotDue(l, num) /\ Q = Only(P, S)
  BY <1>1, <1>2 DEF NotDue
<1>4. P \in Seq(Pending)
  BY <1>1
<1>5. /\ Q \in Seq(Pending)
      /\ \E m \in [1 .. Len(Q) -> 1 .. Len(P)] :
            /\ \A k \in 1 .. Len(Q) : Q[k] = P[m[k]] /\ P[m[k]] \in S
            /\ \A k, j \in 1 .. Len(Q) : m[k] = m[j] => k = j
  <2>1. Only(P, S) \in Seq(Pending) /\ Picked(Only(P, S), P, S)
    BY <1>4, OnlyFacts
  <2>2. Q \in Seq(Pending) /\ Picked(Q, P, S)
    BY <1>3, <2>1
  <2> QED
    BY <2>2 DEF Picked
<1>6. PICK m \in [1 .. Len(Q) -> 1 .. Len(P)] :
            /\ \A k \in 1 .. Len(Q) : Q[k] = P[m[k]] /\ P[m[k]] \in S
            /\ \A k, j \in 1 .. Len(Q) : m[k] = m[j] => k = j
  BY <1>5
<1>7. \A k \in 1 .. Len(Q) : m[k] \in 1 .. Len(P) /\ P[m[k]].num > num
  BY <1>2, <1>6
<1>8. ASSUME NEW c, Single(P, c) PROVE Single(Q, c)
  <2> SUFFICES ASSUME NEW k \in 1 .. Len(Q), NEW j \in 1 .. Len(Q),
                      Q[k].cb = c, Q[j].cb = c
               PROVE  k = j
    BY DEF Single
  <2>1. P[m[k]].cb = c /\ P[m[j]].cb = c
    BY <1>6
  <2>2. m[k] = m[j]
    BY <1>7, <1>8, <2>1 DEF Single
  <2> QED
    BY <1>6, <2>2
<1>9. StillPending(l, num) \in Nat
  <2>1. Q # <<>> => Q[1] \in Pending
    BY <1>5
  <2>2. Q # <<>> => Q[1].num \in Nat
    BY <2>1 DEF Pending
  <2> QED
    BY <1>3, <2>2 DEF StillPending
<1>10. ASSUME NEW k \in 1 .. Len(Q)
       PROVE  \E i \in 1 .. Len(P) : Q[k] = P[i] /\ P[i].num > num
  BY <1>6, <1>7
<1> QED
  BY <1>1, <1>3, <1>5, <1>8, <1>9, <1>10

\* The callback c is pending at l for a request that num covers.
DueCb(l, num, c) ==
    \E i \in 1 .. Len(m_pending_callbacks[l]) :
        m_pending_callbacks[l][i].cb = c /\ m_pending_callbacks[l][i].num <= num

\* What release() does with each callback: nothing, it calls it, or it keeps it
\* in the array.
CallbacksReleased(t, l, num) ==
    /\ \A k \in Locks :
          k # l => m_pending_callbacks'[k] = m_pending_callbacks[k]
    /\ \A k \in 1 .. Len(m_pending_callbacks'[l]) :
          \E i \in 1 .. Len(m_pending_callbacks[l]) :
             /\ m_pending_callbacks'[l][k] = m_pending_callbacks[l][i]
             /\ m_pending_callbacks[l][i].num > num
    /\ \A c : Single(m_pending_callbacks[l], c)
              => Single(m_pending_callbacks'[l], c)
    /\ \A u \in Threads : u # t => callbacks'[u] = callbacks[u]
    /\ \A c \in Callbacks : Single(m_pending_callbacks[l], c) =>
          \/ Absent(callbacks'[t], c) /\ fired'[c] = fired[c]
          \/ /\ DueCb(l, num, c) /\ Absent(callbacks'[t], c)
             /\ fired'[c] = fired[c] + 1
          \/ /\ DueCb(l, num, c) /\ Once(callbacks'[t], c)
             /\ fired'[c] = fired[c]

\* What release() does.
LEMMA ReleaseFacts ==
    ASSUME LogTypes, NEW t \in Threads, NEW l \in Locks, NEW num \in Nat,
           release(t, l, num)
    PROVE  /\ m_value' = [m_value EXCEPT ![l] = num]
           /\ m_lock' = [m_lock EXCEPT ![l] = NOBODY]
           /\ req' = req
           /\ m_pending_callbacks' \in [Locks -> Seq(Pending)]
           /\ m_group_commit_leader' \in [Threads -> BOOLEAN]
           /\ callbacks' \in [Threads -> Seq(Queueable)]
           /\ ret' \in [Threads -> Nat]
           /\ fired' \in [Callbacks -> Nat]
           /\ \E pc \in Releasing : gpc' = [gpc EXCEPT ![t] = pc]
           /\ CallbacksReleased(t, l, num)
<1>1. m_pending_callbacks[l] \in Seq(Pending)
  BY DEF LogTypes
<1>2. PICK s : s = Cbs(Due(l, num))
  OBVIOUS
<1>3. /\ s \in Seq(Queueable)
      /\ \A c : Absent(s, c) \/ DueCb(l, num, c)
      /\ \A c : Single(m_pending_callbacks[l], c) => Absent(s, c) \/ Once(s, c)
  BY <1>1, <1>2, DueFacts DEF DueCb
<1>4. PICK f : f = IF Len(s) > CALLBACKS THEN CALLBACKS ELSE Len(s)
  OBVIOUS
<1>5. Len(s) \in Nat /\ f \in 0 .. Len(s)
  BY <1>3, <1>4, LenProperties, GroupCommitAssumption
<1>6. PICK a : a = SubSeq(s, 1, f)
  OBVIOUS
<1>7. PICK b : b = SubSeq(s, f + 1, Len(s))
  OBVIOUS
<1>8. /\ a \in Seq(Queueable) /\ b \in Seq(Queueable)
      /\ \A c : Absent(s, c) => Absent(a, c) /\ Absent(b, c)
      /\ \A c : Once(s, c) => \/ Once(a, c) /\ Absent(b, c)
                              \/ Absent(a, c) /\ Once(b, c)
  BY <1>3, <1>5, <1>6, <1>7, SplitFacts
<1>9. PICK lead, list :
        /\ m_lock' = [m_lock EXCEPT ![l] = NOBODY]
        /\ m_value' = [m_value EXCEPT ![l] = num]
        /\ m_pending_callbacks' =
             [m_pending_callbacks EXCEPT ![l] = NotDue(l, num)]
        /\ m_group_commit_leader' =
             [w \in Threads |-> w \in lead \/ m_group_commit_leader[w]]
        /\ CallAll(b)
        /\ callbacks' = [callbacks EXCEPT ![t] = a]
        /\ ret' = [ret EXCEPT ![t] = StillPending(l, num)]
        /\ Goto(t, Stage(lead # {}, a, list))
        /\ req' = req
  BY <1>2, <1>4, <1>6, <1>7 DEF release, Cbs
<1>10. /\ NotDue(l, num) \in Seq(Pending)
       /\ StillPending(l, num) \in Nat
       /\ \A k \in 1 .. Len(NotDue(l, num)) :
            \E i \in 1 .. Len(m_pending_callbacks[l]) :
               /\ NotDue(l, num)[k] = m_pending_callbacks[l][i]
               /\ m_pending_callbacks[l][i].num > num
       /\ \A c : Single(m_pending_callbacks[l], c) => Single(NotDue(l, num), c)
  BY <1>1, NotDueFacts
<1>11. m_pending_callbacks'[l] = NotDue(l, num)
  BY <1>9 DEF LogTypes
<1>12. /\ m_pending_callbacks' \in [Locks -> Seq(Pending)]
       /\ \A k \in Locks :
             k # l => m_pending_callbacks'[k] = m_pending_callbacks[k]
  BY <1>9, <1>10 DEF LogTypes
<1>13. m_group_commit_leader' \in [Threads -> BOOLEAN]
  <2>1. \A w \in Threads : (w \in lead \/ m_group_commit_leader[w]) \in BOOLEAN
    BY Zenon
  <2> QED
    BY <1>9, <2>1, Zenon
<1>14. /\ callbacks' \in [Threads -> Seq(Queueable)] /\ callbacks'[t] = a
       /\ \A u \in Threads : u # t => callbacks'[u] = callbacks[u]
  BY <1>8, <1>9 DEF LogTypes
<1>15. ret' \in [Threads -> Nat]
  BY <1>9, <1>10 DEF LogTypes
<1>16. /\ fired' \in [Callbacks -> Nat]
       /\ \A c \in Callbacks : /\ Absent(b, c) => fired'[c] = fired[c]
                               /\ Once(b, c) => fired'[c] = fired[c] + 1
  BY <1>8, <1>9, CallAllFacts DEF LogTypes
<1>17. \E pc \in Releasing : gpc' = [gpc EXCEPT ![t] = pc]
  <2>1. Stage(lead # {}, a, list) \in Releasing
    BY DEF Stage, Releasing
  <2> QED
    BY <1>9, <2>1 DEF Goto
<1>18. ASSUME NEW c \in Callbacks, Single(m_pending_callbacks[l], c)
       PROVE  \/ Absent(a, c) /\ fired'[c] = fired[c]
              \/ /\ DueCb(l, num, c) /\ Absent(a, c)
                 /\ fired'[c] = fired[c] + 1
              \/ /\ DueCb(l, num, c) /\ Once(a, c)
                 /\ fired'[c] = fired[c]
  BY <1>3, <1>8, <1>16, <1>18
<1>19. \A k \in 1 .. Len(m_pending_callbacks'[l]) :
          \E i \in 1 .. Len(m_pending_callbacks[l]) :
             /\ m_pending_callbacks'[l][k] = m_pending_callbacks[l][i]
             /\ m_pending_callbacks[l][i].num > num
  BY <1>10, <1>11
<1>20. \A c : Single(m_pending_callbacks[l], c)
              => Single(m_pending_callbacks'[l], c)
  BY <1>10, <1>11
<1>21. \A c \in Callbacks : Single(m_pending_callbacks[l], c) =>
          \/ Absent(callbacks'[t], c) /\ fired'[c] = fired[c]
          \/ /\ DueCb(l, num, c) /\ Absent(callbacks'[t], c)
             /\ fired'[c] = fired[c] + 1
          \/ /\ DueCb(l, num, c) /\ Once(callbacks'[t], c)
             /\ fired'[c] = fired[c]
  BY <1>14, <1>18
<1>22. CallbacksReleased(t, l, num)
  BY <1>12, <1>14, <1>19, <1>20, <1>21, Zenon DEF CallbacksReleased
<1> QED
  BY <1>9, <1>12, <1>13, <1>14, <1>15, <1>16, <1>17, <1>22

-----------------------------------------------------------------------------
(* The state stays of its type. *)

LEMMA AcquireTypes ==
    ASSUME LogTypes, NEW t \in Threads, NEW l \in Locks, NEW num \in Nat,
           NEW cb \in CallbackArgs, acquire(t, l, num, cb)
    PROVE  /\ gpc' \in [Threads -> GcPC]
           /\ req' \in [Threads -> [lock : Locks, num : Nat, cb : CallbackArgs]]
           /\ m_group_commit_leader' \in [Threads -> BOOLEAN]
  BY DEF acquire, LogTypes, Goto, GcPC

\* The four ways through the locked section of acquire().
LockedExpired(t, l) ==
    /\ Expired(t, l) /\ Goto(t, "EXPIRED") /\ CallAll(<<req[t].cb>>)
    /\ UNCHANGED <<m_lock, m_pending_callbacks, m_group_commit_leader>>

LockedAcquired(t, l) ==
    /\ Free(l) /\ m_lock' = [m_lock EXCEPT ![l] = t] /\ Goto(t, "ACQUIRED")
    /\ \/ req[t].cb = NONE /\ UNCHANGED m_pending_callbacks
       \/ req[t].cb # NONE /\ QueueCallback(t, l)
    /\ UNCHANGED <<m_group_commit_leader, fired>>

LockedQueued(t, l) ==
    /\ req[t].cb # NONE /\ QueueCallback(t, l) /\ Goto(t, "CALLBACK_QUEUED")
    /\ UNCHANGED <<m_lock, m_group_commit_leader, fired>>

LockedSleep(t) ==
    /\ m_group_commit_leader' = [m_group_commit_leader EXCEPT ![t] = FALSE]
    /\ Goto(t, "sleep")
    /\ UNCHANGED <<m_lock, m_pending_callbacks, fired>>

LEMMA LockedCases ==
    ASSUME NEW t \in Threads, LogTypes, acquire_locked(t)
    PROVE  \E l \in Locks :
              /\ l = req[t].lock /\ gpc[t] = "enter"
              /\ UNCHANGED <<m_value, m_pending_value, req, relvars>>
              /\ \/ LockedExpired(t, l) \/ LockedAcquired(t, l)
                 \/ LockedQueued(t, l) \/ LockedSleep(t)
<1>1. PICK l \in Locks : l = req[t].lock
  BY DEF LogTypes
<1>2. /\ gpc[t] = "enter"
      /\ UNCHANGED <<m_value, m_pending_value, req, relvars>>
      /\ \/ LockedExpired(t, l) \/ LockedAcquired(t, l)
         \/ LockedQueued(t, l) \/ LockedSleep(t)
  BY <1>1
  DEF acquire_locked, MayQueue, waitervars, LockedExpired, LockedAcquired,
      LockedQueued, LockedSleep
<1> QED
  BY <1>1, <1>2

\* The steps within acquire() and release() themselves.
LEMMA GcTypes ==
    ASSUME LogTypes, NEW t \in Threads, GcStep(t)
    PROVE  /\ m_value' = m_value
           /\ m_lock' \in [Locks -> Threads \cup {NOBODY}]
           /\ m_pending_callbacks' \in [Locks -> Seq(Pending)]
           /\ gpc' \in [Threads -> GcPC]
           /\ req' = req
           /\ m_group_commit_leader' \in [Threads -> BOOLEAN]
           /\ callbacks' \in [Threads -> Seq(Queueable)]
           /\ ret' = ret
           /\ fired' \in [Callbacks -> Nat]
<1>1. req[t].cb \in CallbackArgs /\ req[t].num \in Nat /\ req[t].lock \in Locks
  BY DEF LogTypes
<1>2. CallAll(<<req[t].cb>>) => fired' \in [Callbacks -> Nat]
  BY <1>1, CallOneFacts DEF LogTypes
<1>3. CASE acquire_test(t)
  <2>1. fired' \in [Callbacks -> Nat]
    BY <1>2, <1>3 DEF acquire_test, LogTypes
  <2> QED
    BY <1>3, <2>1
    DEF acquire_test, LogTypes, Goto, GcPC, lockvars, waitervars, relvars
<1>4. CASE acquire_locked(t)
  <2>1. PICK l \in Locks :
              /\ l = req[t].lock /\ gpc[t] = "enter"
              /\ UNCHANGED <<m_value, m_pending_value, req, relvars>>
              /\ \/ LockedExpired(t, l) \/ LockedAcquired(t, l)
                 \/ LockedQueued(t, l) \/ LockedSleep(t)
    BY <1>4, LockedCases
  <2>2. ASSUME req[t].cb # NONE, QueueCallback(t, l)
        PROVE  m_pending_callbacks' \in [Locks -> Seq(Pending)]
    <3>1. [num |-> req[t].num, cb |-> req[t].cb] \in Pending
      BY <1>1, <2>2 DEF Pending, CallbackArgs
    <3>2. Append(m_pending_callbacks[l],
                 [num |-> req[t].num, cb |-> req[t].cb]) \in Seq(Pending)
      BY <3>1, AppendProperties DEF LogTypes
    <3> QED
      BY <2>2, <3>2 DEF QueueCallback, LogTypes
  <2>3. gpc' \in [Threads -> GcPC]
    BY <2>1 DEF LockedExpired, LockedAcquired, LockedQueued, LockedSleep,
                LogTypes, Goto, GcPC
  <2>4. /\ m_lock' \in [Locks -> Threads \cup {NOBODY}]
        /\ m_group_commit_leader' \in [Threads -> BOOLEAN]
    BY <2>1 DEF LockedExpired, LockedAcquired, LockedQueued, LockedSleep,
                LogTypes
  <2>5. m_pending_callbacks' \in [Locks -> Seq(Pending)]
    BY <2>1, <2>2 DEF LockedExpired, LockedAcquired, LockedQueued, LockedSleep,
                      LogTypes
  <2>6. fired' \in [Callbacks -> Nat]
    BY <1>2, <2>1 DEF LockedExpired, LockedAcquired, LockedQueued, LockedSleep,
                      LogTypes
  <2> QED
    BY <2>1, <2>3, <2>4, <2>5, <2>6 DEF relvars, LogTypes
<1>5. CASE wait(t)
  BY <1>5 DEF wait, LogTypes, Goto, GcPC, lockvars, relvars
<1>6. CASE release_lead(t)
  BY <1>6 DEF release_lead, wake, LogTypes, Goto, GcPC, Stage, lockvars
<1>7. CASE release_call(t)
  <2>1. fired' \in [Callbacks -> Nat]
    <3>1. callbacks[t] \in Seq(Queueable)
      BY DEF LogTypes
    <3> QED
      BY <1>7, <3>1, CallAllFacts DEF release_call, LogTypes
  <2>2. callbacks' \in [Threads -> Seq(Queueable)]
    BY <1>7 DEF release_call, LogTypes
  <2> QED
    BY <1>7, <2>1, <2>2
    DEF release_call, LogTypes, Goto, GcPC, Stage, lockvars, waitervars
<1>8. CASE release_wake(t)
  BY <1>8 DEF release_wake, wake, LogTypes, Goto, GcPC, Stage, lockvars
<1> QED
  BY <1>3, <1>4, <1>5, <1>6, <1>7, <1>8 DEF GcStep

LEMMA FirstAcquireTypes ==
    ASSUME LogTypes, NEW t \in Threads, NEW kind, NEW n \in Nat,
           NEW cb \in CallbackArgs, FirstAcquire(t, kind, n, cb)
    PROVE  /\ gpc' \in [Threads -> GcPC]
           /\ req' \in [Threads -> [lock : Locks, num : Nat, cb : CallbackArgs]]
           /\ m_group_commit_leader' \in [Threads -> BOOLEAN]
           /\ cpc' = [cpc EXCEPT ![t] = FirstLock(kind)]
           /\ acquire(t, LockOf(kind), n, cb)
<1>1. LockOf(kind) \in Locks
  BY CbFacts DEF LockOf
<1>2. /\ cpc' = [cpc EXCEPT ![t] = FirstLock(kind)]
      /\ acquire(t, LockOf(kind), n, cb)
  BY DEF FirstAcquire, Move, FirstLock, LockOf
<1> QED
  BY <1>1, <1>2, AcquireTypes

\* A call of release().
LEMMA ReleaseTypes ==
    ASSUME LogTypes, NEW t \in Threads, NEW l \in Locks, NEW num \in Nat,
           release(t, l, num)
    PROVE  /\ m_value' \in [Locks -> Nat]
           /\ m_lock' \in [Locks -> Threads \cup {NOBODY}]
           /\ m_pending_callbacks' \in [Locks -> Seq(Pending)]
           /\ gpc' \in [Threads -> GcPC]
           /\ req' \in [Threads -> [lock : Locks, num : Nat, cb : CallbackArgs]]
           /\ m_group_commit_leader' \in [Threads -> BOOLEAN]
           /\ callbacks' \in [Threads -> Seq(Queueable)]
           /\ ret' \in [Threads -> Nat]
           /\ fired' \in [Callbacks -> Nat]
<1>1. /\ m_value' = [m_value EXCEPT ![l] = num]
      /\ m_lock' = [m_lock EXCEPT ![l] = NOBODY]
      /\ req' = req
      /\ m_pending_callbacks' \in [Locks -> Seq(Pending)]
      /\ m_group_commit_leader' \in [Threads -> BOOLEAN]
      /\ callbacks' \in [Threads -> Seq(Queueable)]
      /\ ret' \in [Threads -> Nat]
      /\ fired' \in [Callbacks -> Nat]
      /\ \E pc \in Releasing : gpc' = [gpc EXCEPT ![t] = pc]
  BY ReleaseFacts
<1> QED
  BY <1>1 DEF LogTypes, Releasing, GcPC

\* A thread's own steps.
LEMMA CallTypes ==
    ASSUME LogTypes, NEW t \in Threads, StartCall(t) \/ CallStep(t)
    PROVE  LogTypes'
<1>1. NONE \in CallbackArgs /\ DUMMY \in CallbackArgs
  BY DEF CallbackArgs
<1>2. /\ write_lock \in Locks /\ flush_lock \in Locks
      /\ lsn \in Nat /\ lsn + 1 \in Nat /\ target[t] \in Nat
      /\ call[t].kind \in CallKinds /\ call[t].lsn \in Nat
      /\ calls[t] \in 0 .. MaxCalls /\ MaxCalls \in Nat
  <2>1. write_lock \in Locks /\ flush_lock \in Locks /\ MaxCalls \in Nat
    BY RedoLogAssumption, GroupCommitAssumption
  <2> QED
    BY <2>1 DEF LogTypes
<1>3. ASSUME NEW kind \in Kinds[t], NEW n \in 1 .. lsn, NEW sync \in BOOLEAN,
             log_write_up_to(t, kind, n, sync)
      PROVE  LogTypes'
  <2>1. calls[t] + 1 \in 1 .. MaxCalls /\ n \in Nat /\ kind \in CallKinds
    BY <1>2, <1>3, RedoLogAssumption DEF log_write_up_to
  <2>2. <<t, calls[t] + 1>> \in Callbacks
    BY <2>1, CbFacts
  <2>3. PICK cb \in CallbackArgs : FirstAcquire(t, kind, n, cb)
    BY <1>1, <1>3, <2>2 DEF log_write_up_to, CallbackArgs
  <2>4. /\ gpc' \in [Threads -> GcPC]
        /\ req' \in [Threads -> [lock : Locks, num : Nat, cb : CallbackArgs]]
        /\ m_group_commit_leader' \in [Threads -> BOOLEAN]
        /\ cpc' = [cpc EXCEPT ![t] = FirstLock(kind)]
    BY <2>1, <2>3, FirstAcquireTypes
  <2>5. cpc' \in [Threads -> CallPC]
    BY <2>4 DEF FirstLock, CallPC, LogTypes
  <2>6. /\ calls' \in [Threads -> 0 .. MaxCalls]
        /\ call' \in [Threads -> [kind : CallKinds, lsn : Nat]]
    <3>1. /\ calls' = [calls EXCEPT ![t] = calls[t] + 1]
          /\ call' = [call EXCEPT ![t] = [kind |-> kind, lsn |-> n]]
      BY <1>3 DEF log_write_up_to
    <3>2. calls[t] + 1 \in 0 .. MaxCalls
      BY <1>2, <2>1
    <3> QED
      BY <2>1, <3>1, <3>2 DEF LogTypes
  <2>7. asked' \in [Callbacks -> Asked]
    BY <1>3, <2>1, <2>2 DEF log_write_up_to, Asked, LogTypes
  <2>8. UNCHANGED <<m_value, m_lock, m_pending_callbacks, callbacks, ret, fired,
                    diskvars, target, syncing, pending_write_lsn>>
    BY <1>3 DEF log_write_up_to, AcquireFrame, lockvars, relvars
  <2> QED
    BY <2>4, <2>5, <2>6, <2>7, <2>8 DEF LogTypes, diskvars
<1>4. CASE log_write_and_flush_prepare(t)
  <2>1. /\ gpc' \in [Threads -> GcPC]
        /\ req' \in [Threads -> [lock : Locks, num : Nat, cb : CallbackArgs]]
        /\ m_group_commit_leader' \in [Threads -> BOOLEAN]
    BY <1>1, <1>2, <1>4, AcquireTypes DEF log_write_and_flush_prepare
  <2>2. cpc' \in [Threads -> CallPC]
    BY <1>4 DEF log_write_and_flush_prepare, Move, CallPC, LogTypes
  <2>3. /\ calls' \in [Threads -> 0 .. MaxCalls]
        /\ call' \in [Threads -> [kind : CallKinds, lsn : Nat]]
    <3>1. /\ calls' = [calls EXCEPT ![t] = calls[t] + 1]
          /\ call' = [call EXCEPT ![t] = [kind |-> "shrink", lsn |-> 0]]
          /\ calls[t] < MaxCalls
      BY <1>4 DEF log_write_and_flush_prepare
    <3>2. calls[t] + 1 \in 0 .. MaxCalls
      BY <1>2, <3>1
    <3>3. [kind |-> "shrink", lsn |-> 0] \in [kind : CallKinds, lsn : Nat]
      BY DEF CallKinds
    <3> QED
      BY <3>1, <3>2, <3>3 DEF LogTypes
  <2>4. UNCHANGED <<m_value, m_lock, m_pending_callbacks, callbacks, ret, fired,
                    diskvars, target, syncing, pending_write_lsn, asked>>
    BY <1>4 DEF log_write_and_flush_prepare, AcquireFrame, lockvars, relvars
  <2> QED
    BY <2>1, <2>2, <2>3, <2>4 DEF LogTypes, diskvars
<1>5. CASE GcStep(t) /\ UNCHANGED <<diskvars, cpc, callvars>>
  <2>1. /\ m_value' = m_value
        /\ m_lock' \in [Locks -> Threads \cup {NOBODY}]
        /\ m_pending_callbacks' \in [Locks -> Seq(Pending)]
        /\ gpc' \in [Threads -> GcPC]
        /\ req' = req
        /\ m_group_commit_leader' \in [Threads -> BOOLEAN]
        /\ callbacks' \in [Threads -> Seq(Queueable)]
        /\ ret' = ret
        /\ fired' \in [Callbacks -> Nat]
    BY <1>5, GcTypes
  <2> QED
    BY <1>5, <2>1 DEF LogTypes, diskvars, callvars
<1>6. CASE flush_acquired(t)
  <2>1. /\ gpc' \in [Threads -> GcPC]
        /\ req' \in [Threads -> [lock : Locks, num : Nat, cb : CallbackArgs]]
        /\ m_group_commit_leader' \in [Threads -> BOOLEAN]
    BY <1>1, <1>2, <1>6, AcquireTypes DEF flush_acquired
  <2> QED
    BY <1>6, <2>1
    DEF flush_acquired, Move, CallPC, LogTypes, relvars, diskvars, callvars
<1>7. CASE flush_not_acquired(t)
  BY <1>7 DEF flush_not_acquired, Move, Goto, CallPC, GcPC, LogTypes, lockvars,
              waitervars, relvars, diskvars, callvars
<1>8. CASE write_acquired(t)
  BY <1>8 DEF write_acquired, Move, CallPC, LogTypes, gcvars, lockvars,
              waitervars, relvars, diskvars, callvars
<1>9. CASE write_not_acquired(t)
  BY <1>9 DEF write_not_acquired, Move, Goto, CallPC, GcPC, LogTypes, lockvars,
              waitervars, relvars, diskvars, callvars
<1>10. CASE prepare_again(t)
  <2>1. \E l \in Locks : acquire(t, l, lsn + 1, NONE)
    BY <1>2, <1>10 DEF prepare_again
  <2>2. /\ gpc' \in [Threads -> GcPC]
        /\ req' \in [Threads -> [lock : Locks, num : Nat, cb : CallbackArgs]]
        /\ m_group_commit_leader' \in [Threads -> BOOLEAN]
    BY <1>1, <1>2, <2>1, AcquireTypes
  <2>3. cpc' \in [Threads -> CallPC]
    BY <1>10 DEF prepare_again, Move, CallPC, LogTypes
  <2> QED
    BY <1>10, <2>2, <2>3
    DEF prepare_again, AcquireFrame, LogTypes, lockvars, relvars, diskvars,
        callvars
<1>11. CASE commit_shrink(t)
  BY <1>2, <1>11 DEF commit_shrink, LogTypes, gcvars, lockvars, waitervars,
                     relvars, callvars
<1>12. CASE write_buf(t)
  <2>1. /\ target' \in [Threads -> Nat] /\ cpc' \in [Threads -> CallPC]
        /\ UNCHANGED <<diskvars, call, syncing, pending_write_lsn, calls, asked>>
    BY <1>2, <1>12 DEF write_buf, Move, CallPC, LogTypes
  <2>2. CASE PendingFrame
    BY <2>1, <2>2 DEF PendingFrame, LogTypes, waitervars, relvars, diskvars
  <2>3. CASE release(t, write_lock, lsn)
    <3>1. /\ m_value' \in [Locks -> Nat]
          /\ m_lock' \in [Locks -> Threads \cup {NOBODY}]
          /\ m_pending_callbacks' \in [Locks -> Seq(Pending)]
          /\ gpc' \in [Threads -> GcPC]
          /\ req' \in [Threads -> [lock : Locks, num : Nat, cb : CallbackArgs]]
          /\ m_group_commit_leader' \in [Threads -> BOOLEAN]
          /\ callbacks' \in [Threads -> Seq(Queueable)]
          /\ ret' \in [Threads -> Nat]
          /\ fired' \in [Callbacks -> Nat]
      BY <1>2, <2>3, ReleaseTypes
    <3> QED
      BY <2>1, <3>1 DEF LogTypes, diskvars
  <2> QED
    BY <1>12, <2>2, <2>3 DEF write_buf
<1>13. CASE write_buf_done(t)
  <2>1. /\ m_value' \in [Locks -> Nat]
        /\ m_lock' \in [Locks -> Threads \cup {NOBODY}]
        /\ m_pending_callbacks' \in [Locks -> Seq(Pending)]
        /\ gpc' \in [Threads -> GcPC]
        /\ req' \in [Threads -> [lock : Locks, num : Nat, cb : CallbackArgs]]
        /\ m_group_commit_leader' \in [Threads -> BOOLEAN]
        /\ callbacks' \in [Threads -> Seq(Queueable)]
        /\ ret' \in [Threads -> Nat]
        /\ fired' \in [Callbacks -> Nat]
    BY <1>2, <1>13, ReleaseTypes DEF write_buf_done
  <2> QED
    BY <1>2, <1>13, <2>1 DEF write_buf_done, Move, CallPC, LogTypes, callvars
<1>14. CASE write_released(t)
  BY <1>14 DEF write_released, Move, CallPC, LogTypes, lockvars, waitervars,
               diskvars
<1>15. CASE flush(t)
  <2>1. FlushTarget(t) \in Nat
    BY <1>2 DEF FlushTarget, LogTypes
  <2> QED
    BY <1>15, <2>1 DEF flush, Move, CallPC, PendingFrame, LogTypes, waitervars,
                       relvars, diskvars
<1>16. CASE flush_done(t)
  <2>1. /\ m_value' \in [Locks -> Nat]
        /\ m_lock' \in [Locks -> Threads \cup {NOBODY}]
        /\ m_pending_callbacks' \in [Locks -> Seq(Pending)]
        /\ gpc' \in [Threads -> GcPC]
        /\ req' \in [Threads -> [lock : Locks, num : Nat, cb : CallbackArgs]]
        /\ m_group_commit_leader' \in [Threads -> BOOLEAN]
        /\ callbacks' \in [Threads -> Seq(Queueable)]
        /\ ret' \in [Threads -> Nat]
        /\ fired' \in [Callbacks -> Nat]
    BY <1>2, <1>16, ReleaseTypes DEF flush_done
  <2> QED
    BY <1>2, <1>16, <2>1 DEF flush_done, Move, CallPC, LogTypes
<1>17. CASE finish(t)
  <2>1. Repeat(t) \in Nat
    BY DEF Repeat, LogTypes
  <2>2. /\ gpc' \in [Threads -> GcPC]
        /\ req' \in [Threads -> [lock : Locks, num : Nat, cb : CallbackArgs]]
        /\ m_group_commit_leader' \in [Threads -> BOOLEAN]
        /\ cpc' \in [Threads -> CallPC]
        /\ call' \in [Threads -> [kind : CallKinds, lsn : Nat]]
    <3>1. CASE Repeat(t) # 0
      <4>1. /\ FirstAcquire(t, call[t].kind, Repeat(t), DUMMY)
            /\ call' = [call EXCEPT ![t].lsn = Repeat(t)]
        BY <1>17, <3>1 DEF finish
      <4>2. /\ gpc' \in [Threads -> GcPC]
            /\ req' \in [Threads -> [lock : Locks, num : Nat, cb : CallbackArgs]]
            /\ m_group_commit_leader' \in [Threads -> BOOLEAN]
            /\ cpc' = [cpc EXCEPT ![t] = FirstLock(call[t].kind)]
        BY <1>1, <2>1, <4>1, FirstAcquireTypes
      <4>3. cpc' \in [Threads -> CallPC]
        BY <4>2 DEF FirstLock, CallPC, LogTypes
      <4>4. call' \in [Threads -> [kind : CallKinds, lsn : Nat]]
        BY <2>1, <4>1 DEF LogTypes
      <4> QED
        BY <4>2, <4>3, <4>4
    <3>2. CASE Repeat(t) = 0
      BY <1>17, <3>2 DEF finish, Move, Goto, CallPC, GcPC, LogTypes
    <3> QED
      BY <3>1, <3>2
  <2> QED
    BY <1>17, <2>2 DEF finish, LogTypes, lockvars
<1> QED
  BY <1>3, <1>4, <1>5, <1>6, <1>7, <1>8, <1>9, <1>10, <1>11, <1>12, <1>13,
     <1>14, <1>15, <1>16, <1>17 DEF StartCall, CallStep

-----------------------------------------------------------------------------
(* One step: what a thread does to the other threads' part of the invariant. *)

Local(u) == ControlOk(u) /\ WriteOk(u) /\ CallOk(u) /\ SyncOk(u)

Shared == LockOk /\ LsnOk /\ AskedOk

\* What the invariant says about the thread u is about these.
Same(u) ==
    /\ cpc'[u] = cpc[u] /\ gpc'[u] = gpc[u] /\ call'[u] = call[u]
    /\ req'[u] = req[u] /\ target'[u] = target[u] /\ syncing'[u] = syncing[u]
    /\ calls'[u] = calls[u]
    /\ \A k \in 1 .. MaxCalls : asked'[<<u, k>>] = asked[<<u, k>>]

Forward == file <= file' /\ stable <= stable' /\ lsn <= lsn'

\* What is shown of a step of the thread t.
StepOk(t) ==
    /\ Forward /\ Shared' /\ Local(t)'
    /\ \A u \in Threads : u # t => Same(u)
    /\ \A u \in Threads : u # t /\ cpc[u] = "write" => file' = file

LEMMA CallsTypes ==
    ASSUME LogTypes, NEW u \in Threads
    PROVE  /\ calls[u] \in Nat /\ calls[u] <= MaxCalls /\ MaxCalls \in Nat
           /\ calls[u] > 0 => /\ calls[u] \in 1 .. MaxCalls
                              /\ Current(u) \in Callbacks
                              /\ asked[Current(u)] \in Asked
<1>1. calls[u] \in 0 .. MaxCalls
  BY DEF LogTypes
<1>2. MaxCalls \in Nat
  BY GroupCommitAssumption
<1>3. calls[u] > 0 => calls[u] \in 1 .. MaxCalls
  BY <1>1, <1>2
<1>4. calls[u] > 0 => Current(u) \in Callbacks
  BY <1>3, CbFacts DEF Current
<1> QED
  BY <1>1, <1>2, <1>3, <1>4 DEF LogTypes

LEMMA DoneKept ==
    ASSUME LogTypes, LogTypes', NEW c \in Callbacks, Forward,
           asked'[c] = asked[c], Done(c)
    PROVE  Done(c)'
<1>1. asked[c].lsn \in Nat
  BY DEF LogTypes, Asked
<1> QED
  BY <1>1 DEF LogTypes, Forward, Done

LEMMA OtherKept ==
    ASSUME LogTypes, LogTypes', NEW u \in Threads, Same(u), Forward, Local(u),
           cpc[u] = "write" => file' = file
    PROVE  Local(u)'
<1>1. /\ cpc'[u] = cpc[u] /\ gpc'[u] = gpc[u] /\ call'[u] = call[u]
      /\ req'[u] = req[u] /\ target'[u] = target[u] /\ syncing'[u] = syncing[u]
      /\ calls'[u] = calls[u]
  BY DEF Same
<1>2. ControlOk(u)'
  BY <1>1 DEF Local, ControlOk
<1>3. WriteOk(u)'
  <2>1. /\ target[u] \in Nat /\ syncing[u] \in Nat /\ file \in Nat
        /\ file' \in Nat /\ lsn \in Nat /\ lsn' \in Nat
    BY DEF LogTypes
  <2> QED
    BY <1>1, <2>1 DEF Local, WriteOk, Forward
<1>4. calls[u] > 0 => /\ Current(u) \in Callbacks /\ Current(u)' = Current(u)
                      /\ asked'[Current(u)] = asked[Current(u)]
  <2> SUFFICES ASSUME calls[u] > 0
               PROVE  /\ Current(u) \in Callbacks /\ Current(u)' = Current(u)
                      /\ asked'[Current(u)] = asked[Current(u)]
    OBVIOUS
  <2>1. calls[u] \in 1 .. MaxCalls
    BY CallsTypes
  <2> QED
    BY <1>1, <2>1, CbFacts DEF Current, Same
<1>5. CallOk(u)'
  BY <1>1, <1>4 DEF Local, CallOk
<1>6. SyncOk(u)'
  <2>1. ASSUME NEW k \in 1 .. MaxCalls, Done(<<u, k>>) PROVE Done(<<u, k>>)'
    <3>1. <<u, k>> \in Callbacks /\ asked'[<<u, k>>] = asked[<<u, k>>]
      BY CbFacts DEF Same
    <3> QED
      BY <2>1, <3>1, DoneKept
  <2>2. ASSUME NEW k \in 1 .. MaxCalls, k < calls'[u], asked'[<<u, k>>].sync
        PROVE  Done(<<u, k>>)'
    <3>1. Done(<<u, k>>)
      BY <1>1, <2>2 DEF Local, SyncOk, Same
    <3> QED
      BY <2>1, <3>1
  <2>3. ASSUME calls'[u] > 0, asked'[Current(u)'].sync
        PROVE  \/ Done(Current(u))'
               \/ cpc'[u] # "idle" /\ call'[u].kind # "shrink" /\ FirstPass(u)'
    <3>1. asked[Current(u)].sync /\ calls[u] > 0
      BY <1>1, <1>4, <2>3
    <3>2. CASE Done(Current(u))
      <4>1. Done(Current(u))'
        <5>1. PICK c \in Callbacks : c = Current(u) /\ c = Current(u)'
          BY <1>4, <3>1
        <5>2. Done(c)'
          BY <1>4, <3>1, <3>2, <5>1, DoneKept
        <5> QED
          BY <5>1, <5>2 DEF Done
      <4> QED
        BY <4>1
    <3>3. CASE cpc[u] # "idle" /\ call[u].kind # "shrink" /\ FirstPass(u)
      <4>1. asked[Current(u)].lsn \in Nat
        BY <1>4, <3>1 DEF LogTypes, Asked
      <4>2. FirstPass(u)'
        <5>1. /\ file \in Nat /\ file' \in Nat /\ stable \in Nat
              /\ stable' \in Nat
          BY DEF LogTypes
        <5>2. PICK n \in Nat : n = asked[Current(u)].lsn
          BY <4>1
        <5>3. n = asked'[Current(u)'].lsn
          BY <1>4, <3>1, <5>2
        <5> QED
          BY <1>1, <3>3, <5>1, <5>2, <5>3 DEF FirstPass, Forward
      <4> QED
        BY <1>1, <3>3, <4>2
    <3> QED
      BY <3>1, <3>2, <3>3 DEF Local, SyncOk
  <2> QED
    BY <2>2, <2>3 DEF SyncOk
<1> QED
  BY <1>2, <1>3, <1>5, <1>6 DEF Local

LEMMA StepKeepsAll ==
    ASSUME LogTypes, LogTypes', NEW t \in Threads, StepOk(t),
           \A u \in Threads : Local(u)
    PROVE  \A u \in Threads : Local(u)'
<1> SUFFICES ASSUME NEW u \in Threads, u # t PROVE Local(u)'
  BY DEF StepOk
<1> QED
  BY OtherKept DEF StepOk

\* Same() and Forward when only the thread t has moved.
LEMMA OnlyGpcMoves ==
    ASSUME LogTypes, NEW t \in Threads, NEW pc,
           gpc' = [gpc EXCEPT ![t] = pc],
           UNCHANGED <<cpc, call, req, target, syncing, calls, asked, lsn, file,
                       stable>>
    PROVE  /\ gpc'[t] = pc /\ Forward
           /\ \A u \in Threads : u # t => Same(u)
  BY DEF LogTypes, Same, Forward

\* A step within acquire() or release().
LEMMA GcMove ==
    ASSUME LogTypes, LogTypes', Shared, NEW t \in Threads, Local(t), NEW pc,
           gpc' = [gpc EXCEPT ![t] = pc],
           UNCHANGED <<cpc, call, req, target, syncing, calls, asked, lsn,
                       write_lsn, flushed_to_disk_lsn, file, stable, m_value>>,
           \/ gpc[t] \in {"test", "enter", "sleep"} /\ pc \in Acquiring
           \/ gpc[t] \in {"lead", "call", "wake"} /\ pc \in Releasing,
           IF pc = "ACQUIRED"
             THEN /\ Free(req[t].lock)
                  /\ m_lock' = [m_lock EXCEPT ![req[t].lock] = t]
             ELSE m_lock' = m_lock,
           pc = "EXPIRED" => req[t].num <= m_value[req[t].lock],
           pc = "CALLBACK_QUEUED" => req[t].cb # NONE
    PROVE  StepOk(t)
<1>1. /\ gpc'[t] = pc /\ Forward
      /\ \A u \in Threads : u # t => Same(u)
  BY OnlyGpcMoves
<1>2. LsnOk' /\ AskedOk'
  BY DEF Shared, LsnOk, AskedOk
<1>3. /\ gpc[t] \in {"test", "enter", "sleep"}
           => cpc[t] \in {"flush_lock", "write_lock"}
      /\ gpc[t] \notin {"test", "enter", "sleep"}
           => cpc[t] \in {"write_release", "flush_release"} /\ pc # "ACQUIRED"
      /\ gpc[t] # "ACQUIRED"
  BY DEF Local, ControlOk, LogTypes, CallPC, Acquiring, Releasing
<1>4. ControlOk(t)'
  BY <1>1, <1>3 DEF Local, ControlOk, Acquiring, Releasing
<1>5. WriteOk(t)'
  BY DEF Local, WriteOk
<1>6. CallOk(t)'
  BY DEF Local, CallOk, Current
<1>7. SyncOk(t)'
  <2>1. \A c : Done(c)' <=> Done(c)
    BY DEF Done
  <2>2. ASSUME calls[t] > 0, FirstPass(t) PROVE FirstPass(t)'
    <3>1. PICK n \in Nat : n = asked[Current(t)].lsn
      BY <2>2, CallsTypes DEF Asked
    <3>2. n = asked'[Current(t)'].lsn
      BY <3>1 DEF Current
    <3>3. /\ call[t].lsn = n
          /\ cpc[t] \in {"flush_lock", "write_lock"} =>
                req[t].num = n /\ req[t].cb = NONE
          /\ cpc[t] \in {"write", "fsync"} => n <= target[t]
          /\ cpc[t] \in {"write_release", "flush"} => n <= file
          /\ cpc[t] # "flush_release"
      BY <2>2, <3>1 DEF FirstPass
    <3>4. ASSUME cpc[t] \in {"flush_lock", "write_lock"}, pc = "EXPIRED"
          PROVE  n <= IF cpc[t] = "flush_lock" THEN stable ELSE file
      <4>1. n <= m_value[req[t].lock]
        BY <3>3, <3>4
      <4>2. /\ cpc[t] = "flush_lock" => req[t].lock = flush_lock
            /\ cpc[t] = "write_lock" => req[t].lock = write_lock
        BY DEF Local, ControlOk
      <4>3. /\ m_value[write_lock] = file
            /\ m_value[flush_lock] = flushed_to_disk_lsn
            /\ flushed_to_disk_lsn <= stable
        BY DEF Shared, LsnOk
      <4>4. flushed_to_disk_lsn \in Nat /\ stable \in Nat
        BY DEF LogTypes
      <4> QED
        BY <3>1, <3>4, <4>1, <4>2, <4>3, <4>4
    <3>5. cpc[t] \in {"flush_lock", "write_lock"} => pc # "CALLBACK_QUEUED"
      BY <3>3
    <3> QED
      BY <1>1, <3>2, <3>3, <3>4, <3>5 DEF FirstPass
  <2> QED
    BY <2>1, <2>2 DEF Local, SyncOk, Current
<1>8. LockOk'
  <2> SUFFICES ASSUME NEW u \in Threads
               PROVE  /\ m_lock'[write_lock] = u <=> HasWrite(u)'
                      /\ m_lock'[flush_lock] = u <=> HasFlush(u)'
    BY DEF LockOk
  <2>1. /\ m_lock[write_lock] = u <=> HasWrite(u)
        /\ m_lock[flush_lock] = u <=> HasFlush(u)
    BY DEF Shared, LockOk
  <2>2. write_lock \in Locks /\ flush_lock \in Locks /\ write_lock # flush_lock
    BY RedoLogAssumption
  <2>3. CASE pc = "ACQUIRED"
    <3>1. /\ m_lock[req[t].lock] = NOBODY /\ NOBODY \notin Threads
          /\ m_lock' = [m_lock EXCEPT ![req[t].lock] = t]
      BY <2>3, GroupCommitAssumption DEF Free
    <3>2. /\ cpc[t] = "flush_lock" => req[t].lock = flush_lock
          /\ cpc[t] = "write_lock" => req[t].lock = write_lock
      BY DEF Local, ControlOk
    <3>3. /\ cpc[t] \in {"flush_lock", "write_lock"} /\ gpc'[t] = "ACQUIRED"
          /\ gpc[t] # "ACQUIRED"
      BY <1>1, <1>3, <2>3
    <3>4. CASE u = t
      BY <2>1, <2>2, <3>1, <3>2, <3>3, <3>4
      DEF HasWrite, HasFlush, LogTypes
    <3>5. CASE u # t
      <4>1. gpc'[u] = gpc[u]
        BY <1>1, <3>5 DEF Same
      <4> QED
        BY <2>1, <2>2, <3>1, <3>2, <3>3, <3>5, <4>1
        DEF HasWrite, HasFlush, LogTypes
    <3> QED
      BY <3>4, <3>5
  <2>4. CASE pc # "ACQUIRED"
    <3>1. m_lock' = m_lock /\ (gpc'[u] = "ACQUIRED" <=> gpc[u] = "ACQUIRED")
      BY <1>1, <1>3, <2>4 DEF Same
    <3> QED
      BY <2>1, <3>1 DEF HasWrite, HasFlush
  <2> QED
    BY <2>3, <2>4
<1> QED
  BY <1>1, <1>2, <1>4, <1>5, <1>6, <1>7, <1>8 DEF StepOk, Shared, Local

LEMMA GcOk ==
    ASSUME LogTypes, LogTypes', Shared, NEW t \in Threads, Local(t), GcStep(t),
           UNCHANGED <<diskvars, cpc, callvars>>
    PROVE  StepOk(t)
<1>1. /\ m_value' = m_value /\ req' = req
      /\ UNCHANGED <<cpc, call, req, target, syncing, calls, asked, lsn,
                     write_lsn, flushed_to_disk_lsn, file, stable, m_value>>
  BY GcTypes DEF diskvars, callvars
<1>2. /\ req[t].lock \in Locks /\ req[t].num \in Nat
      /\ m_value[req[t].lock] \in Nat
  BY DEF LogTypes
<1>3. CASE acquire_test(t)
  <2>1. gpc[t] = "test" /\ m_lock' = m_lock
    BY <1>3 DEF acquire_test, lockvars
  <2>2. CASE Goto(t, "enter")
    BY <1>1, <2>1, <2>2, GcMove DEF Goto, Acquiring
  <2>3. CASE Goto(t, "EXPIRED") /\ ~(req[t].num > m_value[req[t].lock])
    <3>1. req[t].num <= m_value[req[t].lock]
      BY <1>2, <2>3
    <3> QED
      BY <1>1, <2>1, <2>3, <3>1, GcMove DEF Goto, Acquiring
  <2> QED
    BY <1>3, <2>2, <2>3 DEF acquire_test
<1>4. CASE acquire_locked(t)
  <2>1. PICK l \in Locks :
              /\ l = req[t].lock /\ gpc[t] = "enter"
              /\ UNCHANGED <<m_value, m_pending_value, req, relvars>>
              /\ \/ LockedExpired(t, l) \/ LockedAcquired(t, l)
                 \/ LockedQueued(t, l) \/ LockedSleep(t)
    BY <1>4, LockedCases
  <2>2. CASE LockedExpired(t, l)
    BY <1>1, <2>1, <2>2, GcMove DEF LockedExpired, Expired, Goto, Acquiring
  <2>3. CASE LockedAcquired(t, l)
    BY <1>1, <2>1, <2>3, GcMove DEF LockedAcquired, Goto, Acquiring
  <2>4. CASE LockedQueued(t, l)
    BY <1>1, <2>1, <2>4, GcMove DEF LockedQueued, Goto, Acquiring
  <2>5. CASE LockedSleep(t)
    BY <1>1, <2>1, <2>5, GcMove DEF LockedSleep, Goto, Acquiring
  <2> QED
    BY <2>1, <2>2, <2>3, <2>4, <2>5
<1>5. CASE wait(t)
  BY <1>1, <1>5, GcMove DEF wait, Goto, Acquiring, lockvars
<1>6. CASE release_lead(t) \/ release_call(t) \/ release_wake(t)
  <2>1. PICK pc \in Releasing :
          /\ gpc[t] \in {"lead", "call", "wake"}
          /\ gpc' = [gpc EXCEPT ![t] = pc] /\ m_lock' = m_lock
    <3>1. \A b, s, w : Stage(b, s, w) \in Releasing
      BY DEF Stage, Releasing
    <3> QED
      BY <1>6, <3>1
      DEF release_lead, release_call, release_wake, Goto, lockvars
  <2>2. pc \notin {"ACQUIRED", "EXPIRED", "CALLBACK_QUEUED"}
    BY DEF Releasing
  <2> QED
    BY <1>1, <2>1, <2>2, GcMove
<1> QED
  BY <1>3, <1>4, <1>5, <1>6 DEF GcStep

\* The call a thread is in is done, or stays in its first pass.
LEMMA SyncStep ==
    ASSUME LogTypes, LogTypes', NEW t \in Threads, Forward, Local(t),
           UNCHANGED <<calls, asked>>,
           ASSUME calls[t] > 0, cpc[t] # "idle", call[t].kind # "shrink",
                  FirstPass(t)
           PROVE  \/ Done(Current(t))'
                  \/ cpc'[t] # "idle" /\ call'[t].kind # "shrink"
                     /\ FirstPass(t)'
    PROVE  SyncOk(t)'
<1>1. ASSUME NEW k \in 1 .. MaxCalls, Done(<<t, k>>) PROVE Done(<<t, k>>)'
  <2>1. <<t, k>> \in Callbacks
    BY CbFacts
  <2> QED
    BY <1>1, <2>1, DoneKept
<1>2. calls[t] > 0 /\ Done(Current(t)) => Done(Current(t))'
  <2>1. calls[t] > 0 => calls[t] \in 1 .. MaxCalls
    BY CallsTypes
  <2> QED
    BY <1>1, <2>1 DEF Current
<1> QED
  BY <1>1, <1>2 DEF Local, SyncOk, Current

LEMMA AskedStep ==
    ASSUME LogTypes, LogTypes', Shared, Forward, UNCHANGED <<calls, asked>>
    PROVE  AskedOk'
<1>1. lsn \in Nat /\ lsn' \in Nat /\ \A c \in Callbacks : asked[c].lsn \in Nat
  BY DEF LogTypes, Asked
<1> QED
  BY <1>1 DEF Shared, AskedOk, Forward

\* The request of a thread with a call.
LEMMA CurrentFacts ==
    ASSUME LogTypes, Shared, NEW t \in Threads, Local(t), cpc[t] # "idle"
    PROVE  /\ calls[t] > 0 /\ Current(t) \in Callbacks
           /\ asked[Current(t)].lsn \in Nat /\ asked[Current(t)].lsn <= lsn
           /\ call[t].kind # "shrink" => asked[Current(t)].kind = call[t].kind
           /\ call[t].kind \in {"write", "durable", "shrink"}
           /\ /\ lsn \in Nat /\ write_lsn \in Nat /\ flushed_to_disk_lsn \in Nat
              /\ file \in Nat /\ stable \in Nat /\ target[t] \in Nat
              /\ syncing[t] \in Nat
<1>1. calls[t] > 0 /\ Current(t) \in Callbacks /\ asked[Current(t)] \in Asked
  BY CallsTypes DEF Local, CallOk
<1> QED
  BY <1>1 DEF Local, CallOk, Shared, AskedOk, LogTypes, Asked, CallKinds

LEMMA WriteUpToOk ==
    ASSUME LogTypes, LogTypes', Shared, NEW t \in Threads, Local(t),
           NEW kind \in Kinds[t], NEW n \in 1 .. lsn, NEW sync \in BOOLEAN,
           log_write_up_to(t, kind, n, sync)
    PROVE  StepOk(t)
<1>1. PICK k : k = calls[t] + 1
  OBVIOUS
<1>2. /\ k \in 1 .. MaxCalls /\ n \in Nat /\ n <= lsn /\ lsn \in Nat
      /\ kind \in {"write", "durable"} /\ cpc[t] = "idle" /\ calls[t] \in Nat
  <2>1. /\ calls[t] \in Nat /\ calls[t] < MaxCalls /\ MaxCalls \in Nat
        /\ lsn \in Nat
    BY CallsTypes DEF log_write_up_to, LogTypes
  <2>2. kind \in {"write", "durable"} /\ cpc[t] = "idle"
    BY RedoLogAssumption DEF log_write_up_to, CallKinds
  <2> QED
    BY <1>1, <2>1, <2>2
<1>3. <<t, k>> \in Callbacks
  BY <1>2, CbFacts
<1>4. PICK cb \in CallbackArgs : /\ cb = (IF sync THEN NONE ELSE <<t, k>>)
                                 /\ FirstAcquire(t, kind, n, cb)
  BY <1>1, <1>3 DEF log_write_up_to, CallbackArgs
<1>5. /\ cpc' = [cpc EXCEPT ![t] = FirstLock(kind)]
      /\ acquire(t, LockOf(kind), n, cb)
  BY <1>2, <1>4, FirstAcquireTypes
<1>6. /\ gpc' = [gpc EXCEPT ![t] = "test"]
      /\ req' = [req EXCEPT ![t] = [lock |-> LockOf(kind), num |-> n,
                                    cb |-> cb]]
      /\ calls' = [calls EXCEPT ![t] = k]
      /\ asked' = [asked EXCEPT ![<<t, k>>] =
                     [kind |-> kind, lsn |-> n, sync |-> sync]]
      /\ call' = [call EXCEPT ![t] = [kind |-> kind, lsn |-> n]]
      /\ UNCHANGED <<m_value, m_lock, lsn, write_lsn, flushed_to_disk_lsn, file,
                     stable, target, syncing>>
  BY <1>1, <1>5 DEF log_write_up_to, acquire, Goto, AcquireFrame, lockvars,
                    diskvars
<1>7. /\ cpc'[t] = FirstLock(kind) /\ gpc'[t] = "test" /\ calls'[t] = k
      /\ req'[t] = [lock |-> LockOf(kind), num |-> n, cb |-> cb]
      /\ asked'[<<t, k>>] = [kind |-> kind, lsn |-> n, sync |-> sync]
      /\ call'[t] = [kind |-> kind, lsn |-> n]
  BY <1>3, <1>5, <1>6 DEF LogTypes
<1>8. \A c \in Callbacks : c # <<t, k>> => asked'[c] = asked[c]
  BY <1>6 DEF LogTypes
<1>9. Forward
  BY <1>6 DEF Forward, LogTypes
<1>10. \A u \in Threads : u # t => Same(u)
  <2> SUFFICES ASSUME NEW u \in Threads, u # t PROVE Same(u)
    OBVIOUS
  <2>1. \A j \in 1 .. MaxCalls : asked'[<<u, j>>] = asked[<<u, j>>]
    BY <1>8, CbFacts
  <2> QED
    BY <1>5, <1>6, <2>1 DEF Same, LogTypes
<1>11. LsnOk'
  BY <1>6 DEF Shared, LsnOk
<1>12. AskedOk'
  <2>1. \A c \in Callbacks : asked'[c].kind # "shrink" /\ asked'[c].lsn <= lsn'
    BY <1>2, <1>6, <1>7, <1>8 DEF Shared, AskedOk
  <2>2. ASSUME NEW u \in Threads, NEW j \in 1 .. MaxCalls, j > calls'[u]
        PROVE  asked'[<<u, j>>].lsn = 0
    <3>1. <<u, j>> \in Callbacks /\ (<<u, j>> = <<t, k>> => u = t /\ j = k)
      BY CbFacts
    <3>2. <<u, j>> # <<t, k>> /\ j > calls[u]
      <4>1. CASE u = t
        BY <1>1, <1>2, <1>7, <2>2, <3>1, <4>1
      <4>2. CASE u # t
        BY <1>10, <2>2, <3>1, <4>2 DEF Same
      <4> QED
        BY <4>1, <4>2
    <3> QED
      BY <1>8, <3>1, <3>2 DEF Shared, AskedOk
  <2> QED
    BY <2>1, <2>2 DEF AskedOk
<1>13. LockOk'
  <2>1. ~HasWrite(t) /\ ~HasFlush(t)
    BY <1>2 DEF HasWrite, HasFlush
  <2>2. ~HasWrite(t)' /\ ~HasFlush(t)'
    BY <1>2, <1>7 DEF HasWrite, HasFlush, FirstLock
  <2>3. \A u \in Threads : u # t => /\ HasWrite(u)' <=> HasWrite(u)
                                    /\ HasFlush(u)' <=> HasFlush(u)
    BY <1>10 DEF HasWrite, HasFlush, Same
  <2> QED
    BY <1>6, <2>1, <2>2, <2>3 DEF Shared, LockOk
<1>14. ControlOk(t)' /\ WriteOk(t)'
  BY <1>2, <1>7 DEF ControlOk, WriteOk, FirstLock, LockOf, Acquiring
<1>15. CallOk(t)'
  BY <1>2, <1>7 DEF CallOk, Current
<1>16. SyncOk(t)'
  <2>1. ASSUME NEW j \in 1 .. MaxCalls, j < k, asked'[<<t, j>>].sync
        PROVE  Done(<<t, j>>)'
    <3>1. /\ <<t, j>> \in Callbacks /\ asked'[<<t, j>>] = asked[<<t, j>>]
      BY <1>2, <1>8, <2>1, CbFacts
    <3>2. Done(<<t, j>>)
      <4>1. j < calls[t] \/ j = calls[t]
        BY <1>1, <1>2, <2>1
      <4> QED
        BY <1>2, <2>1, <3>1, <4>1 DEF Local, SyncOk, Current
    <3> QED
      BY <1>9, <3>1, <3>2, DoneKept
  <2>2. ASSUME sync PROVE FirstPass(t)'
    <3>1. cb = NONE /\ asked'[Current(t)'].lsn = n
      BY <1>4, <1>7, <2>2 DEF Current
    <3> QED
      BY <1>2, <1>7, <3>1 DEF FirstPass, FirstLock
  <2>3. asked'[Current(t)'].sync = sync /\ cpc'[t] # "idle"
        /\ call'[t].kind # "shrink"
    BY <1>2, <1>7 DEF Current, FirstLock
  <2> QED
    BY <1>7, <2>1, <2>2, <2>3 DEF SyncOk
<1> QED
  BY <1>6, <1>9, <1>10, <1>11, <1>12, <1>13, <1>14, <1>15, <1>16
  DEF StepOk, Shared, Local

LEMMA PrepareOk ==
    ASSUME LogTypes, LogTypes', Shared, NEW t \in Threads, Local(t),
           log_write_and_flush_prepare(t)
    PROVE  StepOk(t)
<1>1. PICK k : k = calls[t] + 1
  OBVIOUS
<1>2. /\ k \in 1 .. MaxCalls /\ cpc[t] = "idle" /\ calls[t] \in Nat
  <2>1. calls[t] \in Nat /\ calls[t] < MaxCalls /\ MaxCalls \in Nat
    BY CallsTypes DEF log_write_and_flush_prepare
  <2>2. cpc[t] = "idle"
    BY DEF log_write_and_flush_prepare
  <2> QED
    BY <1>1, <2>1, <2>2
<1>3. /\ gpc' = [gpc EXCEPT ![t] = "test"]
      /\ cpc' = [cpc EXCEPT ![t] = "flush_lock"]
      /\ req' = [req EXCEPT ![t] = [lock |-> flush_lock, num |-> lsn + 1,
                                    cb |-> NONE]]
      /\ calls' = [calls EXCEPT ![t] = k]
      /\ call' = [call EXCEPT ![t] = [kind |-> "shrink", lsn |-> 0]]
      /\ UNCHANGED <<m_value, m_lock, lsn, write_lsn, flushed_to_disk_lsn, file,
                     stable, target, syncing, asked>>
  BY <1>1 DEF log_write_and_flush_prepare, Move, acquire, Goto, AcquireFrame,
              lockvars, diskvars
<1>4. /\ cpc'[t] = "flush_lock" /\ gpc'[t] = "test" /\ calls'[t] = k
      /\ req'[t].lock = flush_lock /\ call'[t].kind = "shrink"
  BY <1>3 DEF LogTypes
<1>5. Forward
  BY <1>3 DEF Forward, LogTypes
<1>6. \A u \in Threads : u # t => Same(u)
  BY <1>3 DEF Same, LogTypes
<1>7. LsnOk'
  BY <1>3 DEF Shared, LsnOk
<1>8. AskedOk'
  <2>1. ASSUME NEW u \in Threads, NEW j \in 1 .. MaxCalls, j > calls'[u]
        PROVE  j > calls[u]
    <3>1. CASE u = t
      BY <1>1, <1>2, <1>4, <2>1, <3>1
    <3>2. CASE u # t
      BY <1>6, <2>1, <3>2 DEF Same
    <3> QED
      BY <3>1, <3>2
  <2> QED
    BY <1>3, <2>1 DEF Shared, AskedOk
<1>9. LockOk'
  <2>1. ~HasWrite(t) /\ ~HasFlush(t)
    BY <1>2 DEF HasWrite, HasFlush
  <2>2. ~HasWrite(t)' /\ ~HasFlush(t)'
    BY <1>4 DEF HasWrite, HasFlush
  <2>3. \A u \in Threads : u # t => /\ HasWrite(u)' <=> HasWrite(u)
                                    /\ HasFlush(u)' <=> HasFlush(u)
    BY <1>6 DEF HasWrite, HasFlush, Same
  <2> QED
    BY <1>3, <2>1, <2>2, <2>3 DEF Shared, LockOk
<1>10. ControlOk(t)' /\ WriteOk(t)'
  BY <1>4 DEF ControlOk, WriteOk, Acquiring
<1>11. asked'[<<t, k>>].lsn = 0
  BY <1>1, <1>2, <1>3 DEF Shared, AskedOk
<1>12. CallOk(t)'
  BY <1>2, <1>4, <1>11 DEF CallOk, Current
<1>13. SyncOk(t)'
  <2>1. ASSUME NEW j \in 1 .. MaxCalls, j < k, asked'[<<t, j>>].sync
        PROVE  Done(<<t, j>>)'
    <3>1. j < calls[t] \/ j = calls[t]
      BY <1>1, <1>2, <2>1
    <3>2. Done(<<t, j>>)
      BY <1>2, <1>3, <2>1, <3>1 DEF Local, SyncOk, Current
    <3> QED
      BY <1>3, <3>2 DEF Done
  <2>2. Done(<<t, k>>)'
    BY <1>11 DEF Done, LogTypes
  <2> QED
    BY <1>4, <2>1, <2>2 DEF SyncOk, Current
<1> QED
  BY <1>3, <1>5, <1>6, <1>7, <1>8, <1>9, <1>10, <1>12, <1>13
  DEF StepOk, Shared, Local

\* A step of a call that neither takes nor releases a lock, and moves neither
\* the file nor stable storage.
LEMMA QuietStep ==
    ASSUME LogTypes, LogTypes', Shared, NEW t \in Threads, Local(t),
           \A u \in Threads : u # t => Same(u),
           UNCHANGED <<m_value, m_lock, write_lsn, flushed_to_disk_lsn, file,
                       stable, calls, asked>>,
           lsn <= lsn',
           HasWrite(t)' <=> HasWrite(t), HasFlush(t)' <=> HasFlush(t),
           ControlOk(t)', WriteOk(t)', cpc[t] # "idle",
           call'[t].kind = call[t].kind,
           ASSUME calls[t] > 0, cpc[t] # "idle", call[t].kind # "shrink",
                  FirstPass(t)
           PROVE  \/ Done(Current(t))'
                  \/ cpc'[t] # "idle" /\ call'[t].kind # "shrink"
                     /\ FirstPass(t)'
    PROVE  StepOk(t)
<1>1. Forward
  BY DEF Forward, LogTypes
<1>2. LsnOk'
  BY DEF Shared, LsnOk, LogTypes
<1>3. AskedOk'
  BY <1>1, AskedStep
<1>4. LockOk'
  <2>1. \A u \in Threads : u # t => /\ HasWrite(u)' <=> HasWrite(u)
                                    /\ HasFlush(u)' <=> HasFlush(u)
    BY DEF HasWrite, HasFlush, Same
  <2> QED
    BY <2>1 DEF Shared, LockOk
<1>5. CallOk(t)'
  BY DEF Local, CallOk, Current
<1>6. SyncOk(t)'
  BY <1>1, SyncStep
<1> QED
  BY <1>1, <1>2, <1>3, <1>4, <1>5, <1>6 DEF StepOk, Shared, Local

LEMMA FlushAcquiredOk ==
    ASSUME LogTypes, LogTypes', Shared, NEW t \in Threads, Local(t),
           flush_acquired(t)
    PROVE  StepOk(t)
<1>1. /\ cpc[t] = "flush_lock" /\ gpc[t] = "ACQUIRED"
      /\ call[t].kind = "durable"
      /\ cpc' = [cpc EXCEPT ![t] = "write_lock"]
      /\ gpc' = [gpc EXCEPT ![t] = "test"]
      /\ req' = [req EXCEPT ![t] = [lock |-> write_lock, num |-> call[t].lsn,
                                    cb |-> NONE]]
      /\ UNCHANGED <<m_value, m_lock, lsn, write_lsn, flushed_to_disk_lsn, file,
                     stable, call, target, syncing, calls, asked>>
  BY DEF flush_acquired, Move, acquire, Goto, diskvars, callvars
<1>2. /\ cpc'[t] = "write_lock" /\ gpc'[t] = "test"
      /\ req'[t] = [lock |-> write_lock, num |-> call[t].lsn, cb |-> NONE]
  BY <1>1 DEF LogTypes
<1>3. \A u \in Threads : u # t => Same(u)
  BY <1>1 DEF Same, LogTypes
<1>4. HasWrite(t)' <=> HasWrite(t)
  BY <1>1, <1>2 DEF HasWrite
<1>5. HasFlush(t)' <=> HasFlush(t)
  BY <1>1, <1>2 DEF HasFlush
<1>6. ControlOk(t)' /\ WriteOk(t)'
  BY <1>1, <1>2 DEF ControlOk, WriteOk, Acquiring
<1>7. ASSUME FirstPass(t) PROVE FirstPass(t)'
  BY <1>1, <1>2, <1>7 DEF FirstPass, Current
<1>8. lsn <= lsn'
  BY <1>1 DEF LogTypes
<1>9. cpc'[t] # "idle" /\ call'[t].kind # "shrink" /\ cpc[t] # "idle"
  BY <1>1, <1>2
<1> QED
  BY <1>1, <1>3, <1>4, <1>5, <1>6, <1>7, <1>8, <1>9, QuietStep

LEMMA NotAcquiredOk ==
    ASSUME LogTypes, LogTypes', Shared, NEW t \in Threads, Local(t),
           flush_not_acquired(t) \/ write_not_acquired(t)
    PROVE  StepOk(t)
<1>1. /\ gpc[t] \in {"EXPIRED", "CALLBACK_QUEUED"}
      /\ gpc' = [gpc EXCEPT ![t] = "-"]
      /\ UNCHANGED <<m_value, m_lock, req, lsn, write_lsn, flushed_to_disk_lsn,
                     file, stable, call, target, syncing, calls, asked>>
      /\ \/ /\ cpc[t] = "flush_lock" /\ call[t].kind = "durable"
            /\ cpc' = [cpc EXCEPT ![t] = "idle"]
         \/ /\ cpc[t] = "write_lock" /\ call[t].kind = "durable"
            /\ cpc' = [cpc EXCEPT ![t] = "flush"]
         \/ /\ cpc[t] = "write_lock" /\ call[t].kind = "write"
            /\ cpc' = [cpc EXCEPT ![t] = "idle"]
  BY DEF flush_not_acquired, write_not_acquired, Move, Goto, lockvars, diskvars,
         callvars
<1>2. /\ gpc'[t] = "-" /\ gpc[t] # "ACQUIRED"
      /\ \/ /\ cpc[t] = "flush_lock" /\ call[t].kind = "durable"
            /\ cpc'[t] = "idle"
         \/ /\ cpc[t] = "write_lock" /\ call[t].kind = "durable"
            /\ cpc'[t] = "flush"
         \/ /\ cpc[t] = "write_lock" /\ call[t].kind = "write"
            /\ cpc'[t] = "idle"
  BY <1>1 DEF LogTypes
<1>3. \A u \in Threads : u # t => Same(u)
  BY <1>1 DEF Same, LogTypes
<1>4. HasWrite(t)' <=> HasWrite(t)
  BY <1>1, <1>2 DEF HasWrite
<1>5. HasFlush(t)' <=> HasFlush(t)
  BY <1>1, <1>2 DEF HasFlush
<1>6. ControlOk(t)' /\ WriteOk(t)'
  BY <1>1, <1>2 DEF ControlOk, WriteOk
<1>7. cpc[t] # "idle" /\ call'[t].kind # "shrink" /\ call'[t].kind = call[t].kind
  BY <1>1, <1>2
<1>8. ASSUME FirstPass(t)
      PROVE  Done(Current(t))' \/ (cpc'[t] # "idle" /\ FirstPass(t)')
  <2>1. PICK n : n = asked[Current(t)].lsn
    OBVIOUS
  <2>2. asked[Current(t)].kind = call[t].kind
    BY <1>2, <1>7, CurrentFacts
  <2>3. n <= IF cpc[t] = "flush_lock" THEN stable ELSE file
    BY <1>1, <1>2, <1>8, <2>1 DEF FirstPass
  <2>4. /\ asked'[Current(t)'].lsn = n /\ asked'[Current(t)'].kind = call[t].kind
        /\ call'[t].lsn = n
    BY <1>1, <1>8, <2>1, <2>2 DEF Current, FirstPass
  <2>5. CASE cpc'[t] = "idle"
    BY <1>1, <1>2, <2>3, <2>4, <2>5 DEF Done
  <2>6. CASE cpc'[t] = "flush"
    BY <1>1, <1>2, <2>3, <2>4, <2>6 DEF FirstPass
  <2> QED
    BY <1>2, <2>5, <2>6
<1>9. lsn <= lsn'
  BY <1>1 DEF LogTypes
<1> QED
  BY <1>1, <1>3, <1>4, <1>5, <1>6, <1>7, <1>8, <1>9, QuietStep

LEMMA WriteAcquiredOk ==
    ASSUME LogTypes, LogTypes', Shared, NEW t \in Threads, Local(t),
           write_acquired(t)
    PROVE  StepOk(t)
<1>1. /\ gpc[t] = "ACQUIRED" /\ cpc[t] = "write_lock"
      /\ cpc' = [cpc EXCEPT ![t] = "latch"]
      /\ UNCHANGED <<m_value, m_lock, gpc, req, lsn, write_lsn,
                     flushed_to_disk_lsn, file, stable, call, target, syncing,
                     calls, asked>>
  BY DEF write_acquired, Move, gcvars, lockvars, diskvars, callvars
<1>2. cpc'[t] = "latch"
  BY <1>1 DEF LogTypes
<1>3. \A u \in Threads : u # t => Same(u)
  BY <1>1 DEF Same, LogTypes
<1>4. HasWrite(t)' <=> HasWrite(t)
  BY <1>1, <1>2 DEF HasWrite
<1>5. HasFlush(t)' <=> HasFlush(t)
  BY <1>1, <1>2 DEF HasFlush
<1>6. ControlOk(t)' /\ WriteOk(t)'
  BY <1>1, <1>2 DEF ControlOk, WriteOk
<1>7. ASSUME FirstPass(t) PROVE FirstPass(t)'
  BY <1>1, <1>2, <1>7 DEF FirstPass, Current
<1>8. lsn <= lsn'
  BY <1>1 DEF LogTypes
<1>9. cpc'[t] # "idle" /\ call'[t].kind = call[t].kind /\ cpc[t] # "idle"
  BY <1>1, <1>2
<1> QED
  BY <1>1, <1>3, <1>4, <1>5, <1>6, <1>7, <1>8, <1>9, QuietStep

LEMMA PrepareAgainOk ==
    ASSUME LogTypes, LogTypes', Shared, NEW t \in Threads, Local(t),
           prepare_again(t)
    PROVE  StepOk(t)
<1>1. /\ call[t].kind = "shrink"
      /\ gpc' = [gpc EXCEPT ![t] = "test"]
      /\ UNCHANGED <<m_value, m_lock, lsn, write_lsn, flushed_to_disk_lsn, file,
                     stable, call, target, syncing, calls, asked>>
  BY DEF prepare_again, acquire, Goto, AcquireFrame, lockvars, diskvars, callvars
<1>2. PICK from, to, l :
        /\ cpc[t] = from /\ cpc' = [cpc EXCEPT ![t] = to]
        /\ req' = [req EXCEPT ![t] = [lock |-> l, num |-> lsn + 1, cb |-> NONE]]
        /\ \/ /\ from = "flush_lock" /\ to = "flush_lock" /\ l = flush_lock
              /\ gpc[t] = "EXPIRED"
           \/ /\ from = "write_lock" /\ to = "write_lock" /\ l = write_lock
              /\ gpc[t] = "EXPIRED"
           \/ /\ from = "flush_lock" /\ to = "write_lock" /\ l = write_lock
              /\ gpc[t] = "ACQUIRED"
  BY DEF prepare_again, acquire, Move
<1>3. cpc'[t] = to /\ gpc'[t] = "test" /\ req'[t].lock = l
  BY <1>1, <1>2 DEF LogTypes
<1>4. \A u \in Threads : u # t => Same(u)
  BY <1>1, <1>2 DEF Same, LogTypes
<1>5. HasWrite(t)' <=> HasWrite(t)
  BY <1>1, <1>2, <1>3 DEF HasWrite
<1>6. HasFlush(t)' <=> HasFlush(t)
  BY <1>1, <1>2, <1>3 DEF HasFlush
<1>7. ControlOk(t)' /\ WriteOk(t)'
  BY <1>1, <1>2, <1>3 DEF ControlOk, WriteOk, Acquiring
<1>8. lsn <= lsn'
  BY <1>1 DEF LogTypes
<1>9. call'[t].kind = call[t].kind /\ cpc[t] # "idle"
  BY <1>1, <1>2
<1> QED
  BY <1>1, <1>4, <1>5, <1>6, <1>7, <1>8, <1>9, QuietStep

LEMMA CommitShrinkOk ==
    ASSUME LogTypes, LogTypes', Shared, NEW t \in Threads, Local(t),
           commit_shrink(t)
    PROVE  StepOk(t)
<1>1. /\ cpc[t] = "latch" /\ lsn' = IF lsn < LSN_BOUND THEN lsn + 1 ELSE lsn
      /\ UNCHANGED <<m_value, m_lock, gpc, req, cpc, write_lsn,
                     flushed_to_disk_lsn, file, stable, call, target, syncing,
                     calls, asked>>
  BY DEF commit_shrink, gcvars, lockvars, callvars
<1>2. lsn <= lsn'
  <2>1. lsn \in Nat
    BY DEF LogTypes
  <2> QED
    BY <1>1, <2>1
<1>3. \A u \in Threads : u # t => Same(u)
  BY <1>1 DEF Same
<1>4. (HasWrite(t)' <=> HasWrite(t)) /\ (HasFlush(t)' <=> HasFlush(t))
  BY <1>1 DEF HasWrite, HasFlush
<1>5. ControlOk(t)'
  BY <1>1 DEF Local, ControlOk
<1>6. WriteOk(t)'
  BY <1>1 DEF Local, WriteOk
<1>7. ASSUME FirstPass(t) PROVE FirstPass(t)'
  BY <1>1, <1>7 DEF FirstPass, Current
<1>8. cpc'[t] # "idle" /\ call'[t].kind = call[t].kind /\ cpc[t] # "idle"
  BY <1>1
<1> QED
  BY <1>1, <1>2, <1>3, <1>4, <1>5, <1>6, <1>7, <1>8, QuietStep

\* What a call of release() does to the lock and to the thread.
LEMMA ReleaseMoves ==
    ASSUME LogTypes, NEW t \in Threads, NEW l \in Locks, NEW num \in Nat,
           release(t, l, num)
    PROVE  /\ m_value' = [m_value EXCEPT ![l] = num]
           /\ m_lock' = [m_lock EXCEPT ![l] = NOBODY]
           /\ req' = req
           /\ \E pc \in Releasing : gpc' = [gpc EXCEPT ![t] = pc]
  BY ReleaseFacts

LEMMA WriteBufOk ==
    ASSUME LogTypes, LogTypes', Shared, NEW t \in Threads, Local(t),
           write_buf(t)
    PROVE  StepOk(t)
<1>1. /\ cpc[t] = "latch" /\ target' = [target EXCEPT ![t] = lsn]
      /\ UNCHANGED <<lsn, write_lsn, flushed_to_disk_lsn, file, stable, call,
                     syncing, calls, asked>>
  BY DEF write_buf, Move, diskvars
<1>2. /\ calls[t] > 0 /\ Current(t) \in Callbacks
      /\ asked[Current(t)].lsn \in Nat /\ asked[Current(t)].lsn <= lsn
      /\ lsn \in Nat /\ write_lsn \in Nat /\ file \in Nat
      /\ target'[t] = lsn /\ gpc[t] = "ACQUIRED"
  BY <1>1, CurrentFacts DEF LogTypes, Local, ControlOk
<1>3. /\ m_value[write_lock] = file /\ write_lsn = file /\ file <= lsn
  BY DEF Shared, LsnOk
<1>4. CASE write_lsn < lsn /\ Move(t, "latch", "write") /\ PendingFrame
  <2>1. /\ cpc' = [cpc EXCEPT ![t] = "write"]
        /\ UNCHANGED <<m_value, m_lock, gpc, req>>
    BY <1>4 DEF Move, PendingFrame
  <2>2. cpc'[t] = "write"
    BY <2>1 DEF LogTypes
  <2>3. \A u \in Threads : u # t => Same(u)
    BY <1>1, <2>1 DEF Same, LogTypes
  <2>4. HasWrite(t)' <=> HasWrite(t)
    BY <1>1, <2>2 DEF HasWrite
  <2>5. HasFlush(t)' <=> HasFlush(t)
    BY <1>1, <2>2 DEF HasFlush
  <2>6. ControlOk(t)'
    BY <1>2, <2>1, <2>2 DEF ControlOk
  <2>7. WriteOk(t)'
    BY <1>1, <1>2, <1>3, <1>4, <2>2 DEF WriteOk
  <2>8. ASSUME FirstPass(t) PROVE FirstPass(t)'
    BY <1>1, <1>2, <2>2, <2>8 DEF FirstPass, Current
  <2>9. cpc'[t] # "idle" /\ call'[t].kind = call[t].kind /\ cpc[t] # "idle"
        /\ lsn <= lsn'
    BY <1>1, <1>2, <2>2
  <2> QED
    BY <1>1, <2>1, <2>3, <2>4, <2>5, <2>6, <2>7, <2>8, <2>9, QuietStep
<1>5. CASE /\ write_lsn >= lsn /\ Move(t, "latch", "write_release")
           /\ release(t, write_lock, lsn)
  <2>1. file = lsn
    BY <1>2, <1>3, <1>5
  <2>2. PICK pc \in Releasing :
          /\ gpc' = [gpc EXCEPT ![t] = pc] /\ req' = req
          /\ m_value' = [m_value EXCEPT ![write_lock] = lsn]
          /\ m_lock' = [m_lock EXCEPT ![write_lock] = NOBODY]
          /\ cpc' = [cpc EXCEPT ![t] = "write_release"]
    BY <1>2, <1>5, CbFacts, ReleaseMoves DEF Move
  <2>3. /\ cpc'[t] = "write_release" /\ gpc'[t] \in Releasing
    BY <2>2 DEF LogTypes
  <2>4. \A u \in Threads : u # t => Same(u)
    BY <1>1, <2>2 DEF Same, LogTypes
  <2>5. Forward
    BY <1>1 DEF Forward, LogTypes
  <2>6. LsnOk'
    BY <1>1, <1>3, <2>1, <2>2, RedoLogAssumption DEF Shared, LsnOk, LogTypes
  <2>7. AskedOk'
    BY <1>1, <2>5, AskedStep
  <2>8. LockOk'
    <3>1. HasWrite(t) /\ ~HasWrite(t)' /\ (HasFlush(t)' <=> HasFlush(t))
      BY <1>1, <2>3 DEF HasWrite, HasFlush
    <3>2. \A u \in Threads : u # t => /\ HasWrite(u)' <=> HasWrite(u)
                                      /\ HasFlush(u)' <=> HasFlush(u)
      BY <2>4 DEF HasWrite, HasFlush, Same
    <3>3. /\ m_lock'[write_lock] = NOBODY /\ m_lock'[flush_lock] = m_lock[flush_lock]
          /\ NOBODY \notin Threads
      BY <2>2, RedoLogAssumption, GroupCommitAssumption DEF LogTypes
    <3> QED
      BY <3>1, <3>2, <3>3 DEF Shared, LockOk
  <2>9. ControlOk(t)'
    BY <2>3 DEF ControlOk
  <2>10. WriteOk(t)'
    BY <1>1, <1>2, <2>1, <2>3 DEF WriteOk
  <2>11. CallOk(t)'
    BY <1>1 DEF Local, CallOk, Current
  <2>12. ASSUME FirstPass(t) PROVE FirstPass(t)'
    BY <1>1, <1>2, <2>1, <2>3, <2>12 DEF FirstPass, Current
  <2>13. SyncOk(t)'
    BY <1>1, <2>3, <2>5, <2>12, SyncStep
  <2> QED
    BY <1>1, <2>4, <2>5, <2>6, <2>7, <2>8, <2>9, <2>10, <2>11, <2>13
    DEF StepOk, Shared, Local
<1> QED
  BY <1>4, <1>5 DEF write_buf

LEMMA WriteBufDoneOk ==
    ASSUME LogTypes, LogTypes', Shared, NEW t \in Threads, Local(t),
           write_buf_done(t)
    PROVE  StepOk(t)
<1>1. /\ cpc[t] = "write" /\ file' = target[t] /\ write_lsn' = target[t]
      /\ cpc' = [cpc EXCEPT ![t] = "write_release"]
      /\ UNCHANGED <<lsn, flushed_to_disk_lsn, stable, call, target, syncing,
                     calls, asked>>
  BY DEF write_buf_done, Move, callvars
<1>2. /\ target[t] \in Nat /\ lsn \in Nat /\ file \in Nat /\ stable \in Nat
      /\ file < target[t] /\ target[t] <= lsn
  BY <1>1 DEF Local, WriteOk, LogTypes
<1>3. PICK pc \in Releasing :
        /\ gpc' = [gpc EXCEPT ![t] = pc] /\ req' = req
        /\ m_value' = [m_value EXCEPT ![write_lock] = target[t]]
        /\ m_lock' = [m_lock EXCEPT ![write_lock] = NOBODY]
  BY <1>2, CbFacts, ReleaseMoves DEF write_buf_done
<1>4. cpc'[t] = "write_release" /\ gpc'[t] \in Releasing
  BY <1>1, <1>3 DEF LogTypes
<1>5. \A u \in Threads : u # t => Same(u)
  BY <1>1, <1>3 DEF Same, LogTypes
<1>6. Forward
  BY <1>1, <1>2 DEF Forward
<1>7. LsnOk'
  <2>1. /\ m_value'[write_lock] = target[t]
        /\ m_value'[flush_lock] = m_value[flush_lock]
    BY <1>3, RedoLogAssumption DEF LogTypes
  <2>2. /\ m_value[flush_lock] = flushed_to_disk_lsn
        /\ flushed_to_disk_lsn <= stable /\ stable <= file
    BY DEF Shared, LsnOk
  <2>3. stable <= target[t]
    BY <1>2, <2>2
  <2>4. /\ m_value'[write_lock] = file' /\ write_lsn' = file' /\ file' <= lsn'
        /\ m_value'[flush_lock] = flushed_to_disk_lsn'
        /\ flushed_to_disk_lsn' <= stable' /\ stable' <= file'
    BY <1>1, <1>2, <2>1, <2>2, <2>3
  <2> QED
    BY <2>4 DEF LsnOk
<1>8. AskedOk'
  BY <1>1, <1>6, AskedStep
<1>9. m_lock[write_lock] = t
  BY <1>1 DEF Shared, LockOk, HasWrite
<1>10. LockOk'
  <2>1. HasWrite(t) /\ ~HasWrite(t)' /\ (HasFlush(t)' <=> HasFlush(t))
    BY <1>1, <1>4 DEF HasWrite, HasFlush
  <2>2. \A u \in Threads : u # t => /\ HasWrite(u)' <=> HasWrite(u)
                                    /\ HasFlush(u)' <=> HasFlush(u)
    BY <1>5 DEF HasWrite, HasFlush, Same
  <2>3. /\ m_lock'[write_lock] = NOBODY /\ m_lock'[flush_lock] = m_lock[flush_lock]
        /\ NOBODY \notin Threads
    BY <1>3, RedoLogAssumption, GroupCommitAssumption DEF LogTypes
  <2> QED
    BY <2>1, <2>2, <2>3 DEF Shared, LockOk
<1>11. ControlOk(t)'
  BY <1>4 DEF ControlOk
<1>12. WriteOk(t)'
  BY <1>1, <1>2, <1>4 DEF WriteOk
<1>13. CallOk(t)'
  BY <1>1, <1>4 DEF Local, CallOk, Current
<1>14. ASSUME FirstPass(t) PROVE FirstPass(t)'
  BY <1>1, <1>2, <1>4, <1>14 DEF FirstPass, Current
<1>15. SyncOk(t)'
  BY <1>1, <1>4, <1>6, <1>14, SyncStep
<1>16. \A u \in Threads : u # t => cpc[u] # "write"
  BY <1>9 DEF Shared, LockOk, HasWrite
<1> QED
  BY <1>5, <1>6, <1>7, <1>8, <1>10, <1>11, <1>12, <1>13, <1>15, <1>16
  DEF StepOk, Shared, Local

LEMMA WriteReleasedOk ==
    ASSUME LogTypes, LogTypes', Shared, NEW t \in Threads, Local(t),
           write_released(t)
    PROVE  StepOk(t)
<1>1. /\ gpc[t] = "released" /\ cpc[t] = "write_release"
      /\ \/ call[t].kind # "write" /\ cpc' = [cpc EXCEPT ![t] = "flush"]
         \/ call[t].kind = "write" /\ cpc' = [cpc EXCEPT ![t] = "flush_release"]
      /\ UNCHANGED <<m_value, m_lock, gpc, req, lsn, write_lsn,
                     flushed_to_disk_lsn, file, stable, call, target, syncing,
                     calls, asked>>
  BY DEF write_released, Move, lockvars, diskvars
<1>2. \/ call[t].kind # "write" /\ cpc'[t] = "flush"
      \/ call[t].kind = "write" /\ cpc'[t] = "flush_release"
  BY <1>1 DEF LogTypes
<1>3. \A u \in Threads : u # t => Same(u)
  BY <1>1 DEF Same, LogTypes
<1>4. (HasWrite(t)' <=> HasWrite(t)) /\ (HasFlush(t)' <=> HasFlush(t))
  BY <1>1, <1>2 DEF HasWrite, HasFlush
<1>5. ControlOk(t)'
  BY <1>1, <1>2 DEF ControlOk, Releasing
<1>6. WriteOk(t)'
  BY <1>1, <1>2 DEF Local, WriteOk
<1>7. ASSUME FirstPass(t), call[t].kind # "shrink"
      PROVE  Done(Current(t))' \/ FirstPass(t)'
  <2>1. asked[Current(t)].kind = call[t].kind
    BY <1>1, <1>7, CurrentFacts
  <2>2. CASE call[t].kind # "write"
    BY <1>1, <1>2, <1>7, <2>2 DEF FirstPass, Current
  <2>3. CASE call[t].kind = "write"
    BY <1>1, <1>2, <1>7, <2>1, <2>3 DEF FirstPass, Current, Done
  <2> QED
    BY <2>2, <2>3
<1>8. cpc'[t] # "idle" /\ call'[t].kind = call[t].kind /\ cpc[t] # "idle"
      /\ lsn <= lsn'
  <2>1. lsn \in Nat
    BY DEF LogTypes
  <2> QED
    BY <1>1, <1>2, <2>1
<1> QED
  BY <1>1, <1>3, <1>4, <1>5, <1>6, <1>7, <1>8, QuietStep

LEMMA FlushOk ==
    ASSUME LogTypes, LogTypes', Shared, NEW t \in Threads, Local(t), flush(t)
    PROVE  StepOk(t)
<1>1. /\ cpc[t] = "flush" /\ cpc' = [cpc EXCEPT ![t] = "fsync"]
      /\ target' = [target EXCEPT ![t] = FlushTarget(t)]
      /\ syncing' = [syncing EXCEPT ![t] = file]
      /\ UNCHANGED <<m_value, m_lock, gpc, req, lsn, write_lsn,
                     flushed_to_disk_lsn, file, stable, call, calls, asked>>
  BY DEF flush, Move, PendingFrame, diskvars
<1>2. /\ cpc'[t] = "fsync" /\ target'[t] = FlushTarget(t) /\ syncing'[t] = file
  BY <1>1 DEF LogTypes
<1>3. /\ FlushTarget(t) <= file /\ file \in Nat
      /\ call[t].kind # "shrink" => FlushTarget(t) = file
  <2>1. m_value[write_lock] = file /\ file \in Nat
    BY DEF Shared, LsnOk, LogTypes
  <2>2. call[t].kind = "shrink" => target[t] <= file
    BY <1>1 DEF Local, WriteOk
  <2> QED
    BY <2>1, <2>2 DEF FlushTarget
<1>4. \A u \in Threads : u # t => Same(u)
  BY <1>1 DEF Same, LogTypes
<1>5. (HasWrite(t)' <=> HasWrite(t)) /\ (HasFlush(t)' <=> HasFlush(t))
  BY <1>1, <1>2 DEF HasWrite, HasFlush
<1>6. ControlOk(t)'
  BY <1>1, <1>2 DEF Local, ControlOk
<1>7. WriteOk(t)'
  BY <1>1, <1>2, <1>3 DEF WriteOk
<1>8. ASSUME FirstPass(t), call[t].kind # "shrink" PROVE FirstPass(t)'
  BY <1>1, <1>2, <1>3, <1>8 DEF FirstPass, Current
<1>9. cpc'[t] # "idle" /\ call'[t].kind = call[t].kind /\ cpc[t] # "idle"
      /\ lsn <= lsn'
  BY <1>1, <1>2 DEF LogTypes
<1> QED
  BY <1>1, <1>4, <1>5, <1>6, <1>7, <1>8, <1>9, QuietStep

LEMMA FlushDoneOk ==
    ASSUME LogTypes, LogTypes', Shared, NEW t \in Threads, Local(t),
           flush_done(t)
    PROVE  StepOk(t)
<1>1. /\ cpc[t] = "fsync" /\ cpc' = [cpc EXCEPT ![t] = "flush_release"]
      /\ stable' = IF syncing[t] > stable THEN syncing[t] ELSE stable
      /\ flushed_to_disk_lsn' = target[t]
      /\ syncing' = [syncing EXCEPT ![t] = 0]
      /\ UNCHANGED <<lsn, write_lsn, file, call, target, calls, asked>>
  BY DEF flush_done, Move
<1>2. /\ target[t] \in Nat /\ syncing[t] \in Nat /\ file \in Nat
      /\ stable \in Nat /\ lsn \in Nat
      /\ target[t] <= syncing[t] /\ syncing[t] <= file
      /\ call[t].kind # "write"
  BY <1>1 DEF Local, WriteOk, ControlOk, LogTypes
<1>3. PICK pc \in Releasing :
        /\ gpc' = [gpc EXCEPT ![t] = pc] /\ req' = req
        /\ m_value' = [m_value EXCEPT ![flush_lock] = target[t]]
        /\ m_lock' = [m_lock EXCEPT ![flush_lock] = NOBODY]
  BY <1>2, CbFacts, ReleaseMoves DEF flush_done
<1>4. cpc'[t] = "flush_release" /\ gpc'[t] \in Releasing
  BY <1>1, <1>3 DEF LogTypes
<1>5. \A u \in Threads : u # t => Same(u)
  BY <1>1, <1>3 DEF Same, LogTypes
<1>6. Forward
  BY <1>1, <1>2 DEF Forward
<1>7. LsnOk'
  <2>1. /\ m_value'[write_lock] = m_value[write_lock]
        /\ m_value'[flush_lock] = target[t]
    BY <1>3, RedoLogAssumption DEF LogTypes
  <2> QED
    BY <1>1, <1>2, <2>1 DEF Shared, LsnOk
<1>8. AskedOk'
  BY <1>1, <1>6, AskedStep
<1>9. LockOk'
  <2>1. HasFlush(t) /\ ~HasFlush(t)' /\ ~HasWrite(t) /\ ~HasWrite(t)'
    BY <1>1, <1>2, <1>4 DEF HasWrite, HasFlush
  <2>2. \A u \in Threads : u # t => /\ HasWrite(u)' <=> HasWrite(u)
                                    /\ HasFlush(u)' <=> HasFlush(u)
    BY <1>5 DEF HasWrite, HasFlush, Same
  <2>3. /\ m_lock'[flush_lock] = NOBODY /\ m_lock'[write_lock] = m_lock[write_lock]
        /\ NOBODY \notin Threads
    BY <1>3, RedoLogAssumption, GroupCommitAssumption DEF LogTypes
  <2> QED
    BY <2>1, <2>2, <2>3 DEF Shared, LockOk
<1>10. ControlOk(t)'
  BY <1>4 DEF ControlOk
<1>11. WriteOk(t)'
  BY <1>4 DEF WriteOk
<1>12. CallOk(t)'
  BY <1>1, <1>4 DEF Local, CallOk, Current
<1>13. ASSUME FirstPass(t), call[t].kind # "shrink" PROVE Done(Current(t))'
  <2>1. /\ asked[Current(t)].kind = call[t].kind /\ asked[Current(t)].lsn \in Nat
        /\ call[t].kind = "durable"
    BY <1>1, <1>2, <1>13, CurrentFacts
  <2>2. asked[Current(t)].lsn <= target[t]
    BY <1>1, <1>13 DEF FirstPass
  <2> QED
    BY <1>1, <1>2, <2>1, <2>2 DEF Done, Current
<1>14. SyncOk(t)'
  BY <1>1, <1>6, <1>13, SyncStep
<1> QED
  BY <1>1, <1>5, <1>6, <1>7, <1>8, <1>9, <1>10, <1>11, <1>12, <1>14
  DEF StepOk, Shared, Local

LEMMA FinishOk ==
    ASSUME LogTypes, LogTypes', Shared, NEW t \in Threads, Local(t), finish(t)
    PROVE  StepOk(t)
<1>1. /\ cpc[t] = "flush_release"
      /\ target' = [target EXCEPT ![t] = 0]
      /\ UNCHANGED <<m_value, m_lock, lsn, write_lsn, flushed_to_disk_lsn, file,
                     stable, syncing, calls, asked>>
  BY DEF finish, lockvars
<1>2. /\ ~FirstPass(t) /\ ~HasWrite(t) /\ ~HasFlush(t)
  BY <1>1 DEF FirstPass, HasWrite, HasFlush
<1>3. lsn <= lsn' /\ cpc[t] # "idle"
  BY <1>1 DEF LogTypes
<1>4. CASE Repeat(t) # 0
  <2>1. /\ FirstAcquire(t, call[t].kind, Repeat(t), DUMMY)
        /\ call' = [call EXCEPT ![t].lsn = Repeat(t)]
        /\ call[t].kind \in {"write", "durable"} /\ Repeat(t) \in Nat
    BY <1>4 DEF finish, Repeat, LogTypes, CallKinds
  <2>2. /\ cpc' = [cpc EXCEPT ![t] = FirstLock(call[t].kind)]
        /\ acquire(t, LockOf(call[t].kind), Repeat(t), DUMMY)
    BY <2>1, FirstAcquireTypes DEF CallbackArgs
  <2>3. /\ gpc' = [gpc EXCEPT ![t] = "test"]
        /\ req' = [req EXCEPT ![t] = [lock |-> LockOf(call[t].kind),
                                      num |-> Repeat(t), cb |-> DUMMY]]
    BY <2>2 DEF acquire, Goto
  <2>4. /\ cpc'[t] = FirstLock(call[t].kind) /\ gpc'[t] = "test"
        /\ req'[t].lock = LockOf(call[t].kind)
        /\ call'[t].kind = call[t].kind
    BY <2>1, <2>2, <2>3 DEF LogTypes
  <2>5. \A u \in Threads : u # t => Same(u)
    BY <1>1, <2>1, <2>2, <2>3 DEF Same, LogTypes
  <2>6. ~HasWrite(t)' /\ ~HasFlush(t)'
    BY <2>1, <2>4 DEF HasWrite, HasFlush, FirstLock
  <2>7. ControlOk(t)' /\ WriteOk(t)'
    BY <2>1, <2>4 DEF ControlOk, WriteOk, FirstLock, LockOf, Acquiring
  <2> QED
    BY <1>1, <1>2, <1>3, <2>4, <2>5, <2>6, <2>7, QuietStep
<1>5. CASE Repeat(t) = 0
  <2>1. /\ cpc' = [cpc EXCEPT ![t] = "idle"] /\ gpc' = [gpc EXCEPT ![t] = "-"]
        /\ UNCHANGED <<req, call>>
    BY <1>5 DEF finish, Move, Goto
  <2>2. cpc'[t] = "idle" /\ gpc'[t] = "-"
    BY <2>1 DEF LogTypes
  <2>3. \A u \in Threads : u # t => Same(u)
    BY <1>1, <2>1 DEF Same, LogTypes
  <2>4. ~HasWrite(t)' /\ ~HasFlush(t)'
    BY <2>2 DEF HasWrite, HasFlush
  <2>5. ControlOk(t)' /\ WriteOk(t)'
    BY <2>2 DEF ControlOk, WriteOk
  <2> QED
    BY <1>1, <1>2, <1>3, <2>1, <2>3, <2>4, <2>5, QuietStep
<1> QED
  BY <1>4, <1>5

\* Every step of a thread keeps the part of the invariant without the callbacks.
LEMMA ThreadStepOk ==
    ASSUME LogTypes, LogTypes', Shared, NEW t \in Threads, Local(t),
           StartCall(t) \/ CallStep(t)
    PROVE  StepOk(t)
<1>1. CASE StartCall(t)
  <2>1. CASE \E kind \in Kinds[t], n \in 1 .. lsn, sync \in BOOLEAN :
                log_write_up_to(t, kind, n, sync)
    BY <2>1, WriteUpToOk
  <2>2. CASE log_write_and_flush_prepare(t)
    BY <2>2, PrepareOk
  <2> QED
    BY <1>1, <2>1, <2>2 DEF StartCall
<1>2. CASE GcStep(t) /\ UNCHANGED <<diskvars, cpc, callvars>>
  BY <1>2, GcOk
<1>3. CASE flush_acquired(t)
  BY <1>3, FlushAcquiredOk
<1>4. CASE flush_not_acquired(t) \/ write_not_acquired(t)
  BY <1>4, NotAcquiredOk
<1>5. CASE write_acquired(t)
  BY <1>5, WriteAcquiredOk
<1>6. CASE prepare_again(t)
  BY <1>6, PrepareAgainOk
<1>7. CASE commit_shrink(t)
  BY <1>7, CommitShrinkOk
<1>8. CASE write_buf(t)
  BY <1>8, WriteBufOk
<1>9. CASE write_buf_done(t)
  BY <1>9, WriteBufDoneOk
<1>10. CASE write_released(t)
  BY <1>10, WriteReleasedOk
<1>11. CASE flush(t)
  BY <1>11, FlushOk
<1>12. CASE flush_done(t)
  BY <1>12, FlushDoneOk
<1>13. CASE finish(t)
  BY <1>13, FinishOk
<1> QED
  BY <1>1, <1>2, <1>3, <1>4, <1>5, <1>6, <1>7, <1>8, <1>9, <1>10, <1>11, <1>12,
     <1>13, Zenon DEF CallStep

LEMMA MtrCommitOk ==
    ASSUME LogTypes, MtrCommit, Shared, \A u \in Threads : Local(u)
    PROVE  /\ LogTypes' /\ Forward /\ Shared'
           /\ \A u \in Threads : Same(u) /\ Local(u)'
<1>1. /\ lsn' = lsn + 1
      /\ UNCHANGED <<gcvars, write_lsn, flushed_to_disk_lsn, file, stable, cpc,
                     callvars>>
  BY DEF MtrCommit
<1>2. LogTypes'
  BY <1>1 DEF LogTypes, gcvars, lockvars, waitervars, relvars, callvars
<1>3. Forward
  BY <1>1 DEF Forward, LogTypes
<1>4. \A u \in Threads : Same(u)
  BY <1>1 DEF Same, gcvars, callvars
<1>5. \A u \in Threads : Local(u)'
  <2> SUFFICES ASSUME NEW u \in Threads PROVE Local(u)'
    OBVIOUS
  <2>1. file' = file
    BY <1>1
  <2> QED
    BY <1>2, <1>3, <1>4, <2>1, OtherKept
<1>6. LsnOk'
  BY <1>1 DEF Shared, LsnOk, gcvars, lockvars, LogTypes
<1>7. AskedOk'
  BY <1>1, <1>2, <1>3, AskedStep DEF callvars
<1>8. LockOk'
  <2>1. \A u \in Threads : /\ HasWrite(u)' <=> HasWrite(u)
                           /\ HasFlush(u)' <=> HasFlush(u)
    BY <1>4 DEF HasWrite, HasFlush, Same
  <2>2. m_lock' = m_lock
    BY <1>1 DEF gcvars, lockvars
  <2> QED
    BY <2>1, <2>2 DEF Shared, LockOk
<1> QED
  BY <1>2, <1>3, <1>4, <1>5, <1>6, <1>7, <1>8 DEF Shared

-----------------------------------------------------------------------------
(* Where the callbacks are. *)

Tokens == CarryOk /\ PendingOk /\ CallingOk /\ FiredOk

\* A thread that carries a callback has not moved.
StillCarries(u, c) ==
    /\ Carries(u, c) /\ calls'[u] = calls[u] /\ req'[u].num = req[u].num
    /\ cpc'[u] = cpc[u]

LEMMA OthersCarry ==
    ASSUME NEW u \in Threads, Same(u), NEW c, Carries(u, c)'
    PROVE  StillCarries(u, c)
  BY DEF Same, Carries, StillCarries

LEMMA TokensQuiet ==
    ASSUME LogTypes, LogTypes', Tokens, Forward,
           UNCHANGED <<m_pending_callbacks, callbacks, fired, asked>>,
           \A u \in Threads, c \in Callbacks :
              Carries(u, c)' => StillCarries(u, c)
    PROVE  Tokens'
<1>1. \A c \in Callbacks : Done(c) => Done(c)'
  BY DoneKept
<1>2. \A c : /\ PendingCb(c)' <=> PendingCb(c)
             /\ CallingCb(c)' <=> CallingCb(c)
  BY DEF PendingCb, CallingCb
<1>3. FiredOk'
  BY <1>1 DEF Tokens, FiredOk
<1>4. PendingOk'
  BY DEF Tokens, PendingOk
<1>5. CallingOk'
  <2> SUFFICES ASSUME NEW u \in Threads, NEW i \in 1 .. Len(callbacks'[u]),
                      NEW c \in Callbacks, c = callbacks'[u][i]
               PROVE  /\ asked'[c].lsn > 0 /\ ~asked'[c].sync
                      /\ fired'[c] = 0 /\ Done(c)' /\ ~PendingCb(c)'
                      /\ \A w \in Threads : \A j \in 1 .. Len(callbacks'[w]) :
                            callbacks'[w][j] = c => w = u /\ j = i
    BY DEF CallingOk
  <2>1. /\ asked[c].lsn > 0 /\ ~asked[c].sync
        /\ fired[c] = 0 /\ Done(c) /\ ~PendingCb(c)
        /\ \A w \in Threads : \A j \in 1 .. Len(callbacks[w]) :
              callbacks[w][j] = c => w = u /\ j = i
    BY DEF Tokens, CallingOk
  <2> QED
    BY <1>1, <1>2, <2>1
<1>6. CarryOk'
  <2> SUFFICES ASSUME NEW u \in Threads, NEW c \in Callbacks, Carries(u, c)'
               PROVE  /\ c = Current(u)' /\ ~asked'[c].sync /\ asked'[c].lsn > 0
                      /\ req'[u].num = asked'[c].lsn
                      /\ cpc'[u] = FirstLock(asked'[c].kind)
                      /\ fired'[c] = 0 /\ ~PendingCb(c)' /\ ~CallingCb(c)'
    BY DEF CarryOk
  <2>1. StillCarries(u, c)
    OBVIOUS
  <2>2. /\ c = Current(u) /\ ~asked[c].sync /\ asked[c].lsn > 0
        /\ req[u].num = asked[c].lsn /\ cpc[u] = FirstLock(asked[c].kind)
        /\ fired[c] = 0 /\ ~PendingCb(c) /\ ~CallingCb(c)
    BY <2>1 DEF Tokens, CarryOk, StillCarries
  <2> QED
    BY <1>2, <2>1, <2>2 DEF StillCarries, Current
<1> QED
  BY <1>3, <1>4, <1>5, <1>6 DEF Tokens

\* Only one thread carries a callback.
LEMMA CarrierIs ==
    ASSUME LogTypes, Tokens, NEW u \in Threads, NEW c \in Callbacks,
           Carries(u, c)
    PROVE  /\ u = c[1] /\ c = Current(u) /\ ~asked[c].sync /\ asked[c].lsn > 0
           /\ req[u].num = asked[c].lsn /\ cpc[u] = FirstLock(asked[c].kind)
           /\ fired[c] = 0 /\ ~PendingCb(c) /\ ~CallingCb(c)
<1>1. /\ c = Current(u) /\ ~asked[c].sync /\ asked[c].lsn > 0
      /\ req[u].num = asked[c].lsn /\ cpc[u] = FirstLock(asked[c].kind)
      /\ fired[c] = 0 /\ ~PendingCb(c) /\ ~CallingCb(c)
  BY DEF Tokens, CarryOk
<1>2. u = c[1]
  BY <1>1 DEF Current
<1> QED
  BY <1>1, <1>2

\* log_write_up_to() is called: its callback has not been anywhere.
LEMMA TokensNew ==
    ASSUME LogTypes, LogTypes', Tokens, Shared, NEW t \in Threads, StepOk(t),
           NEW kind \in Kinds[t], NEW n \in 1 .. lsn, NEW sync \in BOOLEAN,
           log_write_up_to(t, kind, n, sync)
    PROVE  Tokens'
<1>1. PICK k : k = calls[t] + 1
  OBVIOUS
<1>2. k \in 1 .. MaxCalls /\ n \in Nat /\ n > 0 /\ calls[t] \in Nat
  <2>1. /\ calls[t] \in Nat /\ calls[t] < MaxCalls /\ MaxCalls \in Nat
        /\ lsn \in Nat
    BY CallsTypes DEF log_write_up_to, LogTypes
  <2> QED
    BY <1>1, <2>1
<1>3. PICK d \in Callbacks : d = <<t, k>>
  BY <1>2, CbFacts
<1>4. PICK cb \in CallbackArgs : /\ cb = (IF sync THEN NONE ELSE d)
                                 /\ FirstAcquire(t, kind, n, cb)
  BY <1>1, <1>3 DEF log_write_up_to, CallbackArgs
<1>5. /\ cpc' = [cpc EXCEPT ![t] = FirstLock(kind)]
      /\ acquire(t, LockOf(kind), n, cb)
  BY <1>2, <1>4, FirstAcquireTypes
<1>6. /\ req' = [req EXCEPT ![t] = [lock |-> LockOf(kind), num |-> n,
                                    cb |-> cb]]
      /\ calls' = [calls EXCEPT ![t] = k]
      /\ asked' = [asked EXCEPT ![d] =
                     [kind |-> kind, lsn |-> n, sync |-> sync]]
      /\ UNCHANGED <<m_pending_callbacks, callbacks, fired>>
  BY <1>1, <1>3, <1>5 DEF log_write_up_to, acquire, AcquireFrame, lockvars,
                          relvars
<1>7. /\ cpc'[t] = FirstLock(kind) /\ calls'[t] = k /\ req'[t].num = n
      /\ req'[t].cb = cb
      /\ asked'[d] = [kind |-> kind, lsn |-> n, sync |-> sync]
      /\ \A c \in Callbacks : c # d => asked'[c] = asked[c]
  BY <1>5, <1>6 DEF LogTypes
<1>8. asked[d].lsn = 0
  BY <1>1, <1>2, <1>3 DEF Shared, AskedOk
<1>9. Forward /\ \A u \in Threads : u # t => Same(u)
  BY DEF StepOk
<1>10. \A c \in Callbacks : c # d /\ Done(c) => Done(c)'
  BY <1>7, <1>9, DoneKept
<1>11. fired[d] = 0 /\ ~PendingCb(d) /\ ~CallingCb(d)
  <2>1. fired[d] = 0
    <3>1. fired[d] \in Nat
      BY DEF LogTypes
    <3>2. fired[d] > 0 => asked[d].lsn > 0
      BY DEF Tokens, FiredOk
    <3> QED
      BY <1>8, <3>1, <3>2
  <2>2. ~PendingCb(d)
    BY <1>8 DEF Tokens, PendingOk, PendingCb
  <2>3. ~CallingCb(d)
    BY <1>8 DEF Tokens, CallingOk, CallingCb
  <2> QED
    BY <2>1, <2>2, <2>3
<1>12. \A c : /\ PendingCb(c)' <=> PendingCb(c)
              /\ CallingCb(c)' <=> CallingCb(c)
  BY <1>6 DEF PendingCb, CallingCb
<1>13. FiredOk'
  <2> SUFFICES ASSUME NEW c \in Callbacks, fired'[c] > 0
               PROVE  /\ fired'[c] = 1 /\ Done(c)'
                      /\ asked'[c].lsn > 0 /\ ~asked'[c].sync
    BY DEF FiredOk
  <2>1. c # d /\ fired[c] > 0
    BY <1>6, <1>11
  <2> QED
    BY <1>6, <1>7, <1>10, <2>1 DEF Tokens, FiredOk
<1>14. PendingOk'
  <2> SUFFICES ASSUME NEW l \in Locks,
                      NEW i \in 1 .. Len(m_pending_callbacks'[l]),
                      NEW e, e = m_pending_callbacks'[l][i], e.cb \in Callbacks
               PROVE  /\ asked'[e.cb].lsn > 0 /\ e.num = asked'[e.cb].lsn
                      /\ ~asked'[e.cb].sync /\ l = LockOf(asked'[e.cb].kind)
                      /\ fired'[e.cb] = 0
                      /\ \A j \in 1 .. Len(m_pending_callbacks'[l]) :
                            m_pending_callbacks'[l][j].cb = e.cb => i = j
    BY DEF PendingOk
  <2>1. e.cb # d
    BY <1>6, <1>11 DEF PendingCb
  <2>2. /\ asked[e.cb].lsn > 0 /\ e.num = asked[e.cb].lsn
        /\ ~asked[e.cb].sync /\ l = LockOf(asked[e.cb].kind)
        /\ fired[e.cb] = 0
        /\ \A j \in 1 .. Len(m_pending_callbacks[l]) :
              m_pending_callbacks[l][j].cb = e.cb => i = j
    BY <1>6 DEF Tokens, PendingOk
  <2> QED
    BY <1>6, <1>7, <2>1, <2>2
<1>15. CallingOk'
  <2> SUFFICES ASSUME NEW u \in Threads, NEW i \in 1 .. Len(callbacks'[u]),
                      NEW c \in Callbacks, c = callbacks'[u][i]
               PROVE  /\ asked'[c].lsn > 0 /\ ~asked'[c].sync
                      /\ fired'[c] = 0 /\ Done(c)' /\ ~PendingCb(c)'
                      /\ \A w \in Threads : \A j \in 1 .. Len(callbacks'[w]) :
                            callbacks'[w][j] = c => w = u /\ j = i
    BY DEF CallingOk
  <2>1. /\ asked[c].lsn > 0 /\ ~asked[c].sync
        /\ fired[c] = 0 /\ Done(c) /\ ~PendingCb(c)
        /\ \A w \in Threads : \A j \in 1 .. Len(callbacks[w]) :
              callbacks[w][j] = c => w = u /\ j = i
    BY <1>6 DEF Tokens, CallingOk
  <2>2. c # d
    BY <1>8, <2>1
  <2> QED
    BY <1>6, <1>7, <1>10, <1>12, <2>1, <2>2
<1>16. CarryOk'
  <2> SUFFICES ASSUME NEW u \in Threads, NEW c \in Callbacks, Carries(u, c)'
               PROVE  /\ c = Current(u)' /\ ~asked'[c].sync /\ asked'[c].lsn > 0
                      /\ req'[u].num = asked'[c].lsn
                      /\ cpc'[u] = FirstLock(asked'[c].kind)
                      /\ fired'[c] = 0 /\ ~PendingCb(c)' /\ ~CallingCb(c)'
    BY DEF CarryOk
  <2>1. CASE u = t
    <3>1. c = cb /\ c # NONE
      BY <1>7, <2>1, CbFacts DEF Carries
    <3>2. c = d /\ ~sync
      BY <1>4, <3>1
    <3>3. c = Current(u)'
      BY <1>3, <1>7, <2>1, <3>2 DEF Current
    <3> QED
      BY <1>2, <1>6, <1>7, <1>11, <1>12, <2>1, <3>2, <3>3
  <2>2. CASE u # t
    <3>1. StillCarries(u, c)
      BY <1>9, <2>2, OthersCarry
    <3>2. /\ c = Current(u) /\ ~asked[c].sync /\ asked[c].lsn > 0
          /\ req[u].num = asked[c].lsn /\ cpc[u] = FirstLock(asked[c].kind)
          /\ fired[c] = 0 /\ ~PendingCb(c) /\ ~CallingCb(c)
      BY <3>1, CarrierIs DEF StillCarries
    <3>3. c # d
      BY <1>8, <3>2
    <3> QED
      BY <1>6, <1>7, <1>12, <3>1, <3>2, <3>3 DEF StillCarries, Current
  <2> QED
    BY <2>1, <2>2
<1> QED
  BY <1>13, <1>14, <1>15, <1>16 DEF Tokens

\* A thread leaves acquire() with EXPIRED: its callback is called.
LEMMA TokensExpired ==
    ASSUME LogTypes, LogTypes', Tokens, Shared, NEW t \in Threads, Local(t),
           StepOk(t), gpc[t] \in {"test", "enter"}, gpc'[t] = "EXPIRED",
           UNCHANGED <<m_pending_callbacks, callbacks, asked>>,
           CallAll(<<req[t].cb>>), req[t].num <= m_value[req[t].lock]
    PROVE  Tokens'
<1>1. PICK x \in CallbackArgs : x = req[t].cb
  BY DEF LogTypes
<1>2. \A c \in Callbacks :
         fired'[c] = IF c = x THEN fired[c] + 1 ELSE fired[c]
  BY <1>1, CallOneFacts DEF LogTypes
<1>3. Forward /\ \A u \in Threads : u # t => Same(u)
  BY DEF StepOk
<1>4. \A c \in Callbacks : Done(c) => Done(c)'
  BY <1>3, DoneKept
<1>5. cpc[t] \in {"flush_lock", "write_lock"}
  BY DEF Local, ControlOk, LogTypes, CallPC, Releasing
<1>6. x \in Callbacks => Carries(t, x)
  BY <1>1, <1>5 DEF Carries
<1>7. x \in Callbacks =>
        /\ t = x[1] /\ ~asked[x].sync /\ asked[x].lsn > 0
        /\ req[t].num = asked[x].lsn /\ cpc[t] = FirstLock(asked[x].kind)
        /\ fired[x] = 0 /\ ~PendingCb(x) /\ ~CallingCb(x)
  BY <1>6, CarrierIs
<1>8. x \in Callbacks => Done(x)
  <2>1. /\ cpc[t] = "flush_lock" => req[t].lock = flush_lock
        /\ cpc[t] = "write_lock" => req[t].lock = write_lock
    BY DEF Local, ControlOk
  <2> SUFFICES ASSUME x \in Callbacks PROVE Done(x)
    OBVIOUS
  <2>2. asked[x].lsn <= m_value[LockOf(asked[x].kind)]
    BY <1>7, <2>1 DEF FirstLock, LockOf
  <2>3. /\ m_value[flush_lock] <= stable /\ m_value[write_lock] = file
        /\ m_value[flush_lock] \in Nat /\ stable \in Nat
        /\ asked[x].lsn \in Nat
    BY CbFacts DEF Shared, LsnOk, LogTypes, Asked
  <2> QED
    BY <2>2, <2>3 DEF Done, LockOf
<1>9. \A c : /\ PendingCb(c)' <=> PendingCb(c)
             /\ CallingCb(c)' <=> CallingCb(c)
  BY DEF PendingCb, CallingCb
<1>10. FiredOk'
  <2> SUFFICES ASSUME NEW c \in Callbacks, fired'[c] > 0
               PROVE  /\ fired'[c] = 1 /\ Done(c)'
                      /\ asked'[c].lsn > 0 /\ ~asked'[c].sync
    BY DEF FiredOk
  <2>1. CASE c = x
    BY <1>2, <1>4, <1>7, <1>8, <2>1
  <2>2. CASE c # x
    BY <1>2, <1>4, <2>2 DEF Tokens, FiredOk
  <2> QED
    BY <2>1, <2>2
<1>11. PendingOk'
  <2> SUFFICES ASSUME NEW l \in Locks,
                      NEW i \in 1 .. Len(m_pending_callbacks[l]),
                      NEW e, e = m_pending_callbacks[l][i], e.cb \in Callbacks
               PROVE  /\ asked[e.cb].lsn > 0 /\ e.num = asked[e.cb].lsn
                      /\ ~asked[e.cb].sync /\ l = LockOf(asked[e.cb].kind)
                      /\ fired'[e.cb] = 0
                      /\ \A j \in 1 .. Len(m_pending_callbacks[l]) :
                            m_pending_callbacks[l][j].cb = e.cb => i = j
    BY DEF PendingOk
  <2>1. e.cb # x
    BY <1>7 DEF PendingCb
  <2> QED
    BY <1>2, <2>1 DEF Tokens, PendingOk
<1>12. CallingOk'
  <2> SUFFICES ASSUME NEW u \in Threads, NEW i \in 1 .. Len(callbacks[u]),
                      NEW c \in Callbacks, c = callbacks[u][i]
               PROVE  /\ asked[c].lsn > 0 /\ ~asked[c].sync
                      /\ fired'[c] = 0 /\ Done(c)' /\ ~PendingCb(c)'
                      /\ \A w \in Threads : \A j \in 1 .. Len(callbacks[w]) :
                            callbacks[w][j] = c => w = u /\ j = i
    BY DEF CallingOk
  <2>1. c # x
    BY <1>7 DEF CallingCb
  <2>2. /\ asked[c].lsn > 0 /\ ~asked[c].sync
        /\ fired[c] = 0 /\ Done(c) /\ ~PendingCb(c)
        /\ \A w \in Threads : \A j \in 1 .. Len(callbacks[w]) :
              callbacks[w][j] = c => w = u /\ j = i
    BY DEF Tokens, CallingOk
  <2> QED
    BY <1>2, <1>4, <1>9, <2>1, <2>2
<1>13. CarryOk'
  <2> SUFFICES ASSUME NEW u \in Threads, NEW c \in Callbacks, Carries(u, c)'
               PROVE  /\ c = Current(u)' /\ ~asked'[c].sync /\ asked'[c].lsn > 0
                      /\ req'[u].num = asked'[c].lsn
                      /\ cpc'[u] = FirstLock(asked'[c].kind)
                      /\ fired'[c] = 0 /\ ~PendingCb(c)' /\ ~CallingCb(c)'
    BY DEF CarryOk
  <2>1. u # t
    BY DEF Carries
  <2>2. StillCarries(u, c)
    BY <1>3, <2>1, OthersCarry
  <2>3. /\ c = Current(u) /\ ~asked[c].sync /\ asked[c].lsn > 0 /\ u = c[1]
        /\ req[u].num = asked[c].lsn /\ cpc[u] = FirstLock(asked[c].kind)
        /\ fired[c] = 0 /\ ~PendingCb(c) /\ ~CallingCb(c)
    BY <2>2, CarrierIs DEF StillCarries
  <2>4. c # x
    BY <1>7, <2>1, <2>3
  <2> QED
    BY <1>2, <1>9, <2>2, <2>3, <2>4 DEF StillCarries, Current
<1> QED
  BY <1>10, <1>11, <1>12, <1>13 DEF Tokens

\* A thread leaves acquire() and its callback, if it has one, is pending.
LEMMA TokensQueued ==
    ASSUME LogTypes, LogTypes', Tokens, Shared, NEW t \in Threads, Local(t),
           StepOk(t), gpc[t] = "enter", gpc'[t] \in {"ACQUIRED", "CALLBACK_QUEUED"},
           NEW l \in Locks, l = req[t].lock, QueueCallback(t, l),
           req[t].cb # NONE,
           UNCHANGED <<callbacks, asked, fired>>
    PROVE  Tokens'
<1>1. PICK x \in Queueable : x = req[t].cb
  BY DEF LogTypes, CallbackArgs, Queueable
<1>2. PICK P \in Seq(Pending) : P = m_pending_callbacks[l]
  BY DEF LogTypes
<1>3. PICK n : n = Len(P)
  OBVIOUS
<1>4. PICK y \in Pending : y = [num |-> req[t].num, cb |-> x]
  BY DEF Pending, Queueable, LogTypes
<1>5. PICK Q : Q = m_pending_callbacks'[l]
  OBVIOUS
<1>6. /\ Q = Append(P, y) /\ \A k \in Locks :
            k # l => m_pending_callbacks'[k] = m_pending_callbacks[k]
  BY <1>1, <1>2, <1>4, <1>5 DEF QueueCallback, LogTypes
<1>7. /\ n \in Nat /\ Len(Q) = n + 1 /\ Q[n + 1] = y
      /\ \A i \in 1 .. n : Q[i] = P[i]
  BY <1>2, <1>3, <1>6, AppendProperties, LenProperties
<1>8. Forward /\ \A u \in Threads : u # t => Same(u)
  BY DEF StepOk
<1>9. \A c \in Callbacks : Done(c) => Done(c)'
  BY <1>8, DoneKept
<1>10. cpc[t] \in {"flush_lock", "write_lock"}
  BY DEF Local, ControlOk, LogTypes, CallPC, Releasing
<1>11. x \in Callbacks => Carries(t, x)
  BY <1>1, <1>10 DEF Carries
<1>12. x \in Callbacks =>
        /\ t = x[1] /\ ~asked[x].sync /\ asked[x].lsn > 0
        /\ req[t].num = asked[x].lsn /\ cpc[t] = FirstLock(asked[x].kind)
        /\ fired[x] = 0 /\ ~PendingCb(x) /\ ~CallingCb(x)
  BY <1>11, CarrierIs
<1>13. x \in Callbacks => l = LockOf(asked[x].kind)
  BY <1>10, <1>12 DEF Local, ControlOk, FirstLock, LockOf
<1>14. \A c : c # x /\ PendingCb(c)' => PendingCb(c)
  <2> SUFFICES ASSUME NEW c, c # x, NEW k \in Locks,
                      NEW i \in 1 .. Len(m_pending_callbacks'[k]),
                      m_pending_callbacks'[k][i].cb = c
               PROVE  PendingCb(c)
    BY DEF PendingCb
  <2>1. CASE k # l
    BY <1>6, <2>1 DEF PendingCb
  <2>2. CASE k = l
    <3>1. i \in 1 .. n + 1 /\ Q[i].cb = c
      BY <1>5, <1>7, <2>2
    <3>2. i # n + 1
      BY <1>4, <1>7, <3>1
    <3>3. i \in 1 .. n /\ P[i].cb = c
      BY <1>7, <3>1, <3>2
    <3> QED
      BY <1>2, <1>3, <3>3 DEF PendingCb
  <2> QED
    BY <2>1, <2>2
<1>15. \A c : CallingCb(c)' <=> CallingCb(c)
  BY DEF CallingCb
<1>16. FiredOk'
  BY <1>9 DEF Tokens, FiredOk
<1>17. PendingOk'
  <2> SUFFICES ASSUME NEW k \in Locks,
                      NEW i \in 1 .. Len(m_pending_callbacks'[k]),
                      NEW e, e = m_pending_callbacks'[k][i], e.cb \in Callbacks
               PROVE  /\ asked[e.cb].lsn > 0 /\ e.num = asked[e.cb].lsn
                      /\ ~asked[e.cb].sync /\ k = LockOf(asked[e.cb].kind)
                      /\ fired[e.cb] = 0
                      /\ \A j \in 1 .. Len(m_pending_callbacks'[k]) :
                            m_pending_callbacks'[k][j].cb = e.cb => i = j
    BY DEF PendingOk
  <2>1. CASE k # l
    BY <1>6, <2>1 DEF Tokens, PendingOk
  <2>2. CASE k = l /\ i # n + 1
    <3>1. i \in 1 .. n /\ e = P[i]
      BY <1>5, <1>7, <2>2
    <3>2. e.cb # x
      BY <1>2, <1>3, <1>12, <3>1 DEF PendingCb
    <3>3. /\ asked[e.cb].lsn > 0 /\ e.num = asked[e.cb].lsn
          /\ ~asked[e.cb].sync /\ k = LockOf(asked[e.cb].kind)
          /\ fired[e.cb] = 0
          /\ \A j \in 1 .. n : P[j].cb = e.cb => i = j
      <4>1. /\ i \in 1 .. Len(m_pending_callbacks[k])
            /\ e = m_pending_callbacks[k][i] /\ e.cb \in Callbacks
        BY <1>2, <1>3, <2>2, <3>1
      <4>2. /\ asked[e.cb].lsn > 0 /\ e.num = asked[e.cb].lsn
            /\ ~asked[e.cb].sync /\ k = LockOf(asked[e.cb].kind)
            /\ fired[e.cb] = 0
            /\ \A j \in 1 .. Len(m_pending_callbacks[k]) :
                  m_pending_callbacks[k][j].cb = e.cb => i = j
        BY <4>1 DEF Tokens, PendingOk
      <4> QED
        BY <1>2, <1>3, <2>2, <4>2
    <3>4. ASSUME NEW j \in 1 .. n + 1, Q[j].cb = e.cb PROVE i = j
      <4>1. j # n + 1
        BY <1>4, <1>7, <3>2, <3>4
      <4>2. j \in 1 .. n /\ P[j].cb = e.cb
        BY <1>7, <3>4, <4>1
      <4> QED
        BY <3>3, <4>2
    <3> QED
      BY <1>5, <1>7, <2>2, <3>3, <3>4
  <2>3. CASE k = l /\ i = n + 1
    <3>1. e = y /\ e.cb = x /\ e.num = req[t].num
      BY <1>4, <1>5, <1>7, <2>3
    <3>2. ASSUME NEW j \in 1 .. n + 1, Q[j].cb = x PROVE i = j
      <4>1. j \notin 1 .. n
        BY <1>2, <1>3, <1>7, <1>12, <3>1, <3>2 DEF PendingCb
      <4> QED
        BY <1>7, <2>3, <4>1
    <3> QED
      BY <1>5, <1>7, <1>12, <1>13, <2>3, <3>1, <3>2
  <2> QED
    BY <2>1, <2>2, <2>3
<1>18. CallingOk'
  <2> SUFFICES ASSUME NEW u \in Threads, NEW i \in 1 .. Len(callbacks[u]),
                      NEW c \in Callbacks, c = callbacks[u][i]
               PROVE  /\ asked[c].lsn > 0 /\ ~asked[c].sync
                      /\ fired[c] = 0 /\ Done(c)' /\ ~PendingCb(c)'
                      /\ \A w \in Threads : \A j \in 1 .. Len(callbacks[w]) :
                            callbacks[w][j] = c => w = u /\ j = i
    BY DEF CallingOk
  <2>1. c # x
    BY <1>12 DEF CallingCb
  <2>2. /\ asked[c].lsn > 0 /\ ~asked[c].sync
        /\ fired[c] = 0 /\ Done(c) /\ ~PendingCb(c)
        /\ \A w \in Threads : \A j \in 1 .. Len(callbacks[w]) :
              callbacks[w][j] = c => w = u /\ j = i
    BY DEF Tokens, CallingOk
  <2> QED
    BY <1>9, <1>14, <2>1, <2>2
<1>19. CarryOk'
  <2> SUFFICES ASSUME NEW u \in Threads, NEW c \in Callbacks, Carries(u, c)'
               PROVE  /\ c = Current(u)' /\ ~asked'[c].sync /\ asked'[c].lsn > 0
                      /\ req'[u].num = asked'[c].lsn
                      /\ cpc'[u] = FirstLock(asked'[c].kind)
                      /\ fired'[c] = 0 /\ ~PendingCb(c)' /\ ~CallingCb(c)'
    BY DEF CarryOk
  <2>1. u # t
    BY DEF Carries
  <2>2. StillCarries(u, c)
    BY <1>8, <2>1, OthersCarry
  <2>3. /\ c = Current(u) /\ ~asked[c].sync /\ asked[c].lsn > 0 /\ u = c[1]
        /\ req[u].num = asked[c].lsn /\ cpc[u] = FirstLock(asked[c].kind)
        /\ fired[c] = 0 /\ ~PendingCb(c) /\ ~CallingCb(c)
    BY <2>2, CarrierIs DEF StillCarries
  <2>4. c # x
    BY <1>12, <2>1, <2>3
  <2> QED
    BY <1>14, <1>15, <2>2, <2>3, <2>4 DEF StillCarries, Current
<1> QED
  BY <1>16, <1>17, <1>18, <1>19 DEF Tokens

\* Each pending callback is pending once.
LEMMA PendingSingle ==
    ASSUME Tokens, NEW l \in Locks, NEW c \in Callbacks
    PROVE  Single(m_pending_callbacks[l], c)
<1> SUFFICES ASSUME NEW i \in 1 .. Len(m_pending_callbacks[l]),
                    NEW j \in 1 .. Len(m_pending_callbacks[l]),
                    m_pending_callbacks[l][i].cb = c,
                    m_pending_callbacks[l][j].cb = c
             PROVE  i = j
  BY DEF Single
<1> QED
  BY DEF Tokens, PendingOk

LEMMA PendingIs ==
    ASSUME Tokens, NEW l \in Locks, NEW i \in 1 .. Len(m_pending_callbacks[l]),
           NEW c \in Callbacks, m_pending_callbacks[l][i].cb = c
    PROVE  /\ asked[c].lsn > 0 /\ m_pending_callbacks[l][i].num = asked[c].lsn
           /\ ~asked[c].sync /\ l = LockOf(asked[c].kind) /\ fired[c] = 0
  BY DEF Tokens, PendingOk

LEMMA CallingIs ==
    ASSUME Tokens, NEW u \in Threads, NEW i \in 1 .. Len(callbacks[u]),
           NEW c \in Callbacks, callbacks[u][i] = c
    PROVE  /\ asked[c].lsn > 0 /\ ~asked[c].sync
           /\ fired[c] = 0 /\ Done(c) /\ ~PendingCb(c)
           /\ \A w \in Threads : \A j \in 1 .. Len(callbacks[w]) :
                 callbacks[w][j] = c => w = u /\ j = i
  BY DEF Tokens, CallingOk

\* A thread calls release(): the callbacks that are due are called or held.
LEMMA TokensReleased ==
    ASSUME LogTypes, LogTypes', Tokens, Shared, NEW t \in Threads, StepOk(t),
           NEW l \in Locks, NEW num \in Nat, release(t, l, num),
           num <= IF l = flush_lock THEN stable' ELSE file',
           asked' = asked
    PROVE  Tokens'
<1>0. /\ \E pc \in Releasing : gpc' = [gpc EXCEPT ![t] = pc]
      /\ CallbacksReleased(t, l, num)
  BY ReleaseFacts
<1>1. /\ \A k \in Locks :
            k # l => m_pending_callbacks'[k] = m_pending_callbacks[k]
      /\ \A k \in 1 .. Len(m_pending_callbacks'[l]) :
            \E i \in 1 .. Len(m_pending_callbacks[l]) :
               /\ m_pending_callbacks'[l][k] = m_pending_callbacks[l][i]
               /\ m_pending_callbacks[l][i].num > num
      /\ \A c : Single(m_pending_callbacks[l], c)
                => Single(m_pending_callbacks'[l], c)
      /\ \A u \in Threads : u # t => callbacks'[u] = callbacks[u]
      /\ \A c \in Callbacks : Single(m_pending_callbacks[l], c) =>
            \/ Absent(callbacks'[t], c) /\ fired'[c] = fired[c]
            \/ /\ DueCb(l, num, c) /\ Absent(callbacks'[t], c)
               /\ fired'[c] = fired[c] + 1
            \/ /\ DueCb(l, num, c) /\ Once(callbacks'[t], c)
               /\ fired'[c] = fired[c]
  BY <1>0, Zenon DEF CallbacksReleased
<1>2. Forward /\ \A u \in Threads : u # t => Same(u)
  BY DEF StepOk
<1>3. \A c \in Callbacks : Done(c) => Done(c)'
  BY <1>2, DoneKept
<1>4. ASSUME NEW c \in Callbacks
      PROVE  \/ Absent(callbacks'[t], c) /\ fired'[c] = fired[c]
             \/ /\ DueCb(l, num, c) /\ Absent(callbacks'[t], c)
                /\ fired'[c] = fired[c] + 1
             \/ /\ DueCb(l, num, c) /\ Once(callbacks'[t], c)
                /\ fired'[c] = fired[c]
  BY <1>1, PendingSingle
<1>5. ASSUME NEW c \in Callbacks, DueCb(l, num, c)
      PROVE  /\ asked[c].lsn > 0 /\ ~asked[c].sync /\ fired[c] = 0
             /\ Done(c)' /\ PendingCb(c) /\ ~PendingCb(c)'
  <2>1. PICK i \in 1 .. Len(m_pending_callbacks[l]) :
          m_pending_callbacks[l][i].cb = c /\ m_pending_callbacks[l][i].num <= num
    BY <1>5 DEF DueCb
  <2>2. /\ asked[c].lsn > 0 /\ m_pending_callbacks[l][i].num = asked[c].lsn
        /\ ~asked[c].sync /\ l = LockOf(asked[c].kind) /\ fired[c] = 0
    BY <2>1, PendingIs
  <2>3. PendingCb(c)
    BY <2>1 DEF PendingCb
  <2>4. Done(c)'
    <3>1. /\ asked[c].lsn \in Nat /\ stable' \in Nat /\ file' \in Nat
      BY DEF LogTypes, Asked
    <3>2. asked[c].lsn <= num /\ flush_lock # write_lock
      BY <2>1, <2>2, RedoLogAssumption
    <3> QED
      BY <2>2, <3>1, <3>2 DEF Done, LockOf
  <2>5. ASSUME NEW k \in Locks, NEW j \in 1 .. Len(m_pending_callbacks'[k]),
               m_pending_callbacks'[k][j].cb = c
        PROVE  FALSE
    <3>1. CASE k # l
      <4>1. /\ j \in 1 .. Len(m_pending_callbacks[k])
            /\ m_pending_callbacks[k][j].cb = c
        BY <1>1, <2>5, <3>1
      <4>2. k = LockOf(asked[c].kind)
        BY <4>1, PendingIs
      <4> QED
        BY <2>2, <3>1, <4>2
    <3>2. CASE k = l
      <4>1. PICK h \in 1 .. Len(m_pending_callbacks[l]) :
              /\ m_pending_callbacks'[l][j] = m_pending_callbacks[l][h]
              /\ m_pending_callbacks[l][h].num > num
        BY <1>1, <2>5, <3>2
      <4>2. m_pending_callbacks[l][h].cb = c
        BY <2>5, <3>2, <4>1
      <4>3. m_pending_callbacks[l][h].num = asked[c].lsn
        BY <4>2, PendingIs
      <4>4. asked[c].lsn \in Nat
        BY DEF LogTypes, Asked
      <4> QED
        BY <2>1, <2>2, <4>1, <4>3, <4>4
    <3> QED
      BY <3>1, <3>2
  <2> QED
    BY <2>2, <2>3, <2>4, <2>5 DEF PendingCb
<1>6. ASSUME NEW c, PendingCb(c)' PROVE PendingCb(c)
  <2>1. PICK k \in Locks : \E j \in 1 .. Len(m_pending_callbacks'[k]) :
          m_pending_callbacks'[k][j].cb = c
    BY <1>6 DEF PendingCb
  <2>2. PICK j \in 1 .. Len(m_pending_callbacks'[k]) :
          m_pending_callbacks'[k][j].cb = c
    BY <2>1
  <2>3. \E h \in 1 .. Len(m_pending_callbacks[k]) :
           m_pending_callbacks[k][h].cb = c
    <3>1. CASE k # l
      BY <1>1, <2>2, <3>1
    <3>2. CASE k = l
      BY <1>1, <2>2, <3>2
    <3> QED
      BY <3>1, <3>2
  <2> QED
    BY <2>3 DEF PendingCb
<1>7. FiredOk'
  <2> SUFFICES ASSUME NEW c \in Callbacks, fired'[c] > 0
               PROVE  /\ fired'[c] = 1 /\ Done(c)'
                      /\ asked[c].lsn > 0 /\ ~asked[c].sync
    BY DEF FiredOk
  <2>1. CASE fired'[c] = fired[c]
    BY <1>3, <2>1 DEF Tokens, FiredOk
  <2>2. CASE DueCb(l, num, c) /\ fired'[c] = fired[c] + 1
    BY <1>5, <2>2
  <2> QED
    BY <1>4, <2>1, <2>2
<1>8. ASSUME NEW c \in Callbacks, PendingCb(c)' PROVE fired'[c] = fired[c]
  BY <1>4, <1>5, <1>8
<1>9. PendingOk'
  <2> SUFFICES ASSUME NEW k \in Locks,
                      NEW i \in 1 .. Len(m_pending_callbacks'[k]),
                      NEW e, e = m_pending_callbacks'[k][i], e.cb \in Callbacks
               PROVE  /\ asked[e.cb].lsn > 0 /\ e.num = asked[e.cb].lsn
                      /\ ~asked[e.cb].sync /\ k = LockOf(asked[e.cb].kind)
                      /\ fired'[e.cb] = 0
                      /\ \A j \in 1 .. Len(m_pending_callbacks'[k]) :
                            m_pending_callbacks'[k][j].cb = e.cb => i = j
    BY DEF PendingOk
  <2>1. PendingCb(e.cb)'
    BY DEF PendingCb
  <2>2. fired'[e.cb] = fired[e.cb]
    BY <1>8, <2>1
  <2>3. PICK h \in 1 .. Len(m_pending_callbacks[k]) : m_pending_callbacks[k][h] = e
    <3>1. CASE k # l
      BY <1>1, <3>1
    <3>2. CASE k = l
      BY <1>1, <3>2
    <3> QED
      BY <3>1, <3>2
  <2>4. /\ asked[e.cb].lsn > 0 /\ e.num = asked[e.cb].lsn
        /\ ~asked[e.cb].sync /\ k = LockOf(asked[e.cb].kind) /\ fired[e.cb] = 0
    <3>1. PICK c \in Callbacks : c = e.cb /\ m_pending_callbacks[k][h].cb = c
      BY <2>3
    <3>2. /\ asked[c].lsn > 0 /\ m_pending_callbacks[k][h].num = asked[c].lsn
          /\ ~asked[c].sync /\ k = LockOf(asked[c].kind) /\ fired[c] = 0
      BY <3>1, PendingIs
    <3> QED
      BY <2>3, <3>1, <3>2
  <2>5. Single(m_pending_callbacks'[k], e.cb)
    <3>1. Single(m_pending_callbacks[k], e.cb)
      BY PendingSingle
    <3>2. CASE k # l
      BY <1>1, <3>1, <3>2
    <3>3. CASE k = l
      BY <1>1, <3>1, <3>3
    <3> QED
      BY <3>2, <3>3
  <2> QED
    BY <2>2, <2>4, <2>5 DEF Single
<1>10. ASSUME NEW c \in Callbacks, NEW u \in Threads,
              NEW i \in 1 .. Len(callbacks'[u]), callbacks'[u][i] = c
       PROVE  /\ asked[c].lsn > 0 /\ ~asked[c].sync
              /\ fired'[c] = 0 /\ Done(c)' /\ ~PendingCb(c)'
              /\ \A w \in Threads : \A j \in 1 .. Len(callbacks'[w]) :
                    callbacks'[w][j] = c => w = u /\ j = i
  <2>1. CASE u # t
    <3>1. i \in 1 .. Len(callbacks[u]) /\ callbacks[u][i] = c
      BY <1>1, <1>10, <2>1
    <3>2. /\ asked[c].lsn > 0 /\ ~asked[c].sync
          /\ fired[c] = 0 /\ Done(c) /\ ~PendingCb(c)
          /\ \A w \in Threads : \A j \in 1 .. Len(callbacks[w]) :
                callbacks[w][j] = c => w = u /\ j = i
      BY <3>1, CallingIs
    <3>3. ~DueCb(l, num, c)
      BY <1>5, <3>2
    <3>4. Absent(callbacks'[t], c) /\ fired'[c] = fired[c]
      BY <1>4, <3>3
    <3>5. ASSUME NEW w \in Threads, NEW j \in 1 .. Len(callbacks'[w]),
                 callbacks'[w][j] = c
          PROVE  w = u /\ j = i
      <4>1. w # t
        BY <3>4, <3>5 DEF Absent
      <4> QED
        BY <1>1, <3>2, <3>5, <4>1
    <3> QED
      BY <1>3, <1>6, <3>2, <3>4, <3>5
  <2>2. CASE u = t
    <3>1. ~Absent(callbacks'[t], c)
      BY <1>10, <2>2 DEF Absent
    <3>2. DueCb(l, num, c) /\ Once(callbacks'[t], c) /\ fired'[c] = fired[c]
      BY <1>4, <3>1
    <3>3. /\ asked[c].lsn > 0 /\ ~asked[c].sync /\ fired[c] = 0
          /\ Done(c)' /\ PendingCb(c) /\ ~PendingCb(c)'
      BY <1>5, <3>2
    <3>4. ASSUME NEW w \in Threads, NEW j \in 1 .. Len(callbacks'[w]),
                 callbacks'[w][j] = c
          PROVE  w = u /\ j = i
      <4>1. w = t
        <5> SUFFICES ASSUME w # t PROVE FALSE
          OBVIOUS
        <5>1. j \in 1 .. Len(callbacks[w]) /\ callbacks[w][j] = c
          BY <1>1, <3>4
        <5> QED
          BY <3>3, <5>1, CallingIs
      <4> QED
        BY <1>10, <2>2, <3>2, <3>4, <4>1 DEF Once
    <3> QED
      BY <3>2, <3>3, <3>4
  <2> QED
    BY <2>1, <2>2
<1>11. CallingOk'
  BY <1>10 DEF CallingOk
<1>12. CarryOk'
  <2> SUFFICES ASSUME NEW u \in Threads, NEW c \in Callbacks, Carries(u, c)'
               PROVE  /\ c = Current(u)' /\ ~asked'[c].sync /\ asked'[c].lsn > 0
                      /\ req'[u].num = asked'[c].lsn
                      /\ cpc'[u] = FirstLock(asked'[c].kind)
                      /\ fired'[c] = 0 /\ ~PendingCb(c)' /\ ~CallingCb(c)'
    BY DEF CarryOk
  <2>1. u # t
    BY <1>0 DEF Carries, Releasing, LogTypes
  <2>2. StillCarries(u, c)
    BY <1>2, <2>1, OthersCarry
  <2>3. /\ c = Current(u) /\ ~asked[c].sync /\ asked[c].lsn > 0 /\ u = c[1]
        /\ req[u].num = asked[c].lsn /\ cpc[u] = FirstLock(asked[c].kind)
        /\ fired[c] = 0 /\ ~PendingCb(c) /\ ~CallingCb(c)
    BY <2>2, CarrierIs DEF StillCarries
  <2>4. ~DueCb(l, num, c)
    BY <1>5, <2>3
  <2>5. Absent(callbacks'[t], c) /\ fired'[c] = fired[c]
    BY <1>4, <2>4
  <2>6. ASSUME NEW w \in Threads, NEW j \in 1 .. Len(callbacks'[w]),
               callbacks'[w][j] = c
        PROVE  FALSE
    <3>1. CASE w = t
      BY <2>5, <2>6, <3>1 DEF Absent
    <3>2. CASE w # t
      BY <1>1, <2>3, <2>6, <3>2 DEF CallingCb
    <3> QED
      BY <3>1, <3>2
  <2>7. ~CallingCb(c)' /\ ~PendingCb(c)'
    BY <1>6, <2>3, <2>6 DEF CallingCb
  <2> QED
    BY <2>2, <2>3, <2>5, <2>7 DEF StillCarries, Current
<1> QED
  BY <1>7, <1>9, <1>11, <1>12 DEF Tokens

\* release() calls the callbacks it has held.
LEMMA TokensCalled ==
    ASSUME LogTypes, LogTypes', Tokens, NEW t \in Threads, StepOk(t),
           gpc[t] = "call", UNCHANGED <<m_pending_callbacks, asked>>,
           CallAll(callbacks[t]), callbacks' = [callbacks EXCEPT ![t] = <<>>],
           gpc'[t] \notin {"test", "enter", "sleep"}
    PROVE  Tokens'
<1>1. PICK s \in Seq(Queueable) : s = callbacks[t]
  BY DEF LogTypes
<1>2. \A c \in Callbacks : /\ Absent(s, c) => fired'[c] = fired[c]
                           /\ Once(s, c) => fired'[c] = fired[c] + 1
  BY <1>1, CallAllFacts DEF LogTypes
<1>3. Forward /\ \A u \in Threads : u # t => Same(u)
  BY DEF StepOk
<1>4. \A c \in Callbacks : Done(c) => Done(c)'
  BY <1>3, DoneKept
<1>5. /\ \A u \in Threads : u # t => callbacks'[u] = callbacks[u]
      /\ callbacks'[t] = <<>> /\ Len(callbacks'[t]) = 0
  BY DEF LogTypes
<1>6. ASSUME NEW c \in Callbacks, ~Absent(s, c)
      PROVE  /\ asked[c].lsn > 0 /\ ~asked[c].sync /\ fired[c] = 0 /\ Done(c)
             /\ ~PendingCb(c) /\ CallingCb(c) /\ Once(s, c)
  <2>1. PICK i \in 1 .. Len(callbacks[t]) : callbacks[t][i] = c
    BY <1>1, <1>6 DEF Absent
  <2>2. /\ asked[c].lsn > 0 /\ ~asked[c].sync
        /\ fired[c] = 0 /\ Done(c) /\ ~PendingCb(c)
        /\ \A w \in Threads : \A j \in 1 .. Len(callbacks[w]) :
              callbacks[w][j] = c => w = t /\ j = i
    BY <2>1, CallingIs
  <2>3. Once(s, c)
    <3>1. i \in 1 .. Len(s) /\ s[i] = c
      BY <1>1, <2>1
    <3>2. \A j \in 1 .. Len(s) : s[j] = c => i = j
      BY <1>1, <2>2
    <3> QED
      BY <3>1, <3>2 DEF Once
  <2>4. CallingCb(c)
    BY <2>1 DEF CallingCb
  <2> QED
    BY <2>2, <2>3, <2>4
<1>7. \A c : PendingCb(c)' <=> PendingCb(c)
  BY DEF PendingCb
<1>8. FiredOk'
  <2> SUFFICES ASSUME NEW c \in Callbacks, fired'[c] > 0
               PROVE  /\ fired'[c] = 1 /\ Done(c)'
                      /\ asked[c].lsn > 0 /\ ~asked[c].sync
    BY DEF FiredOk
  <2>1. CASE Absent(s, c)
    BY <1>2, <1>4, <2>1 DEF Tokens, FiredOk
  <2>2. CASE ~Absent(s, c)
    BY <1>2, <1>4, <1>6, <2>2
  <2> QED
    BY <2>1, <2>2
<1>9. PendingOk'
  <2> SUFFICES ASSUME NEW l \in Locks,
                      NEW i \in 1 .. Len(m_pending_callbacks[l]),
                      NEW c \in Callbacks, c = m_pending_callbacks[l][i].cb
               PROVE  fired'[c] = fired[c]
    BY DEF Tokens, PendingOk
  <2>1. PendingCb(c)
    BY DEF PendingCb
  <2> QED
    BY <1>2, <1>6, <2>1
<1>10. CallingOk'
  <2> SUFFICES ASSUME NEW u \in Threads, NEW i \in 1 .. Len(callbacks'[u]),
                      NEW c \in Callbacks, c = callbacks'[u][i]
               PROVE  /\ asked[c].lsn > 0 /\ ~asked[c].sync
                      /\ fired'[c] = 0 /\ Done(c)' /\ ~PendingCb(c)'
                      /\ \A w \in Threads : \A j \in 1 .. Len(callbacks'[w]) :
                            callbacks'[w][j] = c => w = u /\ j = i
    BY DEF CallingOk
  <2>1. u # t
    BY <1>5
  <2>2. i \in 1 .. Len(callbacks[u]) /\ callbacks[u][i] = c
    BY <1>5, <2>1
  <2>3. /\ asked[c].lsn > 0 /\ ~asked[c].sync
        /\ fired[c] = 0 /\ Done(c) /\ ~PendingCb(c)
        /\ \A w \in Threads : \A j \in 1 .. Len(callbacks[w]) :
              callbacks[w][j] = c => w = u /\ j = i
    BY <2>2, CallingIs
  <2>4. Absent(s, c)
    BY <1>1, <2>1, <2>3 DEF Absent
  <2>5. ASSUME NEW w \in Threads, NEW j \in 1 .. Len(callbacks'[w]),
               callbacks'[w][j] = c
        PROVE  w = u /\ j = i
    <3>1. w # t
      BY <1>5, <2>5
    <3> QED
      BY <1>5, <2>3, <2>5, <3>1
  <2> QED
    BY <1>2, <1>4, <1>7, <2>3, <2>4, <2>5
<1>11. CarryOk'
  <2> SUFFICES ASSUME NEW u \in Threads, NEW c \in Callbacks, Carries(u, c)'
               PROVE  /\ c = Current(u)' /\ ~asked'[c].sync /\ asked'[c].lsn > 0
                      /\ req'[u].num = asked'[c].lsn
                      /\ cpc'[u] = FirstLock(asked'[c].kind)
                      /\ fired'[c] = 0 /\ ~PendingCb(c)' /\ ~CallingCb(c)'
    BY DEF CarryOk
  <2>1. u # t
    BY DEF Carries
  <2>2. StillCarries(u, c)
    BY <1>3, <2>1, OthersCarry
  <2>3. /\ c = Current(u) /\ ~asked[c].sync /\ asked[c].lsn > 0 /\ u = c[1]
        /\ req[u].num = asked[c].lsn /\ cpc[u] = FirstLock(asked[c].kind)
        /\ fired[c] = 0 /\ ~PendingCb(c) /\ ~CallingCb(c)
    BY <2>2, CarrierIs DEF StillCarries
  <2>4. fired'[c] = 0
    BY <1>2, <1>6, <2>3
  <2>5. ~CallingCb(c)'
    BY <1>5, <2>3 DEF CallingCb
  <2> QED
    BY <1>7, <2>2, <2>3, <2>4, <2>5 DEF StillCarries, Current
<1> QED
  BY <1>8, <1>9, <1>10, <1>11 DEF Tokens

\* A step of a thread that moves no callback.
LEMMA TokensThread ==
    ASSUME LogTypes, LogTypes', Tokens, NEW t \in Threads, StepOk(t),
           UNCHANGED <<m_pending_callbacks, callbacks, fired, asked>>,
           \A c \in Callbacks : Carries(t, c)' => StillCarries(t, c)
    PROVE  Tokens'
<1>1. Forward /\ \A u \in Threads : u # t => Same(u)
  BY DEF StepOk
<1>2. \A u \in Threads, c \in Callbacks :
         Carries(u, c)' => StillCarries(u, c)
  BY <1>1, OthersCarry
<1> QED
  BY <1>1, <1>2, TokensQuiet

LEMMA TokensGc ==
    ASSUME LogTypes, LogTypes', Tokens, Shared, NEW t \in Threads, Local(t),
           StepOk(t), GcStep(t), UNCHANGED <<diskvars, cpc, callvars>>
    PROVE  Tokens'
<1>1. /\ UNCHANGED <<m_value, req, cpc, calls, asked>>
      /\ req[t].num \in Nat /\ m_value[req[t].lock] \in Nat
  BY GcTypes DEF callvars, LogTypes
<1>2. ASSUME \/ gpc[t] \in {"test", "enter", "sleep"}
             \/ gpc'[t] \notin {"test", "enter", "sleep"}
      PROVE  \A c \in Callbacks : Carries(t, c)' => StillCarries(t, c)
  BY <1>1, <1>2 DEF Carries, StillCarries
<1>3. CASE acquire_test(t)
  <2>1. /\ gpc[t] = "test" /\ UNCHANGED <<m_pending_callbacks, callbacks>>
    BY <1>3 DEF acquire_test, lockvars, relvars
  <2>2. CASE Goto(t, "enter") /\ UNCHANGED fired
    BY <1>1, <1>2, <2>1, <2>2, TokensThread
  <2>3. CASE /\ Goto(t, "EXPIRED") /\ CallAll(<<req[t].cb>>)
             /\ ~(req[t].num > m_value[req[t].lock])
    <3>1. gpc'[t] = "EXPIRED" /\ req[t].num <= m_value[req[t].lock]
      <4>1. gpc'[t] = "EXPIRED"
        BY <2>3 DEF Goto, LogTypes
      <4> QED
        BY <1>1, <2>3, <4>1
    <3> QED
      BY <1>1, <2>1, <2>3, <3>1, TokensExpired
  <2> QED
    BY <1>3, <2>2, <2>3 DEF acquire_test
<1>4. CASE acquire_locked(t)
  <2>1. PICK l \in Locks :
              /\ l = req[t].lock /\ gpc[t] = "enter"
              /\ UNCHANGED <<m_value, m_pending_value, req, relvars>>
              /\ \/ LockedExpired(t, l) \/ LockedAcquired(t, l)
                 \/ LockedQueued(t, l) \/ LockedSleep(t)
    BY <1>4, LockedCases
  <2>2. callbacks' = callbacks
    BY <2>1 DEF relvars
  <2>3. CASE LockedExpired(t, l)
    <3>1. gpc'[t] = "EXPIRED" /\ req[t].num <= m_value[req[t].lock]
      BY <2>1, <2>3 DEF LockedExpired, Expired, Goto, LogTypes
    <3> QED
      BY <1>1, <2>1, <2>2, <2>3, <3>1, TokensExpired DEF LockedExpired
  <2>4. CASE LockedAcquired(t, l)
    <3>1. gpc'[t] = "ACQUIRED" /\ fired' = fired
      BY <2>4 DEF LockedAcquired, Goto, LogTypes
    <3>2. CASE req[t].cb = NONE /\ UNCHANGED m_pending_callbacks
      BY <1>1, <1>2, <2>1, <2>2, <3>1, <3>2, TokensThread
    <3>3. CASE req[t].cb # NONE /\ QueueCallback(t, l)
      BY <1>1, <2>1, <2>2, <3>1, <3>3, TokensQueued
    <3> QED
      BY <2>4, <3>2, <3>3 DEF LockedAcquired
  <2>5. CASE LockedQueued(t, l)
    <3>1. gpc'[t] = "CALLBACK_QUEUED"
      BY <2>5 DEF LockedQueued, Goto, LogTypes
    <3> QED
      BY <1>1, <2>1, <2>2, <2>5, <3>1, TokensQueued DEF LockedQueued
  <2>6. CASE LockedSleep(t)
    BY <1>1, <1>2, <2>1, <2>2, <2>6, TokensThread DEF LockedSleep
  <2> QED
    BY <2>1, <2>3, <2>4, <2>5, <2>6
<1>5. CASE wait(t)
  BY <1>1, <1>2, <1>5, TokensThread DEF wait, lockvars, relvars
<1>6. CASE release_lead(t) \/ release_wake(t)
  <2>1. gpc'[t] \in Releasing /\ UNCHANGED <<m_pending_callbacks, callbacks, fired>>
    <3>1. \A b, s, w : Stage(b, s, w) \in Releasing
      BY DEF Stage, Releasing
    <3>2. \E pc \in Releasing : gpc' = [gpc EXCEPT ![t] = pc]
      BY <1>6, <3>1, Zenon DEF release_lead, release_wake, Goto
    <3>3. gpc'[t] \in Releasing
      BY <3>2 DEF LogTypes
    <3> QED
      BY <1>6, <3>3 DEF release_lead, release_wake, lockvars
  <2> QED
    BY <1>1, <1>2, <2>1, TokensThread DEF Releasing
<1>7. CASE release_call(t)
  <2>1. gpc'[t] \in Releasing
    <3>1. \A b, s, w : Stage(b, s, w) \in Releasing
      BY DEF Stage, Releasing
    <3> QED
      BY <1>7, <3>1 DEF release_call, Goto, LogTypes
  <2>2. gpc'[t] \notin {"test", "enter", "sleep"}
    BY <2>1 DEF Releasing
  <2>3. /\ gpc[t] = "call" /\ m_pending_callbacks' = m_pending_callbacks
        /\ CallAll(callbacks[t]) /\ callbacks' = [callbacks EXCEPT ![t] = <<>>]
    BY <1>7 DEF release_call, lockvars
  <2> QED
    BY <1>1, <2>2, <2>3, TokensCalled
<1> QED
  BY <1>3, <1>4, <1>5, <1>6, <1>7 DEF GcStep

\* Every step of a thread keeps track of the callbacks.
LEMMA TokensStep ==
    ASSUME LogTypes, LogTypes', Tokens, Shared, NEW t \in Threads, Local(t),
           StepOk(t), StartCall(t) \/ CallStep(t)
    PROVE  Tokens'
<1> DEFINE Kept == UNCHANGED <<m_pending_callbacks, callbacks, fired, asked>>
           Gone == \A c \in Callbacks : ~Carries(t, c)'
<1>1. Kept /\ Gone => Tokens'
  BY TokensThread
<1>2. /\ cpc'[t] \notin {"flush_lock", "write_lock"} => Gone
      /\ gpc'[t] \notin {"test", "enter", "sleep"} => Gone
      /\ req'[t].cb \in {NONE, DUMMY} => Gone
  BY CbFacts DEF Carries
<1>3. ASSUME NEW l, NEW n, NEW x \in {NONE, DUMMY}, acquire(t, l, n, x)
      PROVE  Gone
  <2>1. req'[t].cb = x
    BY <1>3 DEF acquire, LogTypes
  <2> HIDE DEF Gone
  <2> QED
    BY <1>2, <2>1
<1> HIDE DEF Kept, Gone
<1>4. write_lock \in Locks /\ flush_lock \in Locks /\ write_lock # flush_lock
  BY RedoLogAssumption
<1>5. CASE StartCall(t)
  <2>1. CASE \E kind \in Kinds[t], n \in 1 .. lsn, sync \in BOOLEAN :
                log_write_up_to(t, kind, n, sync)
    BY <2>1, TokensNew
  <2>2. CASE log_write_and_flush_prepare(t)
    <3>1. Kept
      BY <2>2 DEF Kept, log_write_and_flush_prepare, AcquireFrame, lockvars,
                  relvars
    <3>2. Gone
      BY <1>3, <2>2 DEF log_write_and_flush_prepare
    <3> QED
      BY <1>1, <3>1, <3>2
  <2> QED
    BY <1>5, <2>1, <2>2 DEF StartCall
<1>6. CASE GcStep(t) /\ UNCHANGED <<diskvars, cpc, callvars>>
  BY <1>6, TokensGc
<1>7. CASE flush_acquired(t)
  <2>1. Kept
    BY <1>7 DEF Kept, flush_acquired, relvars, callvars
  <2>2. Gone
    BY <1>3, <1>7 DEF flush_acquired
  <2> QED
    BY <1>1, <2>1, <2>2
<1>8. CASE flush_not_acquired(t) \/ write_not_acquired(t)
  <2>1. Kept
    BY <1>8 DEF Kept, flush_not_acquired, write_not_acquired, lockvars, relvars,
                callvars
  <2>2. gpc'[t] = "-"
    BY <1>8 DEF flush_not_acquired, write_not_acquired, Goto, LogTypes
  <2> QED
    BY <1>1, <1>2, <2>1, <2>2
<1>9. CASE write_acquired(t)
  <2>1. Kept
    BY <1>9 DEF Kept, write_acquired, gcvars, lockvars, relvars, callvars
  <2>2. cpc'[t] = "latch"
    BY <1>9 DEF write_acquired, Move, LogTypes
  <2> QED
    BY <1>1, <1>2, <2>1, <2>2
<1>10. CASE prepare_again(t)
  <2>1. Kept
    BY <1>10 DEF Kept, prepare_again, AcquireFrame, lockvars, relvars, callvars
  <2>2. \E l \in Locks : acquire(t, l, lsn + 1, NONE)
    BY <1>4, <1>10 DEF prepare_again
  <2>3. Gone
    BY <1>3, <2>2
  <2> QED
    BY <1>1, <2>1, <2>3
<1>11. CASE commit_shrink(t)
  <2>1. Kept
    BY <1>11 DEF Kept, commit_shrink, gcvars, lockvars, relvars, callvars
  <2>2. cpc'[t] = "latch"
    BY <1>11 DEF commit_shrink
  <2> QED
    BY <1>1, <1>2, <2>1, <2>2
<1>12. CASE write_buf(t)
  <2>1. CASE Move(t, "latch", "write") /\ PendingFrame
    <3>1. Kept
      BY <1>12, <2>1 DEF Kept, write_buf, PendingFrame, relvars
    <3>2. cpc'[t] = "write"
      BY <2>1 DEF Move, LogTypes
    <3> QED
      BY <1>1, <1>2, <3>1, <3>2
  <2>2. CASE write_lsn >= lsn /\ release(t, write_lock, lsn)
    <3>1. lsn \in Nat /\ file' = file /\ asked' = asked
      BY <1>12 DEF write_buf, diskvars, LogTypes
    <3>2. lsn <= file'
      BY <2>2, <3>1 DEF Shared, LsnOk
    <3> QED
      BY <1>4, <2>2, <3>1, <3>2, TokensReleased
  <2> QED
    BY <1>12, <2>1, <2>2 DEF write_buf
<1>13. CASE write_buf_done(t)
  <2>1. /\ target[t] \in Nat /\ file' = target[t] /\ asked' = asked
        /\ release(t, write_lock, target[t])
    BY <1>13 DEF write_buf_done, callvars, LogTypes
  <2>2. target[t] <= file'
    BY <2>1
  <2> QED
    BY <1>4, <2>1, <2>2, TokensReleased
<1>14. CASE write_released(t)
  <2>1. Kept
    BY <1>14 DEF Kept, write_released, lockvars
  <2>2. cpc'[t] \in {"flush", "flush_release"}
    BY <1>14 DEF write_released, Move, LogTypes
  <2> QED
    BY <1>1, <1>2, <2>1, <2>2
<1>15. CASE flush(t)
  <2>1. Kept
    BY <1>15 DEF Kept, flush, PendingFrame, relvars
  <2>2. cpc'[t] = "fsync"
    BY <1>15 DEF flush, Move, LogTypes
  <2> QED
    BY <1>1, <1>2, <2>1, <2>2
<1>16. CASE flush_done(t)
  <2>1. /\ target[t] \in Nat /\ syncing[t] \in Nat /\ stable \in Nat
        /\ cpc[t] = "fsync" /\ asked' = asked
        /\ stable' = IF syncing[t] > stable THEN syncing[t] ELSE stable
        /\ release(t, flush_lock, target[t])
    BY <1>16 DEF flush_done, Move, LogTypes
  <2>2. target[t] <= syncing[t]
    BY <2>1 DEF Local, WriteOk
  <2>3. target[t] <= stable'
    BY <2>1, <2>2
  <2> QED
    BY <1>4, <2>1, <2>3, TokensReleased
<1>17. CASE finish(t)
  <2>1. Kept
    BY <1>17 DEF Kept, finish, lockvars
  <2>2. CASE Repeat(t) # 0
    <3>1. \E l, n : acquire(t, l, n, DUMMY)
      BY <1>17, <2>2 DEF finish, FirstAcquire
    <3>2. Gone
      BY <1>3, <3>1
    <3> QED
      BY <1>1, <2>1, <3>2
  <2>3. CASE Repeat(t) = 0
    <3>1. cpc'[t] = "idle"
      BY <1>17, <2>3 DEF finish, Move, LogTypes
    <3> QED
      BY <1>1, <1>2, <2>1, <3>1
  <2> QED
    BY <2>2, <2>3
<1> QED
  BY <1>5, <1>6, <1>7, <1>8, <1>9, <1>10, <1>11, <1>12, <1>13, <1>14, <1>15,
     <1>16, <1>17, Zenon DEF CallStep

-----------------------------------------------------------------------------
(* The invariant. *)

LEMMA LogInvParts ==
    LogInv <=> /\ LogTypes /\ Shared /\ Tokens
               /\ \A u \in Threads : Local(u)
  BY DEF LogInv, LogControl, Shared, Tokens, Local

LEMMA LogInvInit == LogInit => LogInv
<1> SUFFICES ASSUME LogInit PROVE LogInv
  OBVIOUS
<1>1. write_lock \in Locks /\ flush_lock \in Locks /\ NOBODY \notin Threads
  BY RedoLogAssumption, GroupCommitAssumption
<1>2. /\ \A l \in Locks : m_value[l] = 0 /\ m_pending_callbacks[l] = <<>>
      /\ \A l \in Locks : m_lock[l] = NOBODY
      /\ \A t \in Threads : /\ gpc[t] = "-" /\ callbacks[t] = <<>>
                            /\ cpc[t] = "idle" /\ calls[t] = 0
      /\ \A c \in Callbacks : fired[c] = 0 /\ asked[c].lsn = 0
                              /\ asked[c].kind = "write"
      /\ lsn = 0 /\ write_lsn = 0 /\ flushed_to_disk_lsn = 0
      /\ file = 0 /\ stable = 0
  BY DEF LogInit, GcInit
<1>3. LogTypes
  <2>1. PICK l \in Locks : l = CHOOSE k \in Locks : TRUE
    BY <1>1
  <2>2. req \in [Threads -> [lock : Locks, num : Nat, cb : CallbackArgs]]
    BY <2>1 DEF LogInit, GcInit, CallbackArgs
  <2>3. /\ m_pending_callbacks \in [Locks -> Seq(Pending)]
        /\ callbacks \in [Threads -> Seq(Queueable)]
    BY DEF LogInit, GcInit
  <2>4. calls \in [Threads -> 0 .. MaxCalls]
    BY GroupCommitAssumption DEF LogInit
  <2>5. /\ asked \in [Callbacks -> Asked]
        /\ call \in [Threads -> [kind : CallKinds, lsn : Nat]]
    BY DEF LogInit, Asked, CallKinds
  <2> QED
    BY <2>2, <2>3, <2>4, <2>5 DEF LogTypes, LogInit, GcInit, GcPC, CallPC
<1>4. LockOk
  BY <1>1, <1>2 DEF LockOk, HasWrite, HasFlush
<1>5. LsnOk
  BY <1>1, <1>2 DEF LsnOk
<1>6. AskedOk
  BY <1>2, CbFacts DEF AskedOk
<1>7. \A t \in Threads : Local(t)
  <2>1. \A t \in Threads, k \in 1 .. MaxCalls : ~(k < calls[t])
    BY <1>2
  <2> QED
    BY <1>2, <2>1 DEF Local, ControlOk, WriteOk, CallOk, SyncOk
<1>8. Tokens
  <2>1. CarryOk
    BY <1>2 DEF CarryOk, Carries
  <2>2. PendingOk
    BY <1>2 DEF PendingOk
  <2>3. CallingOk
    BY <1>2 DEF CallingOk
  <2>4. FiredOk
    BY <1>2 DEF FiredOk
  <2> QED
    BY <2>1, <2>2, <2>3, <2>4 DEF Tokens
<1> QED
  BY <1>3, <1>4, <1>5, <1>6, <1>7, <1>8, LogInvParts DEF Shared

LEMMA LogInvStep ==
    ASSUME LogInv, [LogNext]_logvars
    PROVE  LogInv'
<1>1. LogTypes /\ Shared /\ Tokens /\ \A u \in Threads : Local(u)
  BY LogInvParts
<1>2. SUFFICES /\ LogTypes' /\ Shared' /\ Tokens'
               /\ \A u \in Threads : Local(u)'
  BY DEF LogInv, LogControl, Shared, Tokens, Local
<1>3. CASE MtrCommit
  <2>1. /\ LogTypes' /\ Forward /\ Shared'
        /\ \A u \in Threads : Same(u) /\ Local(u)'
    BY <1>1, <1>3, MtrCommitOk
  <2>2. UNCHANGED <<m_pending_callbacks, callbacks, fired, asked>>
    BY <1>3 DEF MtrCommit, gcvars, lockvars, relvars, callvars
  <2>3. Tokens'
    BY <1>1, <2>1, <2>2, OthersCarry, TokensQuiet
  <2> QED
    BY <2>1, <2>3
<1>4. ASSUME NEW t \in Threads, StartCall(t) \/ CallStep(t)
      PROVE  /\ LogTypes' /\ Shared' /\ Tokens'
             /\ \A u \in Threads : Local(u)'
  <2>1. LogTypes'
    BY <1>1, <1>4, CallTypes
  <2>2. StepOk(t)
    BY <1>1, <1>4, <2>1, ThreadStepOk
  <2>3. Tokens'
    BY <1>1, <1>4, <2>1, <2>2, TokensStep
  <2>4. \A u \in Threads : Local(u)'
    BY <1>1, <2>1, <2>2, StepKeepsAll
  <2> QED
    BY <2>1, <2>2, <2>3, <2>4 DEF StepOk
<1>5. CASE UNCHANGED logvars
  <2>1. UNCHANGED <<m_value, m_lock, m_pending_callbacks, gpc, req,
                    m_group_commit_leader, callbacks, ret, fired, lsn,
                    write_lsn, flushed_to_disk_lsn, file, stable, cpc, call,
                    target, syncing, pending_write_lsn, calls, asked>>
    BY <1>5 DEF logvars, gcvars, lockvars, waitervars, relvars, diskvars,
                callvars
  <2>2. LogTypes'
    BY <1>1, <2>1 DEF LogTypes
  <2>3. Forward
    BY <1>1, <2>1 DEF Forward, LogTypes
  <2>4. \A u \in Threads : Same(u)
    BY <2>1 DEF Same
  <2>5. \A u \in Threads : Local(u)'
    BY <1>1, <2>1, <2>2, <2>3, <2>4, OtherKept
  <2>6. Shared'
    BY <1>1, <2>1 DEF Shared, LockOk, LsnOk, AskedOk, HasWrite, HasFlush
  <2>7. Tokens'
    BY <1>1, <2>1, <2>2, <2>3, <2>4, OthersCarry, TokensQuiet
  <2> QED
    BY <2>2, <2>5, <2>6, <2>7
<1> QED
  BY <1>3, <1>4, <1>5 DEF LogNext

\* The invariant holds in every reachable state.
THEOREM LogInvariant == LogSafety => []LogInv
<1>1. LogInit => LogInv
  BY LogInvInit
<1>2. LogInv /\ [LogNext]_logvars => LogInv'
  BY LogInvStep
<1> QED
  BY <1>1, <1>2, PTL DEF LogSafety

\* What write_lsn, flushed_to_disk_lsn and the values of the two locks claim has
\* been written and made durable.
THEOREM LogNothingClaimedEarly == LogSafety => []NothingClaimedEarly
<1>1. LogInv => NothingClaimedEarly
  BY DEF LogInv, LogControl, LogTypes, LsnOk, NothingClaimedEarly
<1> QED
  BY <1>1, LogInvariant, PTL

\* log_write_up_to() without a callback returns no earlier than the log has been
\* written, or made durable, up to the lsn it was called with.
THEOREM LogDoneOnReturn == LogSafety => []DoneOnReturn
<1>1. LogInv => DoneOnReturn
  <2> SUFFICES ASSUME LogInv, NEW c \in Callbacks, Returned(c), asked[c].sync
               PROVE  Done(c)
    BY DEF DoneOnReturn
  <2>1. PICK t \in Threads, k \in 1 .. MaxCalls : c = <<t, k>> /\ c[1] = t /\ c[2] = k
    BY CbFacts
  <2>2. /\ LogTypes /\ SyncOk(t) /\ calls[t] \in Nat /\ k \in Nat /\ k > 0
        /\ (k > calls[t] => asked[<<t, k>>].lsn = 0)
    BY CallsTypes DEF LogInv, LogControl, AskedOk
  <2>3. asked[<<t, k>>].lsn > 0 /\ (cpc[t] = "idle" \/ calls[t] > k)
    BY <2>1 DEF Returned
  <2>4. CASE k < calls[t]
    BY <2>1, <2>2, <2>4 DEF SyncOk
  <2>5. CASE k = calls[t]
    BY <2>1, <2>2, <2>3, <2>5 DEF SyncOk, Current
  <2>6. CASE k > calls[t]
    BY <2>2, <2>3, <2>6
  <2> QED
    BY <2>2, <2>4, <2>5, <2>6
<1> QED
  BY <1>1, LogInvariant, PTL

\* A callback is called once at most, and not before the log has been written, or
\* made durable, up to the lsn of its request.
THEOREM LogDoneOnCallback == LogSafety => []DoneOnCallback
<1>1. LogInv => DoneOnCallback
  BY DEF LogInv, FiredOk, DoneOnCallback
<1> QED
  BY <1>1, LogInvariant, PTL
=============================================================================
