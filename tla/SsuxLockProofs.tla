--------------------------- MODULE SsuxLockProofs ---------------------------
(***************************************************************************)
(* Proofs about ssux_lock_impl for any number of threads, on top of those  *)
(* about its mutex.  Every step of the lock is a step of the mutex or      *)
(* leaves it alone, so MutexInv is preserved.  A thread that has set       *)
(* WRITER holds the mutex (MutexUse), so there is one of them at most; the *)
(* word then counts the S and U holders exactly (ReadersWord), and an X    *)
(* lock is granted only when the word shows none (XAlone).                 *)
(***************************************************************************)
EXTENDS SsuxLock, SrwMutexProofs

HoldsMutex == {"U", "X", "release", "x_try", "rd_retry"} \cup XWaiting

\* Where a thread is in the mutex, given where it is in the lock.
MutexUse ==
    \A t \in Threads :
        /\ pc[t] \in HoldsMutex => mpc[t] = "held"
        /\ pc[t] = "none" => mpc[t] \in {"idle", "wake"}
        /\ pc[t] = "S" => mpc[t] \in {"held", "idle", "wake"}
        /\ pc[t] = "wake" => mpc[t] = "idle"

\* readers = WRITER while X is granted.
XAlone == In({"X"}) # {} => readers = WRITER

\* The locals of wr_wait(): a spin round is left, and a thread does not go to
\* sleep on the word it waits for.
WaitLocals ==
    \A t \in Threads : /\ pc[t] = "x_spin" => rspin[t] >= 1
                       /\ pc[t] = "x_wait" => rlk[t] # WRITER

SsuxInv ==
    /\ MutexInv
    /\ SsuxTypeOK
    /\ MutexUse
    /\ ReadersWord
    /\ XAlone
    /\ WaitLocals
    /\ RdWaitOnce
    /\ XWaiterNotForgotten

SU == In({"S", "U"})

-----------------------------------------------------------------------------
(* The count of S and U holders never reaches the flag. *)
LEMMA SUBound ==
    /\ IsFiniteSet(SU)
    /\ Cardinality(SU) \in 0 .. WRITER - 1
    /\ Cardinality(SU) = 0 <=> SU = {}
<1>1. SU \in SUBSET Threads
  BY DEF SU, In
<1>2. IsFiniteSet(SU) /\ Cardinality(SU) <= Cardinality(Threads)
  BY <1>1, MutexAssumption, FS_Subset DEF MutexAssumption
<1>3. Cardinality(SU) \in Nat /\ Cardinality(Threads) \in Nat
  BY <1>2, MutexAssumption, FS_CardinalityType DEF MutexAssumption
<1> QED
  BY <1>2, <1>3, WriterAssumption, FS_EmptySet DEF WriterAssumption

LEMMA SUBoundNext ==
    Cardinality(SU') \in 0 .. WRITER - 1
<1>1. SU' \in SUBSET Threads
  BY DEF SU, In
<1>2. IsFiniteSet(SU') /\ Cardinality(SU') <= Cardinality(Threads)
  BY <1>1, MutexAssumption, FS_Subset DEF MutexAssumption
<1>3. Cardinality(SU') \in Nat /\ Cardinality(Threads) \in Nat
  BY <1>2, MutexAssumption, FS_CardinalityType DEF MutexAssumption
<1> QED
  BY <1>2, <1>3, WriterAssumption DEF WriterAssumption

(* What a step does to the set of S and U holders decides the count. *)
LEMMA SUStep ==
    /\ \A t \in Threads :
          SU' = SU \cup {t} /\ t \notin SU
          => Cardinality(SU') = Cardinality(SU) + 1
    /\ \A t \in Threads :
          SU' = SU \ {t} /\ t \in SU
          => Cardinality(SU') = Cardinality(SU) - 1
BY SUBound, FS_AddElement, FS_RemoveElement

(* The flag tells whether X is granted or awaited, which takes the mutex. *)
LEMMA ReadersFacts ==
    ASSUME SsuxInv
    PROVE  /\ WRITER \in Nat \ {0}
           /\ readers >= WRITER <=> Flagged # {}
           /\ readers = Cardinality(SU) + (IF Flagged = {} THEN 0 ELSE WRITER)
           /\ \A t \in Threads : mpc[t] = "held" => Flagged \subseteq {t}
           /\ In({"X"}) # {} => SU = {} /\ Flagged = In({"X"})
<1>1. WRITER \in Nat \ {0}
  BY MutexAssumption, WriterAssumption, FS_CardinalityType
     DEF MutexAssumption, WriterAssumption
<1>2. readers = Cardinality(SU) + (IF Flagged = {} THEN 0 ELSE WRITER)
  BY DEF SsuxInv, ReadersWord, SU
<1>3. readers >= WRITER <=> Flagged # {}
  BY <1>1, <1>2, SUBound
<1>4. \A s, t \in Threads :
        mpc[s] = "held" /\ mpc[t] = "held" => s = t
  BY DEF SsuxInv, MutexInv, MutualExclusion, Holders
<1>5. \A s \in Flagged : s \in Threads /\ mpc[s] = "held"
  BY DEF SsuxInv, MutexUse, HoldsMutex, Flagged, In
<1>6. \A t \in Threads : mpc[t] = "held" => Flagged \subseteq {t}
  BY <1>4, <1>5
<1>7. ASSUME In({"X"}) # {} PROVE SU = {} /\ Flagged = In({"X"})
  <2>1. PICK x \in Threads : pc[x] = "X"
    BY <1>7 DEF In
  <2>2. x \in Flagged /\ mpc[x] = "held"
    BY <2>1, <1>5 DEF Flagged, In
  <2>3. Flagged = {x} /\ In({"X"}) = {x}
    BY <2>1, <2>2, <1>6 DEF Flagged, In
  <2>4. Cardinality(SU) = 0
    BY <1>1, <1>2, <1>7, <2>3, SUBound DEF SsuxInv, XAlone
  <2> QED
    BY <2>3, <2>4, SUBound
<1> QED
  BY <1>1, <1>2, <1>3, <1>6, <1>7

LEMMA SsuxInitInv == SsuxInit => SsuxInv
<1> SUFFICES ASSUME SsuxInit PROVE SsuxInv
  OBVIOUS
<1>1. MutexInv
  BY MutexInitInv DEF SsuxInit
<1>2. SU = {} /\ Flagged = {} /\ In({"X"}) = {}
  BY DEF SsuxInit, SU, Flagged, In, XWaiting
<1>3. ReadersWord
  BY <1>2, SUBound DEF SsuxInit, ReadersWord, SU
<1>4. SsuxTypeOK
  BY <1>1, MutexAssumption, WriterAssumption, FS_CardinalityType
     DEF SsuxInit, SsuxTypeOK, PC, MutexInv, MutexAssumption, WriterAssumption
<1>5. MutexUse /\ WaitLocals /\ RdWaitOnce /\ XWaiterNotForgotten
  BY DEF SsuxInit, MutexInit, MutexUse, HoldsMutex, XWaiting, WaitLocals,
         RdWaitOnce, XWaiterNotForgotten, In
<1> QED
  BY <1>1, <1>2, <1>3, <1>4, <1>5 DEF SsuxInv, XAlone

-----------------------------------------------------------------------------
(* Every step of the lock is a step of its mutex, or leaves it alone. *)
LEMMA IsMutexStep == [SsuxNext]_vars => [MutexNext]_mvars
<1> SUFFICES ASSUME [SsuxNext]_vars PROVE [MutexNext]_mvars
  OBVIOUS
<1>1. CASE UNCHANGED vars
  BY <1>1 DEF vars
<1>2. CASE SsuxNext
  <2>1. PICK t \in Threads : Begin(t) \/ Continue(t) \/ Spurious(t)
    BY <1>2 DEF SsuxNext
  <2>2. CASE Begin(t)
    BY <2>2 DEF Begin, rd_lock, u_lock, u_lock_try, ssux_wr_lock,
                ssux_wr_lock_try, u_wr_upgrade, wr_u_downgrade, EnterWait,
                MutexNext, MutexStep, wr_lock
  <2>3. CASE Continue(t)
    BY <2>3 DEF Continue, CallWrLock, InMutex, CallWrUnlock, rd_wait,
                ssux_wake, u_locked, x_locked, wr_wait_spin, ssux_wait,
                wr_wait_reload, x_try, rd_unlock, u_unlock, ssux_wr_unlock,
                EnterWait, MutexNext, MutexStep
  <2>4. CASE Spurious(t)
    BY <2>4 DEF Spurious, SpuriousMutexWake, SpuriousReadersWake, MutexNext,
                MutexStep
  <2> QED
    BY <2>1, <2>2, <2>3, <2>4
<1> QED
  BY <1>1, <1>2

(* What moving one thread does to the sets the word is about. *)
LEMMA MoveSets ==
    ASSUME SsuxInv, NEW t \in Threads, NEW p \in PC, Goto(t, p)
    PROVE  /\ pc' \in [Threads -> PC] /\ pc'[t] = p
           /\ \A s \in Threads : s # t => pc'[s] = pc[s]
           /\ SU' = IF p \in {"S", "U"} THEN SU \cup {t} ELSE SU \ {t}
           /\ Flagged' = IF p \in XWaiting \cup {"X"}
                           THEN Flagged \cup {t} ELSE Flagged \ {t}
<1>1. pc \in [Threads -> PC] /\ pc' = [pc EXCEPT ![t] = p]
  BY DEF SsuxInv, SsuxTypeOK, Goto
<1>2. /\ pc' \in [Threads -> PC] /\ pc'[t] = p
      /\ \A s \in Threads : s # t => pc'[s] = pc[s]
  BY <1>1
<1> QED
  BY <1>2 DEF SU, Flagged, In

(* A step that leaves the state of the lock itself alone. *)
LEMMA QuietInv ==
    ASSUME SsuxInv, MutexInv', UNCHANGED svars, MutexUse'
    PROVE  SsuxInv'
BY DEF SsuxInv, svars, SsuxTypeOK, MutexInv, ReadersWord, XAlone, WaitLocals,
       RdWaitOnce, XWaiterNotForgotten, Flagged, In

(* Shared mode: rd_lock() and the second try in rd_wait(). *)
LEMMA RdLockInv ==
    ASSUME SsuxInv, MutexInv', NEW t \in Threads, rd_lock(t) \/ rd_wait(t)
    PROVE  SsuxInv'
<1>1. /\ mvars' = mvars /\ rlk' = rlk /\ rspin' = rspin
      /\ pc[t] \in {"none", "rd_wait"} /\ t \notin SU /\ t \notin Flagged
      /\ mpc[t] = IF pc[t] = "none" THEN "idle" ELSE "held"
  BY DEF rd_lock, rd_wait, SU, Flagged, In, XWaiting, mvars
<1>2. CASE readers < WRITER
  <2>1. readers' = readers + 1 /\ Goto(t, "S")
    BY <1>2 DEF rd_lock, rd_wait, rd_lock_try
  <2>2. Flagged = {} /\ Flagged' = {} /\ SU' = SU \cup {t}
    BY <1>1, <1>2, <2>1, MoveSets, ReadersFacts DEF PC, SsuxInv, SsuxTypeOK, XWaiting
  <2>3. ReadersWord'
    BY <1>1, <2>1, <2>2, SUStep, SUBound, ReadersFacts DEF ReadersWord, SU
  <2>4. SsuxTypeOK'
    BY <1>1, <2>1, <2>2, <2>3, MoveSets, SUBoundNext, ReadersFacts
       DEF PC, SsuxInv, SsuxTypeOK, MutexInv, ReadersWord, SU
  <2>5. MutexUse' /\ WaitLocals' /\ RdWaitOnce'
    BY <1>1, <2>1, MoveSets
       DEF PC, SsuxInv, MutexUse, HoldsMutex, XWaiting, WaitLocals, RdWaitOnce,
           In, mvars
  <2>6. In({"X"})' = {} /\ In({"x_sleep"})' = {}
    BY <2>2 DEF Flagged, In, XWaiting
  <2> QED
    BY <2>3, <2>4, <2>5, <2>6 DEF SsuxInv, XAlone, XWaiterNotForgotten
<1>3. CASE ~(readers < WRITER)
  <2>1. Flagged # {}
    BY <1>3, ReadersFacts DEF SsuxInv, SsuxTypeOK
  <2>2. pc[t] = "none"
    BY <1>1, <2>1, ReadersFacts
  <2>3. readers' = readers /\ Goto(t, "rd_wait")
    BY <1>3, <2>2 DEF rd_lock, rd_wait, rd_lock_try
  <2>4. SU' = SU /\ Flagged' = Flagged
    BY <1>1, <2>3, MoveSets DEF PC, XWaiting
  <2>5. ReadersWord'
    BY <2>3, <2>4 DEF SsuxInv, ReadersWord, SU
  <2>6. SsuxTypeOK'
    BY <1>1, <2>3, MoveSets DEF PC, SsuxInv, SsuxTypeOK, MutexInv
  <2>7. MutexUse' /\ WaitLocals' /\ RdWaitOnce'
    BY <1>1, <2>3, MoveSets
       DEF PC, SsuxInv, MutexUse, HoldsMutex, XWaiting, WaitLocals, RdWaitOnce,
           In, mvars
  <2>8. XAlone' /\ XWaiterNotForgotten'
    BY <2>2, <2>3, MoveSets
       DEF PC, SsuxInv, XAlone, XWaiterNotForgotten, In
  <2> QED
    BY <2>5, <2>6, <2>7, <2>8 DEF SsuxInv
<1> QED
  BY <1>2, <1>3

(* rd_unlock(): the last reader out goes to wake the X waiter. *)
LEMMA RdUnlockInv ==
    ASSUME SsuxInv, MutexInv', NEW t \in Threads, rd_unlock(t)
    PROVE  SsuxInv'
<1>1. /\ mvars' = mvars /\ rlk' = rlk /\ rspin' = rspin
      /\ pc[t] = "S" /\ mpc[t] = "idle" /\ t \in SU /\ t \notin Flagged
      /\ readers' = readers - 1
  BY DEF rd_unlock, SU, Flagged, In, XWaiting, mvars
<1>2. PICK p \in {"wake", "none"} :
        Goto(t, p) /\ (readers = WRITER + 1 => p = "wake")
  BY DEF rd_unlock
<1>3. SU' = SU \ {t} /\ Flagged' = Flagged
  <2>1. p \in PC /\ p \notin {"S", "U"} /\ p \notin XWaiting \cup {"X"}
    BY DEF PC, XWaiting
  <2>2. SU' = SU \ {t} /\ Flagged' = Flagged \ {t}
    BY <1>2, <2>1, MoveSets
  <2> QED
    BY <1>1, <2>2
<1>4. ReadersWord'
  BY <1>1, <1>3, SUStep, SUBound, ReadersFacts DEF ReadersWord, SU
<1>5. SsuxTypeOK'
  BY <1>1, <1>2, <1>3, <1>4, MoveSets, SUBoundNext, ReadersFacts
     DEF PC, SsuxInv, SsuxTypeOK, MutexInv, ReadersWord, SU
<1>6. MutexUse' /\ WaitLocals' /\ RdWaitOnce'
  BY <1>1, <1>2, MoveSets
     DEF PC, SsuxInv, MutexUse, HoldsMutex, XWaiting, WaitLocals, RdWaitOnce,
         In, mvars
<1>7. XAlone'
  <2>1. In({"X"}) = {}
    BY <1>1, ReadersFacts
  <2> QED
    BY <1>2, <2>1, MoveSets DEF PC, XAlone, In
<1>8. XWaiterNotForgotten'
  <2>1. readers' = WRITER => pc'[t] = "wake"
    BY <1>1, <1>2, MoveSets, ReadersFacts DEF PC, SsuxInv, SsuxTypeOK
  <2> QED
    BY <2>1 DEF XWaiterNotForgotten, In
<1> QED
  BY <1>4, <1>5, <1>6, <1>7, <1>8 DEF SsuxInv

(* Requests that only go for the mutex, and u_lock_try() and wr_lock_try()
   that have got it. *)
LEMMA RequestInv ==
    ASSUME SsuxInv, MutexInv', NEW t \in Threads,
           \/ u_lock(t) \/ u_lock_try(t)
           \/ ssux_wr_lock(t) \/ ssux_wr_lock_try(t)
    PROVE  SsuxInv'
<1>1. /\ readers' = readers /\ rlk' = rlk /\ rspin' = rspin
      /\ pc[t] = "none" /\ t \notin SU /\ t \notin Flagged
  BY DEF u_lock, u_lock_try, ssux_wr_lock, ssux_wr_lock_try, SU, Flagged, In,
         XWaiting
<1>2. PICK p \in {"u_lock", "x_lock", "x_try"} :
        /\ Goto(t, p)
        /\ \/ mpc' = mpc /\ p # "x_try"
           \/ mpc[t] = "idle" /\ mpc' = [mpc EXCEPT ![t] = "held"]
  BY DEF u_lock, u_lock_try, ssux_wr_lock, ssux_wr_lock_try, wr_lock_try, mvars
<1>3. p \in PC /\ p \notin {"S", "U"} /\ p \notin XWaiting \cup {"X"}
  BY DEF PC, XWaiting
<1>4. SU' = SU /\ Flagged' = Flagged
  BY <1>1, <1>2, <1>3, MoveSets
<1>5. ReadersWord'
  BY <1>1, <1>4 DEF SsuxInv, ReadersWord, SU
<1>6. SsuxTypeOK'
  BY <1>1, <1>2, <1>3, MoveSets DEF SsuxInv, SsuxTypeOK, MutexInv
<1>7. MutexUse'
  <2>1. mpc \in [Threads -> MutexPC]
    BY DEF SsuxInv, MutexInv, MutexTypeOK
  <2> QED
    BY <1>2, <1>3, <2>1, MoveSets DEF SsuxInv, MutexUse, HoldsMutex, XWaiting
<1>8. WaitLocals' /\ RdWaitOnce'
  BY <1>1, <1>2, <1>3, MoveSets
     DEF SsuxInv, XWaiting, WaitLocals, RdWaitOnce, In
<1>9. XAlone' /\ XWaiterNotForgotten'
  BY <1>1, <1>2, <1>3, MoveSets
     DEF SsuxInv, XAlone, XWaiterNotForgotten, In, XWaiting
<1> QED
  BY <1>5, <1>6, <1>7, <1>8, <1>9 DEF SsuxInv

(* Update mode is granted under the mutex. *)
LEMMA ULockedInv ==
    ASSUME SsuxInv, MutexInv', NEW t \in Threads, u_locked(t)
    PROVE  SsuxInv'
<1>1. /\ mvars' = mvars /\ rlk' = rlk /\ rspin' = rspin
      /\ readers' = readers + 1 /\ Goto(t, "U")
      /\ pc[t] = "u_lock" /\ mpc[t] = "held" /\ t \notin SU /\ t \notin Flagged
  BY DEF u_locked, SU, Flagged, In, XWaiting, mvars
<1>2. Flagged = {} /\ Flagged' = {} /\ SU' = SU \cup {t}
  BY <1>1, MoveSets, ReadersFacts DEF PC, XWaiting
<1>3. ReadersWord'
  BY <1>1, <1>2, SUStep, SUBound, ReadersFacts DEF ReadersWord, SU
<1>4. SsuxTypeOK'
  BY <1>1, <1>2, <1>3, MoveSets, SUBoundNext, ReadersFacts
     DEF PC, SsuxInv, SsuxTypeOK, MutexInv, ReadersWord, SU
<1>5. MutexUse' /\ WaitLocals' /\ RdWaitOnce'
  BY <1>1, MoveSets
     DEF PC, SsuxInv, MutexUse, HoldsMutex, XWaiting, WaitLocals, RdWaitOnce,
         In, mvars
<1>6. In({"X"})' = {} /\ In({"x_sleep"})' = {}
  BY <1>2 DEF Flagged, In, XWaiting
<1> QED
  BY <1>3, <1>4, <1>5, <1>6 DEF SsuxInv, XAlone, XWaiterNotForgotten

(* u_unlock(), wr_unlock() and wr_u_downgrade(): the holder of the mutex
   leaves U or X. *)
LEMMA LeaveInv ==
    ASSUME SsuxInv, MutexInv', NEW t \in Threads,
           u_unlock(t) \/ ssux_wr_unlock(t) \/ wr_u_downgrade(t)
    PROVE  SsuxInv'
<1>1. /\ mvars' = mvars /\ rlk' = rlk /\ rspin' = rspin
      /\ pc[t] \in {"U", "X"} /\ mpc[t] = "held"
  BY DEF u_unlock, ssux_wr_unlock, wr_u_downgrade, mvars, SsuxInv, MutexUse,
         HoldsMutex
<1>2. PICK p \in {"release", "U"} : Goto(t, p) /\ (pc[t] = "U" => p = "release")
  BY DEF u_unlock, ssux_wr_unlock, wr_u_downgrade
<1>3. p \in PC /\ p \notin XWaiting \cup {"X"}
  BY DEF PC, XWaiting
<1>4. Flagged \subseteq {t} /\ Flagged' = {}
  BY <1>1, <1>2, <1>3, MoveSets, ReadersFacts
<1>5. ReadersWord'
  <2>1. CASE u_unlock(t)
    <3>1. t \in SU /\ t \notin Flagged /\ p = "release" /\ readers' = readers - 1
      BY <2>1, <1>2 DEF u_unlock, SU, Flagged, In, XWaiting
    <3>2. SU' = SU \ {t} /\ Flagged = {}
      BY <1>2, <1>3, <1>4, <3>1, MoveSets
    <3> QED
      BY <1>4, <3>1, <3>2, SUStep, SUBound, ReadersFacts DEF ReadersWord, SU
  <2>2. CASE pc[t] = "X"
    <3>1. SU = {}
      BY <2>2, ReadersFacts DEF In
    <3>2. CASE ssux_wr_unlock(t)
      <4>1. readers' = 0 /\ p = "release"
        BY <3>2, <2>2, <1>2, MoveSets DEF ssux_wr_unlock, PC
      <4>2. SU' = {}
        BY <1>2, <1>3, <3>1, <4>1, MoveSets
      <4> QED
        BY <1>4, <4>1, <4>2, FS_EmptySet DEF ReadersWord, SU
    <3>3. CASE wr_u_downgrade(t)
      <4>1. readers' = 1 /\ p = "U"
        BY <3>3, <2>2, <1>2, MoveSets DEF wr_u_downgrade, PC
      <4>2. SU' = SU \cup {t} /\ t \notin SU /\ Cardinality(SU) = 0
        BY <1>2, <1>3, <3>1, <4>1, MoveSets, SUBound
      <4> QED
        BY <1>4, <4>1, <4>2, SUStep DEF ReadersWord, SU
    <3> QED
      BY <2>2, <3>2, <3>3 DEF u_unlock
  <2> QED
    BY <2>1, <2>2 DEF ssux_wr_unlock, wr_u_downgrade
<1>6. SsuxTypeOK'
  <2>1. readers' \in 0 .. 2 * WRITER - 1
    BY <1>4, <1>5, SUBoundNext, ReadersFacts DEF ReadersWord, SU
  <2>2. pc' \in [Threads -> PC]
    BY <1>2, <1>3, MoveSets
  <2> QED
    BY <1>1, <2>1, <2>2 DEF SsuxInv, SsuxTypeOK, MutexInv
<1>7. MutexUse' /\ WaitLocals' /\ RdWaitOnce'
  BY <1>1, <1>2, <1>3, MoveSets
     DEF SsuxInv, MutexUse, HoldsMutex, XWaiting, WaitLocals, RdWaitOnce,
         In, mvars
<1>8. In({"X"})' = {} /\ In({"x_sleep"})' = {}
  BY <1>4 DEF Flagged, In, XWaiting
<1> QED
  BY <1>5, <1>6, <1>7, <1>8 DEF SsuxInv, XAlone, XWaiterNotForgotten

(* An X request sets WRITER: from the mutex alone, or by an upgrade of U. *)
LEMMA XRequestInv ==
    ASSUME SsuxInv, MutexInv', NEW t \in Threads,
           x_locked(t) \/ u_wr_upgrade(t)
    PROVE  SsuxInv'
<1> DEFINE old == IF pc[t] = "U" THEN readers - 1 ELSE readers
<1>1. /\ mvars' = mvars /\ pc[t] \in {"x_lock", "U"} /\ mpc[t] = "held"
      /\ readers' = WRITER + old /\ EnterWait(t, old)
  <2>1. readers \in Nat /\ WRITER \in Nat
    BY ReadersFacts DEF SsuxInv, SsuxTypeOK
  <2>2. CASE x_locked(t)
    BY <2>1, <2>2 DEF x_locked, EnterWait, mvars
  <2>3. CASE u_wr_upgrade(t)
    BY <2>1, <2>3 DEF u_wr_upgrade, EnterWait, mvars, SsuxInv, MutexUse, HoldsMutex
  <2> QED
    BY <2>2, <2>3
<1>2. Flagged = {} /\ t \notin Flagged /\ (t \in SU <=> pc[t] = "U")
  <2>1. t \notin Flagged
    BY <1>1 DEF Flagged, In, XWaiting
  <2> QED
    BY <1>1, <2>1, ReadersFacts DEF SU, In
<1>3. PICK p \in XWaiting \cup {"X"} :
        /\ Goto(t, p)
        /\ p = "X" <=> old = 0
        /\ p \in {"X", "x_spin", "x_wait"}
        /\ p = "x_spin" => SpinLoop /\ SpinRounds > 0
  BY <1>1 DEF EnterWait, XWaiting
<1>4. p \in PC /\ p \notin {"S", "U"} /\ p \notin {"none", "wake", "rd_retry"}
  BY DEF PC, XWaiting
<1>5. Flagged' = {t} /\ SU' = SU \ {t}
  BY <1>2, <1>3, <1>4, MoveSets
<1>6. old \in 0 .. WRITER - 1 /\ Cardinality(SU') = old
  <2>1. readers = Cardinality(SU) /\ WRITER \in Nat \ {0}
    BY <1>2, ReadersFacts, SUBound
  <2>2. CASE pc[t] = "U"
    <3>1. Cardinality(SU') = Cardinality(SU) - 1
      BY <1>2, <1>5, <2>2, SUStep
    <3> QED
      BY <2>1, <2>2, <3>1, SUBound, SUBoundNext
  <2>3. CASE pc[t] # "U"
    <3>1. SU' = SU
      BY <1>2, <1>5, <2>3
    <3> QED
      BY <2>1, <2>3, <3>1, SUBound
  <2> QED
    BY <2>2, <2>3
<1>7. ReadersWord'
  BY <1>1, <1>5, <1>6, ReadersFacts DEF ReadersWord, SU
<1>8. /\ rlk' = [rlk EXCEPT ![t] = IF old = 0 THEN 0 ELSE old + WRITER]
      /\ rspin' = [rspin EXCEPT ![t] =
                     IF SpinLoop /\ old # 0 THEN SpinRounds ELSE 0]
  BY <1>1 DEF EnterWait
<1> HIDE DEF old
<1>9. SsuxTypeOK'
  <2>1. readers' \in 0 .. 2 * WRITER - 1
    BY <1>1, <1>6, ReadersFacts
  <2>2. pc' \in [Threads -> PC]
    BY <1>3, <1>4, MoveSets
  <2>3. rlk' \in [Threads -> 0 .. 2 * WRITER - 1]
    BY <1>6, <1>8, ReadersFacts DEF SsuxInv, SsuxTypeOK
  <2>4. rspin' \in [Threads -> 0 .. SpinRounds]
    BY <1>8, MutexAssumption DEF SsuxInv, SsuxTypeOK, MutexAssumption
  <2> QED
    BY <2>1, <2>2, <2>3, <2>4 DEF SsuxTypeOK, MutexInv
<1>10. MutexUse' /\ RdWaitOnce'
  <2>1. mpc' = mpc
    BY <1>1 DEF mvars
  <2>2. pc'[t] = p /\ \A s \in Threads : s # t => pc'[s] = pc[s]
    BY <1>3, <1>4, MoveSets
  <2> QED
    BY <1>1, <1>4, <2>1, <2>2 DEF SsuxInv, MutexUse, HoldsMutex, RdWaitOnce, In
<1>11. WaitLocals'
  <2>1. pc'[t] = p /\ \A s \in Threads : s # t => pc'[s] = pc[s]
    BY <1>3, <1>4, MoveSets
  <2>2. p = "x_spin" => rspin'[t] >= 1
    BY <1>3, <1>8, MutexAssumption
       DEF SsuxInv, SsuxTypeOK, MutexAssumption
  <2>3. p = "x_wait" => rlk'[t] # WRITER
    BY <1>3, <1>6, <1>8, ReadersFacts DEF SsuxInv, SsuxTypeOK
  <2>4. \A s \in Threads : s # t => rlk'[s] = rlk[s] /\ rspin'[s] = rspin[s]
    BY <1>8 DEF SsuxInv, SsuxTypeOK
  <2> QED
    BY <2>1, <2>2, <2>3, <2>4 DEF SsuxInv, WaitLocals
<1>12. XAlone' /\ XWaiterNotForgotten'
  <2>1. pc'[t] = p
    BY <1>3, <1>4, MoveSets
  <2>2. In({"X"})' # {} => p = "X"
    BY <1>5, <2>1 DEF Flagged, In
  <2>3. In({"x_sleep"})' = {}
    BY <1>3, <1>5, <2>1 DEF Flagged, In, XWaiting
  <2> QED
    BY <1>1, <1>3, <1>6, <2>2, <2>3, ReadersFacts DEF XAlone, XWaiterNotForgotten
<1> QED
  BY <1>7, <1>9, <1>10, <1>11, <1>12 DEF SsuxInv

(* wr_lock_try() with the mutex: X at once, or the mutex is given back. *)
LEMMA XTryInv ==
    ASSUME SsuxInv, MutexInv', NEW t \in Threads, x_try(t)
    PROVE  SsuxInv'
<1>1. /\ mvars' = mvars /\ rlk' = rlk /\ rspin' = rspin
      /\ pc[t] = "x_try" /\ mpc[t] = "held" /\ t \notin SU /\ t \notin Flagged
  BY DEF x_try, SU, Flagged, In, XWaiting, mvars, SsuxInv, MutexUse, HoldsMutex
<1>2. PICK p \in {"X", "release"} :
        /\ Goto(t, p)
        /\ p = "X" <=> readers = 0
        /\ readers' = IF p = "X" THEN WRITER ELSE readers
  BY DEF x_try
<1>3. p \in PC /\ p \notin {"S", "U"} /\ p \notin XWaiting
  BY DEF PC, XWaiting
<1>4. Flagged = {} /\ SU' = SU /\ Flagged' = IF p = "X" THEN {t} ELSE {}
  <2>1. Flagged = {}
    BY <1>1, ReadersFacts
  <2>2. /\ SU' = SU \ {t}
        /\ p \in XWaiting \cup {"X"} => Flagged' = Flagged \cup {t}
        /\ p \notin XWaiting \cup {"X"} => Flagged' = Flagged \ {t}
    BY <1>2, <1>3, MoveSets
  <2> QED
    BY <1>1, <1>2, <1>3, <2>1, <2>2
<1>5. ReadersWord'
  BY <1>2, <1>4, SUBound, ReadersFacts DEF ReadersWord, SU
<1>6. SsuxTypeOK'
  <2>1. readers' \in 0 .. 2 * WRITER - 1
    BY <1>2, ReadersFacts DEF SsuxInv, SsuxTypeOK
  <2>2. pc' \in [Threads -> PC]
    BY <1>2, <1>3, MoveSets
  <2> QED
    BY <1>1, <2>1, <2>2 DEF SsuxInv, SsuxTypeOK, MutexInv
<1>7. MutexUse' /\ WaitLocals' /\ RdWaitOnce'
  BY <1>1, <1>2, <1>3, MoveSets
     DEF SsuxInv, MutexUse, HoldsMutex, XWaiting, WaitLocals, RdWaitOnce,
         In, mvars
<1>8. XAlone' /\ XWaiterNotForgotten'
  <2>1. pc'[t] = p
    BY <1>2, <1>3, MoveSets
  <2>2. In({"X"})' # {} => p = "X"
    BY <1>4 DEF Flagged, In
  <2>3. In({"x_sleep"})' = {}
    BY <1>2, <1>4, <2>1 DEF Flagged, In, XWaiting
  <2> QED
    BY <1>2, <2>2, <2>3 DEF XAlone, XWaiterNotForgotten
<1> QED
  BY <1>5, <1>6, <1>7, <1>8 DEF SsuxInv

(* The steps of wr_wait(), and a spurious return of its futex wait. *)
LEMMA WrWaitInv ==
    ASSUME SsuxInv, MutexInv', NEW t \in Threads,
           \/ wr_wait_spin(t) \/ ssux_wait(t) \/ wr_wait_reload(t)
           \/ SpuriousReadersWake(t)
    PROVE  SsuxInv'
<1>0. readers \in Nat /\ WRITER \in Nat
  BY ReadersFacts DEF SsuxInv, SsuxTypeOK
<1>1. /\ mvars' = mvars /\ readers' = readers
      /\ pc[t] \in XWaiting /\ mpc[t] = "held" /\ t \in Flagged /\ t \notin SU
  BY DEF wr_wait_spin, ssux_wait, wr_wait_reload, SpuriousReadersWake, mvars,
         XWaiting, SsuxInv, MutexUse, HoldsMutex, Flagged, SU, In
<1>2. PICK p \in XWaiting \cup {"X"} :
        /\ Goto(t, p)
        /\ p = "X" => readers = WRITER
        /\ p = "x_sleep" => readers # WRITER
        /\ p = "x_wait" => rlk'[t] # WRITER
        /\ p = "x_spin" => rspin'[t] >= 1
        /\ rlk'[t] \in 0 .. 2 * WRITER - 1
        /\ rspin'[t] \in 0 .. SpinRounds
        /\ rlk' = [rlk EXCEPT ![t] = rlk'[t]]
        /\ rspin' = [rspin EXCEPT ![t] = rspin'[t]]
  <2>1. /\ rlk \in [Threads -> 0 .. 2 * WRITER - 1]
        /\ rspin \in [Threads -> 0 .. SpinRounds]
        /\ readers \in 0 .. 2 * WRITER - 1
        /\ SpinRounds \in Nat
    BY MutexAssumption DEF SsuxInv, SsuxTypeOK, MutexAssumption
  <2>2. CASE wr_wait_spin(t)
    <3>1. rspin[t] >= 1
      BY <2>2 DEF wr_wait_spin, SsuxInv, WaitLocals
    <3>2. CASE readers = WRITER
      BY <1>0, <2>1, <2>2, <3>2 DEF wr_wait_spin, XWaiting
    <3>3. CASE readers # WRITER
      <4>1. /\ rlk' = [rlk EXCEPT ![t] = readers]
            /\ rspin' = [rspin EXCEPT ![t] = rspin[t] - 1]
            /\ Goto(t, IF rspin[t] = 1 THEN "x_wait" ELSE "x_spin")
        BY <2>2, <3>3 DEF wr_wait_spin
      <4> QED
        BY <1>0, <2>1, <3>1, <3>3, <4>1 DEF XWaiting
    <3> QED
      BY <3>2, <3>3
  <2>3. CASE ssux_wait(t)
    <3>1. rlk[t] # WRITER
      BY <2>3 DEF ssux_wait, SsuxInv, WaitLocals
    <3> QED
      BY <2>1, <2>3, <3>1 DEF ssux_wait, XWaiting
  <2>4. CASE wr_wait_reload(t)
    BY <1>0, <2>1, <2>4 DEF wr_wait_reload, XWaiting
  <2>5. CASE SpuriousReadersWake(t)
    BY <2>1, <2>5 DEF SpuriousReadersWake, XWaiting
  <2> QED
    BY <2>2, <2>3, <2>4, <2>5
<1>3. p \in PC /\ p \notin {"S", "U"} /\ p \notin {"none", "wake", "rd_retry"}
  BY DEF PC, XWaiting
<1>4. SU' = SU /\ Flagged' = Flagged
  <2>1. SU' = SU \ {t} /\ Flagged' = Flagged \cup {t}
    BY <1>2, <1>3, MoveSets
  <2> QED
    BY <1>1, <2>1
<1>5. pc' \in [Threads -> PC] /\ pc'[t] = p
      /\ \A s \in Threads : s # t => pc'[s] = pc[s]
  BY <1>2, <1>3, MoveSets
<1>6. ReadersWord'
  BY <1>1, <1>4 DEF SsuxInv, ReadersWord, SU
<1>7. SsuxTypeOK'
  BY <1>1, <1>2, <1>5 DEF SsuxInv, SsuxTypeOK, MutexInv
<1>8. MutexUse' /\ RdWaitOnce'
  BY <1>1, <1>3, <1>5 DEF SsuxInv, MutexUse, HoldsMutex, RdWaitOnce, In, mvars
<1>9. WaitLocals'
  <2>1. \A s \in Threads : s # t => rlk'[s] = rlk[s] /\ rspin'[s] = rspin[s]
    BY <1>2 DEF SsuxInv, SsuxTypeOK
  <2> QED
    BY <1>2, <1>5, <2>1 DEF SsuxInv, WaitLocals
<1>10. XAlone'
  <2>1. In({"X"})' # {} => p = "X" \/ In({"X"}) # {}
    BY <1>5 DEF In
  <2> QED
    BY <1>1, <1>2, <2>1 DEF SsuxInv, XAlone
<1>11. XWaiterNotForgotten'
  <2>1. In({"wake"})' = In({"wake"})
    BY <1>1, <1>3, <1>5 DEF In, XWaiting
  <2>2. In({"x_sleep"})' # {} => p = "x_sleep" \/ In({"x_sleep"}) # {}
    BY <1>5 DEF In
  <2> QED
    BY <1>1, <1>2, <2>1, <2>2 DEF SsuxInv, XWaiterNotForgotten
<1> QED
  BY <1>6, <1>7, <1>8, <1>9, <1>10, <1>11 DEF SsuxInv

(* The wake-up of the X waiter: there is one sleeper at most, because a thread
   that waits for X holds the mutex. *)
LEMMA SsuxWakeInv ==
    ASSUME SsuxInv, MutexInv', NEW t \in Threads, ssux_wake(t)
    PROVE  SsuxInv'
<1>1. /\ mvars' = mvars /\ readers' = readers /\ rlk' = rlk /\ rspin' = rspin
      /\ pc[t] = "wake" /\ mpc[t] = "idle"
  BY DEF ssux_wake, mvars, SsuxInv, MutexUse
<1>2. pc \in [Threads -> PC]
  BY DEF SsuxInv, SsuxTypeOK
<1>3. \A s \in Threads :
        \/ pc'[s] = pc[s] /\ s # t
        \/ s = t /\ pc'[s] = "none"
        \/ pc[s] = "x_sleep" /\ pc'[s] = "x_reload"
  <2>1. CASE In({"x_sleep"}) = {} /\ Goto(t, "none")
    BY <1>2, <2>1 DEF Goto
  <2>2. CASE \E s \in In({"x_sleep"}) :
               pc' = [pc EXCEPT ![t] = "none", ![s] = "x_reload"]
    BY <1>1, <1>2, <2>2 DEF In
  <2> QED
    BY <2>1, <2>2 DEF ssux_wake
<1>4. pc' \in [Threads -> PC]
  <2>1. CASE In({"x_sleep"}) = {} /\ Goto(t, "none")
    BY <1>2, <2>1 DEF Goto, PC
  <2>2. CASE \E s \in In({"x_sleep"}) :
               pc' = [pc EXCEPT ![t] = "none", ![s] = "x_reload"]
    BY <1>2, <2>2 DEF In, PC
  <2> QED
    BY <2>1, <2>2 DEF ssux_wake
<1>5. SU' = SU /\ Flagged' = Flagged /\ In({"X"})' = In({"X"})
  BY <1>1, <1>3 DEF SU, Flagged, In, XWaiting
<1>6. In({"x_sleep"})' = {}
  <2>1. \A s \in In({"x_sleep"}) : s \in Flagged
    BY DEF In, Flagged, XWaiting
  <2>2. \A r, s \in In({"x_sleep"}) : r = s
    <3>1. \A s \in In({"x_sleep"}) : s \in Threads /\ mpc[s] = "held"
      BY DEF In, SsuxInv, MutexUse, HoldsMutex, XWaiting
    <3> QED
      BY <2>1, <3>1, ReadersFacts
  <2>3. CASE In({"x_sleep"}) = {} /\ Goto(t, "none")
    BY <1>2, <2>3 DEF Goto, In
  <2>4. CASE \E s \in In({"x_sleep"}) :
               pc' = [pc EXCEPT ![t] = "none", ![s] = "x_reload"]
    BY <1>1, <1>2, <2>2, <2>4 DEF In
  <2> QED
    BY <2>3, <2>4 DEF ssux_wake
<1>7. MutexUse' /\ WaitLocals' /\ RdWaitOnce'
  BY <1>1, <1>3 DEF SsuxInv, MutexUse, HoldsMutex, XWaiting, WaitLocals,
                    RdWaitOnce, In, mvars
<1>8. SsuxTypeOK' /\ ReadersWord' /\ XAlone'
  BY <1>1, <1>4, <1>5 DEF SsuxInv, SsuxTypeOK, MutexInv, ReadersWord, SU, XAlone
<1> QED
  BY <1>6, <1>7, <1>8 DEF SsuxInv, XWaiterNotForgotten

(* The mutex is released; at the end of a failed round of rd_wait() this would
   be followed by another one, but RdWaitOnce says that none fails. *)
LEMMA CallWrUnlockInv ==
    ASSUME SsuxInv, MutexInv', NEW t \in Threads, CallWrUnlock(t)
    PROVE  SsuxInv'
<1>1. /\ readers' = readers /\ rlk' = rlk /\ rspin' = rspin
      /\ pc[t] \in {"S", "release"}
      /\ Goto(t, IF pc[t] = "S" THEN "S" ELSE "none")
  BY DEF CallWrUnlock, SsuxInv, RdWaitOnce, In
<1>2. /\ mpc \in [Threads -> MutexPC]
      /\ mpc' = [mpc EXCEPT ![t] = IF lock = HOLDER + 1 THEN "idle" ELSE "wake"]
  BY DEF CallWrUnlock, wr_unlock, SsuxInv, MutexInv, MutexTypeOK
<1>3. /\ pc' \in [Threads -> PC]
      /\ \A s \in Threads : \/ pc'[s] = pc[s]
                            \/ s = t /\ pc[s] = "release" /\ pc'[s] = "none"
      /\ pc'[t] \in {"S", "none"}
  BY <1>1 DEF Goto, SsuxInv, SsuxTypeOK, PC
<1>4. /\ SU' = SU /\ Flagged' = Flagged /\ In({"X"})' = In({"X"})
      /\ In({"x_sleep"})' = In({"x_sleep"}) /\ In({"wake"})' = In({"wake"})
  BY <1>3 DEF SU, Flagged, In, XWaiting
<1>5. MutexUse'
  BY <1>2, <1>3 DEF SsuxInv, MutexUse, HoldsMutex, XWaiting
<1>6. WaitLocals' /\ RdWaitOnce'
  BY <1>1, <1>3 DEF SsuxInv, WaitLocals, RdWaitOnce, In
<1>7. SsuxTypeOK' /\ ReadersWord' /\ XAlone' /\ XWaiterNotForgotten'
  BY <1>1, <1>3, <1>4
     DEF SsuxInv, SsuxTypeOK, MutexInv, ReadersWord, SU, XAlone,
         XWaiterNotForgotten
<1> QED
  BY <1>5, <1>6, <1>7 DEF SsuxInv

(* What goes on inside the mutex keeps its place in the lock. *)
LEMMA InMutexInv ==
    ASSUME SsuxInv, MutexInv', NEW t \in Threads,
           CallWrLock(t) \/ InMutex(t) \/ SpuriousMutexWake(t)
    PROVE  SsuxInv'
<1>0. mpc \in [Threads -> MutexPC]
  BY DEF SsuxInv, MutexInv, MutexTypeOK
<1>1. UNCHANGED svars
  BY DEF CallWrLock, InMutex, SpuriousMutexWake
<1>2. \A s \in Threads :
        \/ mpc'[s] = mpc[s]
        \/ mpc[s] \in {"add", "spin", "loop", "sleep", "reload"}
        \/ mpc[s] = "wake" /\ mpc'[s] = "idle"
        \/ s = t /\ pc[s] \in {"rd_wait", "u_lock", "x_lock"}
  <2>1. CASE CallWrLock(t)
    BY <1>0, <2>1 DEF CallWrLock, wr_lock, wr_lock_try, wr_lock_busy
  <2>2. CASE wait_and_lock(t)
    BY <1>0, <2>2 DEF wait_and_lock, FetchAdd, SpinLoad, SpinFetchOrFail,
                      FetchOr, LoopFetchOrFail, wait, Reload, NextRound
  <2>3. CASE wake(t)
    BY <1>0, <2>3 DEF wake, Sleepers
  <2>4. CASE SpuriousMutexWake(t)
    BY <1>0, <2>4 DEF SpuriousMutexWake, SpuriousWake
  <2> QED
    BY <2>1, <2>2, <2>3, <2>4 DEF InMutex
<1>3. MutexUse'
  <2>1. pc' = pc
    BY <1>1 DEF svars
  <2>2. \A s \in Threads :
          /\ pc[s] \in HoldsMutex => mpc[s] = "held"
          /\ pc[s] = "none" => mpc[s] \in {"idle", "wake"}
          /\ pc[s] = "S" => mpc[s] \in {"held", "idle", "wake"}
          /\ pc[s] = "wake" => mpc[s] = "idle"
    BY DEF SsuxInv, MutexUse
  <2> QED
    BY <1>2, <2>1, <2>2 DEF MutexUse, HoldsMutex, XWaiting
<1> QED
  BY <1>1, <1>3, QuietInv

LEMMA SsuxStepInv ==
    ASSUME SsuxInv, [SsuxNext]_vars
    PROVE  SsuxInv'
<1>1. MutexInv'
  BY IsMutexStep, MutexStepInv DEF SsuxInv
<1>2. CASE UNCHANGED vars
  <2>1. MutexUse'
    BY <1>2 DEF vars, svars, mvars, SsuxInv, MutexUse
  <2> QED
    BY <1>1, <1>2, <2>1, QuietInv DEF vars
<1>3. CASE SsuxNext
  <2>1. PICK t \in Threads : Begin(t) \/ Continue(t) \/ Spurious(t)
    BY <1>3 DEF SsuxNext
  <2>2. CASE Begin(t)
    BY <1>1, <2>2, RdLockInv, RequestInv, XRequestInv, LeaveInv DEF Begin
  <2>3. CASE Continue(t)
    BY <1>1, <2>3, InMutexInv, CallWrUnlockInv, RdLockInv, SsuxWakeInv,
       ULockedInv, XRequestInv, WrWaitInv, XTryInv, RdUnlockInv, LeaveInv
       DEF Continue
  <2>4. CASE Spurious(t)
    BY <1>1, <2>4, InMutexInv, WrWaitInv DEF Spurious
  <2> QED
    BY <2>1, <2>2, <2>3, <2>4
<1> QED
  BY <1>2, <1>3

-----------------------------------------------------------------------------
(* SsuxInv holds in every state of every behaviour of the lock. *)
THEOREM SsuxInvariant == SsuxSpec => []SsuxInv
<1>1. SsuxInit => SsuxInv
  BY SsuxInitInv
<1>2. SsuxInv /\ [SsuxNext]_vars => SsuxInv'
  BY SsuxStepInv
<1> QED
  BY <1>1, <1>2, PTL DEF SsuxSpec

(* An X holder is alone, and U holders and X waiters exclude each other
   (ssux_lock_impl, every lock, try, upgrade and downgrade). *)
THEOREM SsuxExclusion == SsuxSpec => []Exclusion
<1>1. SsuxInv => Exclusion
  <2> SUFFICES ASSUME SsuxInv, NEW s \in Threads, NEW t \in Threads, s # t
               PROVE  /\ pc[s] = "X" => pc[t] \notin {"S", "U", "X"} \cup XWaiting
                      /\ pc[s] \in {"U"} \cup XWaiting =>
                            pc[t] \notin {"U", "X"} \cup XWaiting
    BY DEF Exclusion
  <2>1. ~(mpc[s] = "held" /\ mpc[t] = "held")
    BY DEF SsuxInv, MutexInv, MutualExclusion, Holders
  <2>2. \A r \in Threads : pc[r] \in {"U", "X"} \cup XWaiting => mpc[r] = "held"
    BY DEF SsuxInv, MutexUse, HoldsMutex
  <2>3. pc[s] = "X" => pc[t] # "S"
    BY ReadersFacts DEF SU, In
  <2> QED
    BY <2>1, <2>2, <2>3
<1> QED
  BY <1>1, SsuxInvariant, PTL

(* An X waiter asleep on "readers" is never forgotten (rd_unlock, wr_wait). *)
THEOREM SsuxXWaiterNotForgotten == SsuxSpec => []XWaiterNotForgotten
<1>1. SsuxInv => XWaiterNotForgotten
  BY DEF SsuxInv
<1> QED
  BY <1>1, SsuxInvariant, PTL

-----------------------------------------------------------------------------
(* A step that moves one thread and gives it another mode. *)
LEMMA OneMode ==
    ASSUME SsuxInv, NEW t \in Threads, NEW p \in PC, Goto(t, p)
    PROVE  /\ mode' = [mode EXCEPT ![t] = AbstractMode(p)]
           /\ mode[t] = AbstractMode(pc[t])
           /\ \A s \in Threads \ {t} : mode[s] = AbstractMode(pc'[s])
           /\ pc'[t] = p
<1>1. /\ pc'[t] = p
      /\ \A s \in Threads : s # t => pc'[s] = pc[s]
  BY MoveSets
<1> QED
  BY <1>1 DEF mode

(* Every step of the lock is a step of SuxModes, or leaves all modes alone. *)
LEMMA ModeStep ==
    ASSUME SsuxInv, Exclusion', [SsuxNext]_vars
    PROVE  [Abstract!ModesNext]_mode
<1> USE DEF Abstract!Become, Abstract!Others, AbstractMode, XWaiting, PC
<1>1. ASSUME NEW t \in Threads, rd_lock(t) \/ rd_wait(t)
      PROVE  [Abstract!ModesNext]_mode
  <2>1. pc[t] \in {"none", "rd_wait"}
    BY <1>1 DEF rd_lock, rd_wait
  <2>2. CASE readers < WRITER
    <3>1. Goto(t, "S")
      BY <1>1, <2>2 DEF rd_lock, rd_wait, rd_lock_try
    <3>2. Flagged = {}
      BY <2>2, ReadersFacts DEF SsuxInv, SsuxTypeOK
    <3>3. \A s \in Threads : mode[s] \in {"none", "S", "U"}
      BY <3>2 DEF mode, Flagged, In
    <3>4. Abstract!AcquireS(t)
      BY <2>1, <3>1, <3>3, OneMode DEF Abstract!AcquireS
    <3> QED
      BY <3>4 DEF Abstract!ModesNext
  <2>3. CASE ~(readers < WRITER)
    <3>1. \E p \in {"rd_wait", "rd_retry"} : Goto(t, p)
      BY <1>1, <2>3 DEF rd_lock, rd_wait, rd_lock_try
    <3>2. mode' = [mode EXCEPT ![t] = "none"] /\ mode[t] = "none"
      BY <2>1, <3>1, OneMode
    <3> QED
      BY <3>2 DEF mode
  <2> QED
    BY <2>2, <2>3
<1>2. ASSUME NEW t \in Threads,
             rd_unlock(t) \/ u_unlock(t) \/ ssux_wr_unlock(t)
      PROVE  [Abstract!ModesNext]_mode
  <2>1. pc[t] \in {"S", "U", "X"}
    BY <1>2 DEF rd_unlock, u_unlock, ssux_wr_unlock
  <2>2. \E p \in {"wake", "none", "release"} : Goto(t, p)
    BY <1>2 DEF rd_unlock, u_unlock, ssux_wr_unlock
  <2>3. mode' = [mode EXCEPT ![t] = "none"] /\ mode[t] \in {"S", "U", "X"}
    BY <2>1, <2>2, OneMode
  <2>4. \A s \in Threads : mode[s] \in Abstract!Modes
    BY DEF mode, Abstract!Modes
  <2>5. Abstract!Release(t)
    BY <2>3, <2>4 DEF Abstract!Release
  <2> QED
    BY <2>5 DEF Abstract!ModesNext
<1>3. ASSUME NEW t \in Threads, wr_u_downgrade(t)
      PROVE  [Abstract!ModesNext]_mode
  <2>1. mode' = [mode EXCEPT ![t] = "U"] /\ mode[t] = "X"
    BY <1>3, OneMode DEF wr_u_downgrade
  <2>2. \A s \in Threads : mode[s] \in Abstract!Modes
    BY DEF mode, Abstract!Modes
  <2>3. Abstract!Downgrade(t)
    BY <2>1, <2>2 DEF Abstract!Downgrade
  <2> QED
    BY <2>3 DEF Abstract!ModesNext
<1>4. ASSUME NEW t \in Threads, u_locked(t)
      PROVE  [Abstract!ModesNext]_mode
  <2>1. /\ mode' = [mode EXCEPT ![t] = "U"] /\ mode[t] = "none"
        /\ \A s \in Threads \ {t} : mode[s] = AbstractMode(pc'[s])
        /\ pc'[t] = "U"
    BY <1>4, OneMode DEF u_locked
  <2>2. \A s \in Threads \ {t} : mode[s] \in {"none", "S"}
    BY <2>1 DEF Exclusion
  <2>3. Abstract!AcquireU(t)
    BY <2>1, <2>2 DEF Abstract!AcquireU
  <2> QED
    BY <2>3 DEF Abstract!ModesNext
<1>5. ASSUME NEW t \in Threads, NEW p \in XWaiting \cup {"X"}, Goto(t, p),
             pc[t] \in {"x_lock", "U", "x_try"} \cup XWaiting
      PROVE  [Abstract!ModesNext]_mode
  <2>1. /\ mode' = [mode EXCEPT ![t] = IF p = "X" THEN "X" ELSE "W"]
        /\ mode[t] \in {"none", "U", "W"}
        /\ \A s \in Threads \ {t} : mode[s] = AbstractMode(pc'[s])
        /\ pc'[t] = p
    BY <1>5, OneMode
  <2>2. CASE p = "X"
    <3>1. \A s \in Threads \ {t} : mode[s] = "none"
      BY <2>1, <2>2 DEF Exclusion
    <3>2. Abstract!AcquireX(t)
      BY <2>1, <2>2, <3>1 DEF Abstract!AcquireX
    <3> QED
      BY <3>2 DEF Abstract!ModesNext
  <2>3. CASE p # "X" /\ mode[t] # "W"
    <3>1. \A s \in Threads \ {t} : mode[s] \in {"none", "S"}
      BY <2>1, <2>3 DEF Exclusion
    <3>2. Abstract!RequestX(t)
      BY <2>1, <2>3, <3>1 DEF Abstract!RequestX
    <3> QED
      BY <3>2 DEF Abstract!ModesNext
  <2>4. CASE p # "X" /\ mode[t] = "W"
    BY <2>1, <2>4 DEF mode
  <2> QED
    BY <2>2, <2>3, <2>4
<1>6. ASSUME \A s \in Threads : AbstractMode(pc'[s]) = AbstractMode(pc[s])
      PROVE  [Abstract!ModesNext]_mode
  BY <1>6 DEF mode
<1>7. CASE UNCHANGED vars
  BY <1>6, <1>7 DEF vars, svars
<1>8. ASSUME NEW t \in Threads, Begin(t) PROVE [Abstract!ModesNext]_mode
  <2>1. CASE u_lock(t) \/ u_lock_try(t) \/ ssux_wr_lock(t) \/ ssux_wr_lock_try(t)
    <3>1. /\ pc[t] = "none"
          /\ \E p \in {"u_lock", "x_lock", "x_try"} : Goto(t, p)
      BY <2>1 DEF u_lock, u_lock_try, ssux_wr_lock, ssux_wr_lock_try
    <3>2. mode' = [mode EXCEPT ![t] = "none"] /\ mode[t] = "none"
      BY <3>1, OneMode
    <3> QED
      BY <3>2 DEF mode
  <2>2. CASE u_wr_upgrade(t)
    BY <1>5, <2>2 DEF u_wr_upgrade, EnterWait
  <2> QED
    BY <1>1, <1>3, <1>8, <2>1, <2>2 DEF Begin
<1>9. ASSUME NEW t \in Threads, Continue(t) PROVE [Abstract!ModesNext]_mode
  <2>1. CASE CallWrLock(t) \/ InMutex(t)
    BY <1>6, <2>1 DEF CallWrLock, InMutex, svars
  <2>2. CASE CallWrUnlock(t)
    <3>1. /\ pc[t] \in {"S", "rd_retry", "release"}
          /\ Goto(t, IF pc[t] = "S" THEN "S"
                     ELSE IF pc[t] = "rd_retry" THEN "rd_wait" ELSE "none")
      BY <2>2 DEF CallWrUnlock
    <3>2. pc \in [Threads -> PC]
      BY DEF SsuxInv, SsuxTypeOK
    <3> QED
      BY <1>6, <3>1, <3>2 DEF Goto
  <2>3. CASE ssux_wake(t)
    <3>1. pc \in [Threads -> PC] /\ pc[t] = "wake"
      BY <2>3 DEF SsuxInv, SsuxTypeOK, ssux_wake
    <3>2. CASE Goto(t, "none")
      BY <1>6, <3>1, <3>2 DEF Goto
    <3>3. CASE \E s \in In({"x_sleep"}) :
                 pc' = [pc EXCEPT ![t] = "none", ![s] = "x_reload"]
      <4>1. PICK s \in In({"x_sleep"}) :
              pc' = [pc EXCEPT ![t] = "none", ![s] = "x_reload"]
        BY <3>3
      <4>2. s \in Threads /\ pc[s] = "x_sleep"
        BY DEF In
      <4> QED
        BY <1>6, <3>1, <4>1, <4>2
    <3> QED
      BY <2>3, <3>2, <3>3 DEF ssux_wake
  <2>4. CASE x_locked(t)
    BY <1>5, <2>4 DEF x_locked, EnterWait
  <2>5. CASE wr_wait_spin(t) \/ ssux_wait(t) \/ wr_wait_reload(t)
    BY <1>5, <2>5 DEF wr_wait_spin, ssux_wait, wr_wait_reload
  <2>6. CASE x_try(t)
    <3>1. CASE Goto(t, "X")
      BY <1>5, <2>6, <3>1 DEF x_try
    <3>2. CASE Goto(t, "release")
      <4>1. mode' = [mode EXCEPT ![t] = "none"] /\ mode[t] = "none"
        BY <2>6, <3>2, OneMode DEF x_try
      <4> QED
        BY <4>1 DEF mode
    <3> QED
      BY <2>6, <3>1, <3>2 DEF x_try
  <2> QED
    BY <1>1, <1>2, <1>4, <1>9, <2>1, <2>2, <2>3, <2>4, <2>5, <2>6 DEF Continue
<1>10. ASSUME NEW t \in Threads, Spurious(t) PROVE [Abstract!ModesNext]_mode
  <2>1. CASE SpuriousMutexWake(t)
    BY <1>6, <2>1 DEF SpuriousMutexWake, svars
  <2>2. CASE SpuriousReadersWake(t)
    BY <1>5, <2>2 DEF SpuriousReadersWake
  <2> QED
    BY <1>10, <2>1, <2>2 DEF Spurious
<1> QED
  BY <1>7, <1>8, <1>9, <1>10 DEF SsuxNext

(* The lock implements the safety part of SuxModes: what the modes exclude and
   how they may change (ssux_lock_impl). *)
THEOREM SsuxImplementsModes == SsuxSpec => Abstract!ModesSafety
<1>1. SsuxInit => Abstract!ModesInit
  BY DEF SsuxInit, Abstract!ModesInit, mode, AbstractMode, XWaiting
<1>2. SsuxInv /\ Exclusion' /\ [SsuxNext]_vars => [Abstract!ModesNext]_mode
  BY ModeStep
<1> QED
  BY <1>1, <1>2, SsuxInvariant, SsuxExclusion, PTL
     DEF SsuxSpec, Abstract!ModesSafety
=============================================================================
