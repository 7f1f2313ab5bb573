--------------------------- MODULE SrwMutexProofs ---------------------------
(***************************************************************************)
(* Proofs about srw_mutex_impl for any number of threads, with or without  *)
(* the spin loop, on either variant of fetch_or.  The safety properties    *)
(* of SrwMutex are inductive taken together: MutualExclusion needs the     *)
(* word to show every holder, LockWord needs each acquisition to find the  *)
(* flag clear, and NoLostWakeup needs both.                                *)
(***************************************************************************)
EXTENDS SrwMutex, FiniteSetTheorems, TLAPS

MutexInv ==
    /\ MutexTypeOK
    /\ LockWord
    /\ MutualExclusion
    /\ NoLostWakeup
    /\ WaiterSeesItself

-----------------------------------------------------------------------------
(* The count never reaches the flag. *)
LEMMA CountedBound ==
    /\ IsFiniteSet(Counted)
    /\ Cardinality(Counted) \in 0 .. HOLDER - 1
    /\ Cardinality(Counted) = 0 <=> Counted = {}
<1>1. Counted \in SUBSET Threads
  BY DEF Counted
<1>2. IsFiniteSet(Counted) /\ Cardinality(Counted) <= Cardinality(Threads)
  BY <1>1, MutexAssumption, FS_Subset DEF MutexAssumption
<1>3. Cardinality(Counted) \in Nat /\ Cardinality(Threads) \in Nat
  BY <1>2, MutexAssumption, FS_CardinalityType DEF MutexAssumption
<1> QED
  BY <1>2, <1>3, MutexAssumption, FS_EmptySet DEF MutexAssumption

(* The flag tells whether the mutex is held, and a counted thread shows. *)
LEMMA WordFacts ==
    ASSUME MutexInv
    PROVE  /\ lock >= HOLDER <=> Holders # {}
           /\ Counted # {} => lock \notin {0, HOLDER}
           /\ lock = 0 => Counted = {}
           /\ \A t \in Holders : lock = HOLDER + 1 => Counted = {t}
           /\ \A t \in Holders : t \in Counted
           /\ HOLDER \in Nat \ {0}
           /\ Threads # {} => HOLDER > 1
<1>0. Threads # {} => HOLDER > 1
  BY MutexAssumption, FS_CardinalityType, FS_EmptySet DEF MutexAssumption
<1>1. HOLDER \in Nat \ {0}
  BY MutexAssumption, FS_CardinalityType DEF MutexAssumption
<1>2. \A t \in Holders : t \in Counted
  BY DEF Holders, Counted
<1>3. \A t \in Holders : lock = HOLDER + 1 => Counted = {t}
  <2> SUFFICES ASSUME NEW t \in Holders, lock = HOLDER + 1
               PROVE  Counted = {t}
    OBVIOUS
  <2>1. Cardinality(Counted) = 1
    BY CountedBound, <1>1 DEF MutexInv, LockWord
  <2>2. PICK x : Counted = {x}
    BY <2>1, CountedBound, FS_Singleton
  <2> QED
    BY <2>2, <1>2
<1> QED
  BY <1>0, <1>1, <1>2, <1>3, CountedBound DEF MutexInv, LockWord

-----------------------------------------------------------------------------
(* What a step does to Counted decides what it does to its cardinality. *)
LEMMA CountedStep ==
    /\ \A t \in Threads :
          /\ Counted' = Counted \cup {t} /\ t \notin Counted
          => Cardinality(Counted') = Cardinality(Counted) + 1
    /\ \A t \in Threads :
          /\ Counted' = Counted \ {t} /\ t \in Counted
          => Cardinality(Counted') = Cardinality(Counted) - 1
BY CountedBound, FS_AddElement, FS_RemoveElement

LEMMA MutexInitInv == MutexInit => MutexInv
<1> SUFFICES ASSUME MutexInit PROVE MutexInv
  OBVIOUS
<1>1. Counted = {} /\ Holders = {} /\ Sleepers = {}
  BY DEF MutexInit, Counted, Holders, Sleepers
<1>2. Cardinality(Counted) = 0
  BY <1>1, CountedBound
<1>3. MutexTypeOK
  BY MutexAssumption, FS_CardinalityType
     DEF MutexInit, MutexTypeOK, MutexPC, MutexAssumption
<1>4. WaiterSeesItself
  BY DEF MutexInit, WaiterSeesItself
<1> QED
  BY <1>1, <1>2, <1>3, <1>4
     DEF MutexInit, MutexInv, LockWord, MutualExclusion, NoLostWakeup

(* Acquisition by compare-and-swap. *)
LEMMA TryInv ==
    ASSUME MutexInv, NEW t \in Threads, wr_lock_try(t)
    PROVE  MutexInv'
<1> USE DEF MutexInv
<1>1. Counted = {} /\ Holders = {}
  BY WordFacts DEF wr_lock_try
<1>2. Counted' = Counted \cup {t} /\ Holders' = {t}
  BY <1>1 DEF wr_lock_try, MutexTypeOK, Counted, Holders
<1>3. LockWord'
  <2>1. Cardinality(Counted') = Cardinality(Counted) + 1
    BY <1>1, <1>2, CountedStep
  <2>2. Cardinality(Counted) = 0
    BY <1>1, CountedBound
  <2> QED
    BY <1>2, <2>1, <2>2, WordFacts DEF wr_lock_try, LockWord
<1>4. MutexTypeOK'
  BY WordFacts DEF wr_lock_try, MutexTypeOK, MutexPC
<1>5. WaiterSeesItself'
  BY DEF wr_lock_try, MutexTypeOK, WaiterSeesItself
<1> QED
  BY <1>2, <1>3, <1>4, <1>5 DEF MutualExclusion, NoLostWakeup

(* A waiter that registers in the word. *)
LEMMA FetchAddInv ==
    ASSUME MutexInv, NEW t \in Threads, FetchAdd(t)
    PROVE  MutexInv'
<1> USE DEF MutexInv
<1>1. /\ Counted' = Counted \cup {t} /\ t \notin Counted
      /\ Holders' = Holders /\ Sleepers' = Sleepers /\ t \in Awake'
  BY DEF FetchAdd, MutexTypeOK, Counted, Holders, Sleepers, Awake
<1>2. LockWord'
  <2>1. Cardinality(Counted') = Cardinality(Counted) + 1
    BY <1>1, CountedStep
  <2> QED
    BY <1>1, <2>1, CountedBound, WordFacts DEF FetchAdd, LockWord
<1>3. lock + 1 \in 1 .. 2 * HOLDER - 1 /\ lock + 1 # HOLDER
  <2>1. Cardinality(Counted)' \in 0 .. HOLDER - 1
    <3>1. Counted' \in SUBSET Threads
      BY DEF Counted
    <3>2. IsFiniteSet(Counted') /\ Cardinality(Counted') <= Cardinality(Threads)
      BY <3>1, MutexAssumption, FS_Subset DEF MutexAssumption
    <3>3. Cardinality(Counted') \in Nat /\ Cardinality(Threads) \in Nat
      BY <3>2, MutexAssumption, FS_CardinalityType DEF MutexAssumption
    <3> QED
      BY <3>2, <3>3, MutexAssumption DEF MutexAssumption
  <2>2. Cardinality(Counted') = Cardinality(Counted) + 1
    BY <1>1, CountedStep
  <2> QED
    BY <2>1, <2>2, CountedBound, WordFacts DEF LockWord
<1>4. MutexTypeOK'
  BY <1>3, MutexAssumption DEF FetchAdd, MutexTypeOK, MutexPC, MutexAssumption
<1>5. WaiterSeesItself'
  BY <1>3 DEF FetchAdd, MutexTypeOK, WaiterSeesItself
<1> QED
  BY <1>1, <1>2, <1>4, <1>5 DEF MutualExclusion, NoLostWakeup

(* Acquisition by fetch_or, in the spin loop or in the wait loop. *)
LEMMA FetchOrInv ==
    ASSUME MutexInv, NEW t \in Threads, FetchOr(t)
    PROVE  MutexInv'
<1> USE DEF MutexInv
<1>1. Holders = {}
  BY WordFacts DEF FetchOr, MutexTypeOK
<1>2. Counted' = Counted /\ Holders' = {t}
  BY <1>1 DEF FetchOr, MutexTypeOK, Counted, Holders
<1>3. LockWord'
  BY <1>1, <1>2, CountedBound, WordFacts DEF FetchOr, LockWord
<1>4. MutexTypeOK'
  BY WordFacts, MutexAssumption
     DEF FetchOr, MutexTypeOK, MutexPC, MutexAssumption
<1>5. WaiterSeesItself'
  BY DEF FetchOr, MutexTypeOK, WaiterSeesItself
<1> QED
  BY <1>2, <1>3, <1>4, <1>5 DEF MutualExclusion, NoLostWakeup

(* Steps that leave the word alone and move one registered thread about
   among the places where it is awake. *)
LEMMA LookInv ==
    ASSUME MutexInv, NEW t \in Threads,
           \/ SpinLoad(t) \/ SpinFetchOrFail(t) \/ LoopFetchOrFail(t)
           \/ Reload(t) \/ SpuriousWake(t)
    PROVE  MutexInv'
<1> USE DEF MutexInv
<1>1. /\ Counted' = Counted /\ t \in Counted /\ Holders' = Holders
      /\ t \in Awake' /\ lock' = lock
  BY DEF SpinLoad, SpinFetchOrFail, LoopFetchOrFail, Reload, SpuriousWake,
         NextRound, MutexTypeOK, Counted, Holders, Awake
<1>2. /\ lock \notin {0, HOLDER} /\ HOLDER \in Nat \ {0}
      /\ lock \in 0 .. 2 * HOLDER - 1
  BY <1>1, WordFacts DEF MutexTypeOK
<1>3. /\ \/ lk' = lk /\ mpc'[t] = "reload"
         \/ lk' = [lk EXCEPT ![t] = lock]
         \/ /\ lk' = [lk EXCEPT ![t] = lk[t] + HOLDER]
            /\ mpc[t] = "spin" /\ lk[t] < HOLDER
      /\ mpc' = [mpc EXCEPT ![t] = mpc'[t]] /\ mpc'[t] \in MutexPC
  <2>1. CASE SpinLoad(t)
    BY <2>1 DEF SpinLoad, NextRound, MutexTypeOK, MutexPC
  <2>2. CASE SpinFetchOrFail(t)
    BY <2>2 DEF SpinFetchOrFail, NextRound, MutexTypeOK, MutexPC
  <2>3. CASE LoopFetchOrFail(t) \/ Reload(t) \/ SpuriousWake(t)
    BY <2>3 DEF LoopFetchOrFail, Reload, SpuriousWake, MutexTypeOK, MutexPC
  <2> QED
    BY <2>1, <2>2, <2>3
<1>4. spin' \in [Threads -> 0 .. SpinWidth - 1]
  BY MutexAssumption
     DEF SpinLoad, SpinFetchOrFail, LoopFetchOrFail, Reload, SpuriousWake,
         NextRound, MutexTypeOK, MutexAssumption
<1>5. MutexTypeOK'
  <2>1. lk' \in [Threads -> 0 .. 2 * HOLDER - 1]
    BY <1>2, <1>3 DEF MutexTypeOK
  <2>2. mpc' \in [Threads -> MutexPC]
    BY <1>3 DEF MutexTypeOK
  <2> QED
    BY <1>1, <1>2, <1>4, <2>1, <2>2 DEF MutexTypeOK
<1>6. WaiterSeesItself'
  BY <1>1, <1>2, <1>3 DEF MutexTypeOK, WaiterSeesItself
<1>7. LockWord' /\ MutualExclusion' /\ NoLostWakeup'
  BY <1>1 DEF LockWord, MutualExclusion, NoLostWakeup
<1> QED
  BY <1>5, <1>6, <1>7

(* Falling asleep: the kernel's comparison shows that the mutex is held. *)
LEMMA WaitInv ==
    ASSUME MutexInv, NEW t \in Threads, wait(t)
    PROVE  MutexInv'
<1> USE DEF MutexInv
<1>1. /\ Counted' = Counted /\ Holders' = Holders /\ lock' = lock
  BY DEF wait, MutexTypeOK, Counted, Holders
<1>2. NoLostWakeup'
  <2>1. CASE lock = lk[t]
    BY <2>1, <1>1, WordFacts DEF wait, NoLostWakeup
  <2>2. CASE lock # lk[t]
    <3>1. t \in Awake'
      BY <2>2 DEF wait, MutexTypeOK, Awake
    <3> QED
      BY <3>1 DEF NoLostWakeup
  <2> QED
    BY <2>1, <2>2
<1>3. MutexTypeOK' /\ WaiterSeesItself'
  BY DEF wait, MutexTypeOK, MutexPC, WaiterSeesItself
<1> QED
  BY <1>1, <1>2, <1>3 DEF LockWord, MutualExclusion

(* Release: if the word showed the holder alone, nobody sleeps. *)
LEMMA UnlockInv ==
    ASSUME MutexInv, NEW t \in Threads, wr_unlock(t)
    PROVE  MutexInv'
<1> USE DEF MutexInv
<1>1. t \in Holders /\ Holders = {t} /\ t \in Counted
  BY DEF wr_unlock, Holders, Counted, MutualExclusion
<1>2. Counted' = Counted \ {t} /\ Holders' = {} /\ Sleepers' = Sleepers
  BY <1>1 DEF wr_unlock, MutexTypeOK, Counted, Holders, Sleepers
<1>3. LockWord'
  <2>1. Cardinality(Counted') = Cardinality(Counted) - 1
    BY <1>1, <1>2, CountedStep
  <2> QED
    BY <1>1, <1>2, <2>1, CountedBound, WordFacts DEF wr_unlock, LockWord
<1>4. lock - (HOLDER + 1) \in 0 .. 2 * HOLDER - 1
  BY <1>1, WordFacts, CountedBound DEF MutexTypeOK, LockWord
<1>5. MutexTypeOK' /\ WaiterSeesItself'
  BY <1>4 DEF wr_unlock, MutexTypeOK, MutexPC, WaiterSeesItself
<1>6. NoLostWakeup'
  <2>1. CASE lock = HOLDER + 1
    <3>1. Counted' = {}
      BY <2>1, <1>1, <1>2, WordFacts
    <3>2. Sleepers' \subseteq Counted'
      BY DEF Sleepers, Counted
    <3> QED
      BY <3>1, <3>2 DEF NoLostWakeup
  <2>2. CASE lock # HOLDER + 1
    BY <2>2 DEF wr_unlock, MutexTypeOK, NoLostWakeup
  <2> QED
    BY <2>1, <2>2
<1> QED
  BY <1>2, <1>3, <1>5, <1>6 DEF MutualExclusion

(* FUTEX_WAKE: whoever is woken is awake. *)
LEMMA WakeInv ==
    ASSUME MutexInv, NEW t \in Threads, wake(t)
    PROVE  MutexInv'
<1> USE DEF MutexInv
<1>1. CASE Sleepers = {} /\ mpc' = [mpc EXCEPT ![t] = "idle"]
  <2>1. Counted' = Counted /\ Holders' = Holders /\ Sleepers' = {}
    BY <1>1 DEF wake, MutexTypeOK, Counted, Holders, Sleepers
  <2> QED
    BY <1>1, <2>1 DEF wake, MutexTypeOK, MutexPC, LockWord, MutualExclusion,
                      NoLostWakeup, WaiterSeesItself
<1>2. CASE \E s \in Sleepers :
             mpc' = [mpc EXCEPT ![t] = "idle", ![s] = "reload"]
  <2>1. PICK s \in Sleepers :
          mpc' = [mpc EXCEPT ![t] = "idle", ![s] = "reload"]
    BY <1>2
  <2>2. s \in Threads /\ mpc[s] = "sleep"
    BY DEF Sleepers
  <2>3. Counted' = Counted /\ Holders' = Holders /\ s \in Awake'
    BY <2>1, <2>2 DEF wake, MutexTypeOK, Counted, Holders, Awake
  <2>4. MutexTypeOK' /\ WaiterSeesItself'
    BY <2>1, <2>2 DEF wake, MutexTypeOK, MutexPC, WaiterSeesItself
  <2> QED
    BY <2>3, <2>4 DEF wake, LockWord, MutualExclusion, NoLostWakeup
<1> QED
  BY <1>1, <1>2 DEF wake

LEMMA MutexStepInv ==
    ASSUME MutexInv, [MutexNext]_mvars
    PROVE  MutexInv'
<1>1. CASE UNCHANGED mvars
  BY <1>1 DEF mvars, MutexInv, MutexTypeOK, LockWord, MutualExclusion,
              NoLostWakeup, WaiterSeesItself, Counted, Holders, Sleepers, Awake
<1>2. CASE MutexNext
  <2>1. PICK t \in Threads : MutexStep(t)
    BY <1>2 DEF MutexNext
  <2>2. CASE wr_lock_busy(t)
    BY <2>2 DEF wr_lock_busy, MutexInv, MutexTypeOK, MutexPC, LockWord,
                MutualExclusion, NoLostWakeup, WaiterSeesItself, Counted,
                Holders, Sleepers, Awake
  <2> QED
    BY <2>1, <2>2, TryInv, FetchAddInv, FetchOrInv, LookInv, WaitInv,
       UnlockInv, WakeInv DEF MutexStep, wr_lock, wait_and_lock
<1> QED
  BY <1>1, <1>2

-----------------------------------------------------------------------------
(* MutexInv holds in every state of every behaviour of the mutex. *)
THEOREM MutexInvariant == MutexSpec => []MutexInv
<1>1. MutexInit => MutexInv
  BY MutexInitInv
<1>2. MutexInv /\ [MutexNext]_mvars => MutexInv'
  BY MutexStepInv
<1> QED
  BY <1>1, <1>2, PTL DEF MutexSpec

(* Two threads never hold the mutex together (srw_mutex_impl::wr_lock,
   wait_and_lock). *)
THEOREM MutexMutualExclusion == MutexSpec => []MutualExclusion
<1>1. MutexInv => MutualExclusion
  BY DEF MutexInv
<1> QED
  BY <1>1, MutexInvariant, PTL

(* A sleeping waiter is never forgotten (srw_mutex_impl::wr_unlock, wake). *)
THEOREM MutexNoLostWakeup == MutexSpec => []NoLostWakeup
<1>1. MutexInv => NoLostWakeup
  BY DEF MutexInv
<1> QED
  BY <1>1, MutexInvariant, PTL
=============================================================================
