------------------------------ MODULE SrwMutex ------------------------------
(***************************************************************************)
(* srw_mutex_impl: InnoDB's futex-based mutex, one 32-bit word that holds  *)
(* the HOLDER flag plus the number of holders and waiters                  *)
(* (storage/innobase/include/srw_lock.h, sync/srw_lock.cc).                *)
(*                                                                         *)
(* Every atomic operation on the word and every futex call is one action;  *)
(* what a thread computes from its own local variable lk between two of    *)
(* them belongs to the action before or after.  The word is a natural      *)
(* number: "lk & HOLDER" is lk >= HOLDER as long as the count stays below  *)
(* the flag, which MutexTypeOK asserts.                                    *)
(***************************************************************************)
EXTENDS Integers, FiniteSets

CONSTANTS
    Threads,      \* the threads that use the mutex
    HOLDER,       \* the flag bit of the word (1U << 31)
    SpinLoop,     \* the template parameter: srw_spin_mutex or srw_mutex
    SpinRounds,   \* srv_n_spin_wait_rounds (innodb_sync_spin_loops)
    SpinWidth,    \* number of values of the ulong loop counter "spin"
    HasBts        \* whether the build has the LOCK BTS variant of fetch_or

ASSUME MutexAssumption ==
    /\ IsFiniteSet(Threads)
    /\ HOLDER \in Nat /\ Cardinality(Threads) < HOLDER
    /\ SpinLoop \in BOOLEAN /\ HasBts \in BOOLEAN
    /\ SpinWidth \in Nat /\ SpinRounds \in 0 .. SpinWidth - 1

VARIABLES
    lock,   \* the lock word, shared
    mpc,    \* where each thread is inside the mutex code
    lk,     \* the local variable lk of wait_and_lock(), per thread
    spin    \* the local variable spin of wait_and_lock(), per thread

mvars == <<lock, mpc, lk, spin>>

\* "idle"    not inside the mutex code, not holding it
\* "add"     wr_lock_try() failed, before fetch_add(1)
\* "spin"    at the head of the spin loop
\* "loop"    at the head of the wait loop
\* "sleep"   in the kernel, queued on the futex
\* "reload"  before the load that follows wait()
\* "held"    holds the mutex
\* "wake"    wr_unlock() has released the word, before wake()
MutexPC == {"idle", "add", "spin", "loop", "sleep", "reload", "held", "wake"}

\* The threads that have added themselves to the word.
Counted == {t \in Threads :
              mpc[t] \in {"spin", "loop", "sleep", "reload", "held"}}
Holders == {t \in Threads : mpc[t] = "held"}
Sleepers == {t \in Threads : mpc[t] = "sleep"}
\* Counted threads that will look at the word again without being woken.
Awake == {t \in Threads : mpc[t] \in {"spin", "loop", "reload"}}

MutexTypeOK ==
    /\ lock \in 0 .. 2 * HOLDER - 1
    /\ mpc \in [Threads -> MutexPC]
    /\ lk \in [Threads -> 0 .. 2 * HOLDER - 1]
    /\ spin \in [Threads -> 0 .. SpinWidth - 1]

MutexInit ==
    /\ lock = 0
    /\ mpc = [t \in Threads |-> "idle"]
    /\ lk = [t \in Threads |-> 0]
    /\ spin = [t \in Threads |-> 0]

-----------------------------------------------------------------------------
\* wr_lock_try(): CAS 0 -> HOLDER + 1.
wr_lock_try(t) ==
    /\ mpc[t] = "idle" /\ lock = 0
    /\ lock' = HOLDER + 1
    /\ mpc' = [mpc EXCEPT ![t] = "held"]
    /\ UNCHANGED <<lk, spin>>

\* wr_lock() whose CAS failed: into wait_and_lock().
wr_lock_busy(t) ==
    /\ mpc[t] = "idle" /\ lock # 0
    /\ mpc' = [mpc EXCEPT ![t] = "add"]
    /\ UNCHANGED <<lock, lk, spin>>

wr_lock(t) == wr_lock_try(t) \/ wr_lock_busy(t)

\* lk = 1 + lock.fetch_add(1): register as a waiter.
FetchAdd(t) ==
    /\ mpc[t] = "add"
    /\ lock' = lock + 1
    /\ lk' = [lk EXCEPT ![t] = lock + 1]
    /\ mpc' = [mpc EXCEPT ![t] = IF SpinLoop THEN "spin" ELSE "loop"]
    /\ spin' = [spin EXCEPT ![t] = IF SpinLoop THEN SpinRounds ELSE 0]

\* The end of a spin round: if (!--spin) break.  The counter is unsigned.
NextRound(t) ==
    LET s == IF spin[t] = 0 THEN SpinWidth - 1 ELSE spin[t] - 1
    IN  /\ spin' = [spin EXCEPT ![t] = s]
        /\ mpc' = [mpc EXCEPT ![t] = IF s = 0 THEN "loop" ELSE "spin"]

\* Spin round that only looks at the word.
SpinLoad(t) ==
    /\ mpc[t] = "spin" /\ lk[t] >= HOLDER
    /\ lk' = [lk EXCEPT ![t] = lock]
    /\ NextRound(t)
    /\ UNCHANGED lock

\* Spin round whose fetch_or(HOLDER) found the flag set.  The BTS variant
\* does not fetch the word and keeps its old count.
SpinFetchOrFail(t) ==
    /\ mpc[t] = "spin" /\ lk[t] < HOLDER /\ lock >= HOLDER
    /\ lk' = [lk EXCEPT ![t] = IF HasBts THEN lk[t] + HOLDER ELSE lock]
    /\ NextRound(t)
    /\ UNCHANGED lock

\* A mutant: load and store instead of the atomic fetch_or(HOLDER).
FetchOr_NotAtomic(t) ==
    /\ mpc[t] \in {"spin", "loop"} /\ lk[t] < HOLDER
    /\ lock' = lk[t] + HOLDER
    /\ mpc' = [mpc EXCEPT ![t] = "held"]
    /\ lk' = [lk EXCEPT ![t] = 0]
    /\ spin' = [spin EXCEPT ![t] = 0]

\* fetch_or(HOLDER) that found the flag clear: acquired, in either loop.  The
\* locals go out of scope (0).
FetchOr(t) ==
    /\ mpc[t] \in {"spin", "loop"} /\ lk[t] < HOLDER /\ lock < HOLDER
    /\ lock' = lock + HOLDER
    /\ mpc' = [mpc EXCEPT ![t] = "held"]
    /\ lk' = [lk EXCEPT ![t] = 0]
    /\ spin' = [spin EXCEPT ![t] = 0]

\* fetch_or(HOLDER) that found it set, in the wait loop.
LoopFetchOrFail(t) ==
    /\ mpc[t] = "loop" /\ lk[t] < HOLDER /\ lock >= HOLDER
    /\ IF HasBts
         THEN mpc' = [mpc EXCEPT ![t] = "reload"] /\ UNCHANGED lk
         ELSE lk' = [lk EXCEPT ![t] = lock] /\ UNCHANGED mpc
    /\ UNCHANGED <<lock, spin>>

\* A mutant: sleep without the kernel comparing the word with lk.
wait_NoCompare(t) ==
    /\ mpc[t] = "loop" /\ lk[t] >= HOLDER
    /\ mpc' = [mpc EXCEPT ![t] = "sleep"]
    /\ UNCHANGED <<lock, lk, spin>>

\* wait(lk): the kernel queues the thread if the word still is lk, atomically.
wait(t) ==
    /\ mpc[t] = "loop" /\ lk[t] >= HOLDER
    /\ mpc' = [mpc EXCEPT ![t] = IF lock = lk[t] THEN "sleep" ELSE "reload"]
    /\ UNCHANGED <<lock, lk, spin>>

\* FUTEX_WAIT may return without a wake.
SpuriousWake(t) ==
    /\ mpc[t] = "sleep"
    /\ mpc' = [mpc EXCEPT ![t] = "reload"]
    /\ UNCHANGED <<lock, lk, spin>>

\* lk = lock.load() after wait().
Reload(t) ==
    /\ mpc[t] = "reload"
    /\ lk' = [lk EXCEPT ![t] = lock]
    /\ mpc' = [mpc EXCEPT ![t] = "loop"]
    /\ UNCHANGED <<lock, spin>>

\* wait_and_lock(): everything after a failed wr_lock_try().
wait_and_lock(t) ==
    \/ FetchAdd(t) \/ SpinLoad(t) \/ SpinFetchOrFail(t) \/ FetchOr(t)
    \/ LoopFetchOrFail(t) \/ wait(t) \/ Reload(t)

\* A mutant: wake only when exactly one waiter is registered.
wr_unlock_OneWaiter(t) ==
    /\ mpc[t] = "held"
    /\ lock' = lock - (HOLDER + 1)
    /\ mpc' = [mpc EXCEPT ![t] = IF lock = HOLDER + 2 THEN "wake" ELSE "idle"]
    /\ UNCHANGED <<lk, spin>>

\* wr_unlock(): fetch_sub(HOLDER + 1); wake() unless nobody else was counted.
wr_unlock(t) ==
    /\ mpc[t] = "held"
    /\ lock' = lock - (HOLDER + 1)
    /\ mpc' = [mpc EXCEPT ![t] = IF lock = HOLDER + 1 THEN "idle" ELSE "wake"]
    /\ UNCHANGED <<lk, spin>>

\* wake(): FUTEX_WAKE of one thread, whichever the kernel picks.
wake(t) ==
    /\ mpc[t] = "wake"
    /\ \/ /\ Sleepers = {}
          /\ mpc' = [mpc EXCEPT ![t] = "idle"]
       \/ \E s \in Sleepers :
             mpc' = [mpc EXCEPT ![t] = "idle", ![s] = "reload"]
    /\ UNCHANGED <<lock, lk, spin>>

MutexStep(t) ==
    \/ wr_lock(t) \/ wait_and_lock(t) \/ SpuriousWake(t)
    \/ wr_unlock(t) \/ wake(t)

MutexNext == \E t \in Threads : MutexStep(t)

\* A thread inside the mutex code keeps running, and a holder releases the
\* mutex in the end.  Nobody is obliged to call wr_lock(), and the kernel is
\* not obliged to wake anyone spuriously.
MutexFairness ==
    \A t \in Threads : WF_mvars(wait_and_lock(t) \/ wr_unlock(t) \/ wake(t))

MutexSpec == MutexInit /\ [][MutexNext]_mvars /\ MutexFairness

-----------------------------------------------------------------------------
\* The comment on srw_mutex_impl::lock: "containing HOLDER + 1 if the lock is
\* being held, plus the number of waiters", at every step of every thread.
LockWord ==
    lock = Cardinality(Counted) + (IF Holders = {} THEN 0 ELSE HOLDER)

\* Two threads are never past wr_lock() together, whichever of the three ways
\* (CAS, fetch_or in the spin loop, fetch_or in the wait loop) they took.
MutualExclusion == \A s, t \in Holders : s = t

\* A thread that sleeps while nobody holds the mutex is never forgotten: a
\* registered thread is still awake, or a wr_unlock() is about to call wake().
NoLostWakeup ==
    Sleepers # {} =>
        \/ Holders # {} \/ Awake # {}
        \/ \E t \in Threads : mpc[t] = "wake"

\* DBUG_ASSERT(~HOLDER & lk) at the head of both loops: what a thread last saw
\* of the word always counts at least one thread, itself.
WaiterSeesItself ==
    \A t \in Threads : mpc[t] \in {"spin", "loop"} => lk[t] \notin {0, HOLDER}

\* If a thread sleeps and nobody holds the mutex, somebody gets it: the release
\* reaches a waiter even if no new thread ever calls wr_lock().
SleepersServed == (Sleepers # {} /\ Holders = {}) ~> (Holders # {})
=============================================================================
