------------------------------ MODULE SsuxLock ------------------------------
(***************************************************************************)
(* ssux_lock_impl: the slim shared-update-exclusive lock without recursion *)
(* (storage/innobase/include/srw_lock.h, sync/srw_lock.cc).  It is the     *)
(* mutex "writer" of SrwMutex, held by every U or X holder, plus the word  *)
(* "readers": the number of S and U holders and the flag WRITER of an X    *)
(* holder or waiter.  A thread holds or requests one mode at a time.       *)
(***************************************************************************)
EXTENDS SrwMutex

CONSTANT WRITER     \* the flag bit of "readers" (1U << 31)

ASSUME WriterAssumption == WRITER \in Nat /\ Cardinality(Threads) < WRITER

VARIABLES
    readers,   \* the word of S and U holders, shared
    pc,        \* where each thread is in the code of the lock
    rlk,       \* the variable lk of wr_wait(), per thread
    rspin      \* the spin rounds wr_wait() has left, per thread

svars == <<readers, pc, rlk, rspin>>
vars == <<mvars, svars>>

\* "none"     holds nothing
\* "rd_wait"  in rd_wait(), up to rd_lock_try()
\* "rd_retry" in rd_wait(), rd_lock_try() failed under the mutex
\* "S"        holds S (and, right after rd_wait()'s rd_lock_try(), the mutex)
\* "u_lock"   wants U or has the mutex for it, before readers.fetch_add(1)
\* "U"        holds U
\* "x_lock"   wants X or has the mutex for it, before readers += WRITER
\* "x_try"    wr_lock_try() has the mutex, before the CAS on readers
\* "x_spin", "x_wait", "x_sleep", "x_reload"   in wr_wait()
\* "X"        holds X
\* "release"  has given up its mode, before writer.wr_unlock()
\* "wake"     rd_unlock() was the last one out, before wake()
PC == {"none", "rd_wait", "rd_retry", "S", "u_lock", "U", "x_lock", "x_try",
       "x_spin", "x_wait", "x_sleep", "x_reload", "X", "release", "wake"}

In(ps) == {t \in Threads : pc[t] \in ps}
XWaiting == {"x_spin", "x_wait", "x_sleep", "x_reload"}
Flagged == In(XWaiting \cup {"X"})

SsuxTypeOK ==
    /\ MutexTypeOK
    /\ readers \in 0 .. 2 * WRITER - 1
    /\ pc \in [Threads -> PC]
    /\ rlk \in [Threads -> 0 .. 2 * WRITER - 1]
    /\ rspin \in [Threads -> 0 .. SpinRounds]

SsuxInit ==
    /\ MutexInit
    /\ readers = 0
    /\ pc = [t \in Threads |-> "none"]
    /\ rlk = [t \in Threads |-> 0]
    /\ rspin = [t \in Threads |-> 0]

Goto(t, p) == pc' = [pc EXCEPT ![t] = p]

-----------------------------------------------------------------------------
(* The mutex "writer", as the operations below call it. *)

\* writer.wr_lock() inside rd_wait(), u_lock() and wr_lock().
CallWrLock(t) ==
    /\ pc[t] \in {"rd_wait", "u_lock", "x_lock"}
    /\ wr_lock(t)
    /\ UNCHANGED svars

\* What goes on inside writer.wr_lock() and writer.wr_unlock().
InMutex(t) == (wait_and_lock(t) \/ wake(t)) /\ UNCHANGED svars

SpuriousMutexWake(t) == SpuriousWake(t) /\ UNCHANGED svars

\* The writer.wr_unlock() that ends rd_wait(), u_unlock(), wr_unlock() and a
\* failed wr_lock_try().
CallWrUnlock(t) ==
    /\ pc[t] \in {"S", "rd_retry", "release"}
    /\ wr_unlock(t)
    /\ Goto(t, IF pc[t] = "S" THEN "S"
               ELSE IF pc[t] = "rd_retry" THEN "rd_wait" ELSE "none")
    /\ UNCHANGED <<readers, rlk, rspin>>

-----------------------------------------------------------------------------
(* Shared mode. *)

\* A mutant: the WRITER flag is not looked at.
rd_lock_try_NoFlag(t, ok, fail) ==
    /\ readers' = readers + 1
    /\ Goto(t, ok)

\* rd_lock_try(): the CAS loop adds 1 unless it sees WRITER.
rd_lock_try(t, ok, fail) ==
    /\ readers' = IF readers < WRITER THEN readers + 1 ELSE readers
    /\ Goto(t, IF readers < WRITER THEN ok ELSE fail)

\* rd_lock(): rd_lock_try(), and rd_wait() if it failed.
rd_lock(t) ==
    /\ pc[t] = "none" /\ mpc[t] = "idle"
    /\ rd_lock_try(t, "S", "rd_wait")
    /\ UNCHANGED <<mvars, rlk, rspin>>

\* rd_wait(): rd_lock_try() again, holding the mutex.
rd_wait(t) ==
    /\ pc[t] = "rd_wait" /\ mpc[t] = "held"
    /\ rd_lock_try(t, "S", "rd_retry")
    /\ UNCHANGED <<mvars, rlk, rspin>>

\* rd_unlock(): the last reader out wakes an X waiter.
rd_unlock(t) ==
    /\ pc[t] = "S" /\ mpc[t] = "idle"
    /\ readers' = readers - 1
    /\ Goto(t, IF readers = WRITER + 1 THEN "wake" ELSE "none")
    /\ UNCHANGED <<mvars, rlk, rspin>>

\* wake(): FUTEX_WAKE of one thread that waits on "readers".
ssux_wake(t) ==
    /\ pc[t] = "wake"
    /\ \/ In({"x_sleep"}) = {} /\ Goto(t, "none")
       \/ \E s \in In({"x_sleep"}) :
             pc' = [pc EXCEPT ![t] = "none", ![s] = "x_reload"]
    /\ UNCHANGED <<mvars, readers, rlk, rspin>>

-----------------------------------------------------------------------------
(* Update mode. *)

\* u_lock() calls writer.wr_lock() next.
u_lock(t) ==
    /\ pc[t] = "none" /\ mpc[t] = "idle"
    /\ Goto(t, "u_lock")
    /\ UNCHANGED <<mvars, readers, rlk, rspin>>

\* u_lock_try() that got the mutex.
u_lock_try(t) ==
    /\ pc[t] = "none"
    /\ wr_lock_try(t)
    /\ Goto(t, "u_lock")
    /\ UNCHANGED <<readers, rlk, rspin>>

\* readers.fetch_add(1) under the mutex, in u_lock() and u_lock_try().
u_locked(t) ==
    /\ pc[t] = "u_lock" /\ mpc[t] = "held"
    /\ readers' = readers + 1
    /\ Goto(t, "U")
    /\ UNCHANGED <<mvars, rlk, rspin>>

\* u_unlock(): fetch_sub(1), then writer.wr_unlock().
u_unlock(t) ==
    /\ pc[t] = "U"
    /\ readers' = readers - 1
    /\ Goto(t, "release")
    /\ UNCHANGED <<mvars, rlk, rspin>>

-----------------------------------------------------------------------------
(* Exclusive mode. *)

\* wr_lock() calls writer.wr_lock() next.
ssux_wr_lock(t) ==
    /\ pc[t] = "none" /\ mpc[t] = "idle"
    /\ Goto(t, "x_lock")
    /\ UNCHANGED <<mvars, readers, rlk, rspin>>

\* The start of wr_wait(old), or an X lock granted at once.  Without spin loop
\* "lk |= WRITER" and the futex wait come next.
EnterWait(t, old) ==
    /\ Goto(t, IF old = 0 THEN "X"
               ELSE IF SpinLoop /\ SpinRounds > 0 THEN "x_spin" ELSE "x_wait")
    /\ rlk' = [rlk EXCEPT ![t] = IF old = 0 THEN 0 ELSE old + WRITER]
    /\ rspin' = [rspin EXCEPT ![t] =
                   IF SpinLoop /\ old # 0 THEN SpinRounds ELSE 0]
    /\ UNCHANGED mvars

\* readers.fetch_add(WRITER) under the mutex.
x_locked(t) ==
    /\ pc[t] = "x_lock" /\ mpc[t] = "held"
    /\ readers' = readers + WRITER
    /\ EnterWait(t, readers)

\* u_wr_upgrade(): fetch_add(WRITER - 1), wait for the other readers.
u_wr_upgrade(t) ==
    /\ pc[t] = "U"
    /\ readers' = readers + (WRITER - 1)
    /\ EnterWait(t, readers - 1)

\* A spin round of wr_wait().
wr_wait_spin(t) ==
    /\ pc[t] = "x_spin"
    /\ IF readers = WRITER
         THEN /\ Goto(t, "X")
              /\ rlk' = [rlk EXCEPT ![t] = 0]
              /\ rspin' = [rspin EXCEPT ![t] = 0]
         ELSE /\ Goto(t, IF rspin[t] = 1 THEN "x_wait" ELSE "x_spin")
              /\ rlk' = [rlk EXCEPT ![t] = readers]
              /\ rspin' = [rspin EXCEPT ![t] = rspin[t] - 1]
    /\ UNCHANGED <<mvars, readers>>

\* A mutant: sleep without the kernel comparing "readers" with lk.
ssux_wait_NoCompare(t) ==
    /\ pc[t] = "x_wait"
    /\ Goto(t, "x_sleep")
    /\ UNCHANGED <<mvars, readers, rlk, rspin>>

\* wait(lk) on "readers".
ssux_wait(t) ==
    /\ pc[t] = "x_wait"
    /\ Goto(t, IF readers = rlk[t] THEN "x_sleep" ELSE "x_reload")
    /\ UNCHANGED <<mvars, readers, rlk, rspin>>

\* FUTEX_WAIT may return without a wake.
SpuriousReadersWake(t) ==
    /\ pc[t] = "x_sleep"
    /\ Goto(t, "x_reload")
    /\ UNCHANGED <<mvars, readers, rlk, rspin>>

\* A mutant: any return of the futex wait is taken for the grant.
wr_wait_reload_NoLoop(t) ==
    /\ pc[t] = "x_reload"
    /\ Goto(t, "X")
    /\ rlk' = [rlk EXCEPT ![t] = 0]
    /\ UNCHANGED <<mvars, readers, rspin>>

\* lk = readers.load(); while (lk != WRITER).
wr_wait_reload(t) ==
    /\ pc[t] = "x_reload"
    /\ Goto(t, IF readers = WRITER THEN "X" ELSE "x_wait")
    /\ rlk' = [rlk EXCEPT ![t] = IF readers = WRITER THEN 0 ELSE readers]
    /\ UNCHANGED <<mvars, readers, rspin>>

\* wr_lock_try() that got the mutex.
ssux_wr_lock_try(t) ==
    /\ pc[t] = "none"
    /\ wr_lock_try(t)
    /\ Goto(t, "x_try")
    /\ UNCHANGED <<readers, rlk, rspin>>

\* wr_lock_try(): CAS 0 -> WRITER under the mutex.
x_try(t) ==
    /\ pc[t] = "x_try"
    /\ IF readers = 0
         THEN readers' = WRITER /\ Goto(t, "X")
         ELSE UNCHANGED readers /\ Goto(t, "release")
    /\ UNCHANGED <<mvars, rlk, rspin>>

\* wr_u_downgrade(): readers.store(1).
wr_u_downgrade(t) ==
    /\ pc[t] = "X"
    /\ readers' = 1
    /\ Goto(t, "U")
    /\ UNCHANGED <<mvars, rlk, rspin>>

\* wr_unlock(): readers.store(0), then writer.wr_unlock().
ssux_wr_unlock(t) ==
    /\ pc[t] = "X"
    /\ readers' = 0
    /\ Goto(t, "release")
    /\ UNCHANGED <<mvars, rlk, rspin>>

-----------------------------------------------------------------------------
\* Steps of a call that has begun, and the releases that end a hold.
Continue(t) ==
    \/ CallWrLock(t) \/ InMutex(t) \/ CallWrUnlock(t)
    \/ rd_wait(t) \/ ssux_wake(t) \/ u_locked(t) \/ x_locked(t)
    \/ wr_wait_spin(t) \/ ssux_wait(t) \/ wr_wait_reload(t) \/ x_try(t)
    \/ rd_unlock(t) \/ u_unlock(t) \/ ssux_wr_unlock(t)

Begin(t) ==
    \/ rd_lock(t) \/ u_lock(t) \/ u_lock_try(t)
    \/ ssux_wr_lock(t) \/ ssux_wr_lock_try(t)
    \/ u_wr_upgrade(t) \/ wr_u_downgrade(t)

Spurious(t) == SpuriousMutexWake(t) \/ SpuriousReadersWake(t)

SsuxNext == \E t \in Threads : Begin(t) \/ Continue(t) \/ Spurious(t)

\* A thread inside a call keeps running, and a holder releases in the end;
\* nobody is obliged to request anything, to upgrade or to downgrade.
SsuxSpec ==
    /\ SsuxInit /\ [][SsuxNext]_vars
    /\ \A t \in Threads : WF_vars(Continue(t))

-----------------------------------------------------------------------------
\* The comments on ssux_lock_impl::readers and WRITER: "S or U holders, and
\* WRITER flag for X holder or waiter"; "readers=WRITER indicates granted X".
ReadersWord ==
    readers = Cardinality(In({"S", "U"}))
              + (IF Flagged = {} THEN 0 ELSE WRITER)

\* An X holder is alone, and a U holder or X waiter is the only one of its
\* kind, whatever mix of lock, try, upgrade and downgrade led there.
Exclusion ==
    \A s, t \in Threads : s # t =>
        /\ pc[s] = "X" => pc[t] \notin {"S", "U", "X"} \cup XWaiting
        /\ pc[s] \in {"U"} \cup XWaiting =>
              pc[t] \notin {"U", "X"} \cup XWaiting

\* The loop in rd_wait() never goes round: WRITER is only ever set while the
\* mutex is held and is cleared before it is released.
RdWaitOnce == In({"rd_retry"}) = {}

\* The X waiter that sleeps is not forgotten: readers are left, the last of
\* which will wake it, or its wake() is on the way.
XWaiterNotForgotten ==
    In({"x_sleep"}) # {} => readers # WRITER \/ In({"wake"}) # {}

\* The mode of SuxModes that each place in the code stands for.
AbstractMode(p) ==
    IF p \in {"S", "U", "X"} THEN p
    ELSE IF p \in XWaiting THEN "W" ELSE "none"

mode == [t \in Threads |-> AbstractMode(pc[t])]

Abstract == INSTANCE SuxModes

\* The lock implements SuxModes: its modes, their compatibility and the service
\* of the X waiter.
ImplementsModes == Abstract!ModesSpec
=============================================================================
