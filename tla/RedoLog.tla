------------------------------ MODULE RedoLog ------------------------------
(***************************************************************************)
(* log_write_up_to() and log_write_and_flush() (log/log0log.cc): the redo  *)
(* log is written and flushed by whoever gets write_lock and flush_lock.   *)
(*                                                                         *)
(* The log is its end lsn; the log file and stable storage are how far     *)
(* each has got.  log_sys.latch is held inside one action (write_buf, and  *)
(* the mini-transaction commits that advance lsn), except by a thread in   *)
(* log_write_and_flush(), which holds it across its steps.                 *)
(***************************************************************************)
EXTENDS GroupCommitLock

CONSTANTS
    write_lock, flush_lock,
    LSN_BOUND,           \* a bound on the log, for model checking
    Kinds,               \* for each thread, which calls it makes: see CallKinds
    CallbackKinds        \* which of them it may make with a callback

\* "write" is log_write_up_to(lsn, false), "durable" log_write_up_to(lsn, true)
\* and "shrink" log_write_and_flush_prepare() and log_write_and_flush().
CallKinds == {"write", "durable", "shrink"}

ASSUME RedoLogAssumption ==
    /\ Locks = {write_lock, flush_lock} /\ write_lock # flush_lock
    /\ \A t \in Threads :
          Kinds[t] \subseteq CallKinds /\ CallbackKinds[t] \subseteq {"write", "durable"}
    /\ LSN_BOUND \in Nat \ {0}

VARIABLES
    lsn,                  \* log_sys.get_lsn()
    write_lsn,            \* log_sys.write_lsn
    flushed_to_disk_lsn,
    latch,                \* who holds log_sys.latch across steps, or NOBODY
    file,                 \* the log file contains the log up to here
    stable,               \* and after a crash at least up to here
    cpc,                  \* where each thread is in its call
    call,                 \* the call: its kind and the current lsn argument
    target,               \* the lsn it is writing or flushing
    syncing,              \* what the file contained when its flush began
    pending_write_lsn,    \* a local of log_write_up_to()
    calls,                \* the number of calls made
    asked                 \* history: what each call asked for

diskvars == <<lsn, write_lsn, flushed_to_disk_lsn, latch, file, stable>>
callvars == <<call, target, syncing, pending_write_lsn, calls, asked>>
logvars == <<gcvars, diskvars, cpc, callvars>>

\* "idle"; in acquire() of "flush_lock" or "write_lock"; "latch" about to take
\* the latch; "write" writing to the file; in "write_release" of write_lock;
\* "flush" about to flush; "fsync" flushing; in "flush_release" of flush_lock.
CallPC == {"idle", "flush_lock", "write_lock", "latch", "write",
           "write_release", "flush", "fsync", "flush_release"}

Asked == [kind : CallKinds, lsn : Nat, sync : BOOLEAN]

LogTypeOK ==
    /\ GcTypeOK
    /\ lsn \in Nat /\ write_lsn \in Nat /\ flushed_to_disk_lsn \in Nat
    /\ latch \in Threads \cup {NOBODY}
    /\ file \in Nat /\ stable \in Nat
    /\ cpc \in [Threads -> CallPC]
    /\ call \in [Threads -> [kind : CallKinds, lsn : Nat]]
    /\ target \in [Threads -> Nat] /\ syncing \in [Threads -> Nat]
    /\ pending_write_lsn \in [Threads -> Nat]
    /\ calls \in [Threads -> 0..MaxCalls]
    /\ asked \in [Callbacks -> Asked]

LogInit ==
    /\ GcInit
    /\ lsn = 0 /\ write_lsn = 0 /\ flushed_to_disk_lsn = 0
    /\ latch = NOBODY /\ file = 0 /\ stable = 0
    /\ cpc = [t \in Threads |-> "idle"]
    /\ call = [t \in Threads |-> [kind |-> "write", lsn |-> 0]]
    /\ target = [t \in Threads |-> 0] /\ syncing = [t \in Threads |-> 0]
    /\ pending_write_lsn = [t \in Threads |-> 0]
    /\ calls = [t \in Threads |-> 0]
    /\ asked = [c \in Callbacks |->
                  [kind |-> "write", lsn |-> 0, sync |-> FALSE]]

Move(t, from, to) == cpc[t] = from /\ cpc' = [cpc EXCEPT ![t] = to]

\* What a call of acquire(), and what one of set_pending(), leaves alone.
AcquireFrame == UNCHANGED <<lockvars, signalled, relvars, fired>>
PendingFrame == UNCHANGED <<m_value, m_lock, m_waiters_list,
    m_pending_callbacks, gpc, req, waitervars, relvars, fired>>

-----------------------------------------------------------------------------
\* A mini-transaction commit appends to the log.
MtrCommit ==
    /\ latch = NOBODY /\ lsn < LSN_BOUND
    /\ lsn' = lsn + 1
    /\ UNCHANGED <<gcvars, write_lsn, flushed_to_disk_lsn, latch, file, stable,
                   cpc, callvars>>

(* log_write_up_to() *)

\* The acquire() that a pass begins with.
FirstAcquire(t, kind, n, cb) ==
    IF kind = "durable"
      THEN Move(t, cpc[t], "flush_lock") /\ acquire(t, flush_lock, n, cb)
      ELSE Move(t, cpc[t], "write_lock") /\ acquire(t, write_lock, n, cb)

\* The call log_write_up_to(n, kind = "durable", callback).
log_write_up_to(t, kind, n, sync) ==
    /\ cpc[t] = "idle" /\ calls[t] < MaxCalls
    /\ kind \in Kinds[t] \ {"shrink"} /\ n \in 1..lsn
    /\ sync \/ kind \in CallbackKinds[t]
    /\ FirstAcquire(t, kind, n, IF sync THEN NONE ELSE <<t, calls[t] + 1>>)
    /\ calls' = [calls EXCEPT ![t] = @ + 1]
    /\ asked' = [asked EXCEPT ![<<t, calls[t] + 1>>] =
                   [kind |-> kind, lsn |-> n, sync |-> sync]]
    /\ call' = [call EXCEPT ![t] = [kind |-> kind, lsn |-> n]]
    /\ AcquireFrame
    /\ UNCHANGED <<diskvars, target, syncing, pending_write_lsn>>

\* flush_lock.acquire() gave the lock: set_pending(), write_lock.acquire().
flush_acquired(t) ==
    /\ Move(t, "flush_lock", "write_lock")
    /\ gpc[t] = "ACQUIRED" /\ call[t].kind = "durable"
    /\ set_pending(flush_lock, lsn)
    /\ acquire(t, write_lock, call[t].lsn, NONE)
    /\ UNCHANGED <<m_value, m_lock, m_waiters_list, m_pending_callbacks,
                   signalled, relvars, fired, diskvars, callvars>>

\* It did not: return.
flush_not_acquired(t) ==
    /\ Move(t, "flush_lock", "idle")
    /\ gpc[t] \in {"EXPIRED", "CALLBACK_QUEUED"} /\ call[t].kind = "durable"
    /\ Goto(t, "-")
    /\ UNCHANGED <<lockvars, req, waitervars, relvars, fired, diskvars, callvars>>

\* write_lock.acquire() gave the lock: on to the latch and write_buf().
write_acquired(t) ==
    /\ Move(t, "write_lock", "latch") /\ gpc[t] = "ACQUIRED"
    /\ UNCHANGED <<gcvars, diskvars, callvars>>

\* It did not: the log has been written, or the callback is queued.
write_not_acquired(t) ==
    /\ \/ call[t].kind = "durable" /\ Move(t, "write_lock", "flush")
       \/ call[t].kind = "write" /\ Move(t, "write_lock", "idle")
    /\ gpc[t] \in {"EXPIRED", "CALLBACK_QUEUED"}
    /\ Goto(t, "-")
    /\ UNCHANGED <<lockvars, req, waitervars, relvars, fired, diskvars, callvars>>

-----------------------------------------------------------------------------
(* log_write_and_flush_prepare() and log_write_and_flush() *)

\* while (flush_lock.acquire(get_lsn() + 1) != ACQUIRED), the first time.
log_write_and_flush_prepare(t) ==
    /\ cpc[t] = "idle" /\ calls[t] < MaxCalls /\ "shrink" \in Kinds[t]
    /\ Move(t, "idle", "flush_lock")
    /\ acquire(t, flush_lock, lsn + 1, NONE)
    /\ calls' = [calls EXCEPT ![t] = @ + 1]
    /\ call' = [call EXCEPT ![t] = [kind |-> "shrink", lsn |-> 0]]
    /\ AcquireFrame
    /\ UNCHANGED <<diskvars, target, syncing, pending_write_lsn, asked>>

\* Around either loop again, or from the first to the second.
prepare_again(t) ==
    /\ call[t].kind = "shrink"
    /\ \/ /\ gpc[t] = "EXPIRED" /\ Move(t, "flush_lock", "flush_lock")
          /\ acquire(t, flush_lock, lsn + 1, NONE)
       \/ /\ gpc[t] = "EXPIRED" /\ Move(t, "write_lock", "write_lock")
          /\ acquire(t, write_lock, lsn + 1, NONE)
       \/ /\ gpc[t] = "ACQUIRED" /\ Move(t, "flush_lock", "write_lock")
          /\ acquire(t, write_lock, lsn + 1, NONE)
    /\ AcquireFrame
    /\ UNCHANGED <<diskvars, callvars>>

\* commit_shrink(): latch.wr_lock(), do_write() appends to the log.
commit_shrink(t) ==
    /\ cpc[t] = "latch" /\ call[t].kind = "shrink" /\ latch = NOBODY
    /\ latch' = t
    /\ lsn' = IF lsn < LSN_BOUND THEN lsn + 1 ELSE lsn
    /\ UNCHANGED <<gcvars, write_lsn, flushed_to_disk_lsn, file, stable, cpc,
                   callvars>>

-----------------------------------------------------------------------------
(* Writing and flushing. *)

\* write_buf(): under the latch the buffers are swapped; there may be nothing
\* to write.
write_buf(t) ==
    /\ latch = IF call[t].kind = "shrink" THEN t ELSE NOBODY
    /\ \/ /\ write_lsn < lsn /\ Move(t, "latch", "write")
          /\ set_pending(write_lock, lsn)
          /\ PendingFrame
       \/ /\ write_lsn >= lsn /\ Move(t, "latch", "write_release")
          /\ release(t, write_lock, lsn)
    /\ target' = [target EXCEPT ![t] = lsn]
    /\ UNCHANGED <<diskvars, call, syncing, pending_write_lsn, calls, asked>>

\* A mutant: the lock is released before the log has been written.
write_buf_done_Early(t) ==
    /\ Move(t, "write", "write_release")
    /\ write_lsn' = target[t]
    /\ release(t, write_lock, target[t])
    /\ UNCHANGED <<lsn, flushed_to_disk_lsn, latch, file, stable, callvars>>

\* log_write_buf() has written; write_lsn is set; write_lock.release().
write_buf_done(t) ==
    /\ Move(t, "write", "write_release")
    /\ file' = target[t] /\ write_lsn' = target[t]
    /\ release(t, write_lock, target[t])
    /\ UNCHANGED <<lsn, flushed_to_disk_lsn, latch, stable, callvars>>

\* write_lock.release() has returned.
write_released(t) ==
    /\ gpc[t] = "released"
    /\ \/ call[t].kind # "write" /\ Move(t, "write_release", "flush")
       \/ call[t].kind = "write" /\ Move(t, "write_release", "flush_release")
    /\ pending_write_lsn' = [pending_write_lsn EXCEPT ![t] = ret[t]]
    /\ ret' = [ret EXCEPT ![t] = 0]
    /\ UNCHANGED <<lockvars, gpc, req, waitervars, wakeup_list, callbacks, fired,
                   diskvars, call, target, syncing, calls, asked>>

\* A mutant: the flush is taken to cover the log, not what has been written.
FlushTarget_Lsn(t) == lsn

\* log_flush(write_lock.value()), or of the lsn log_write_and_flush() wrote.
FlushTarget(t) ==
    IF call[t].kind = "shrink" THEN target[t] ELSE m_value[write_lock]

\* flush(): set_pending(), the flush of the file begins.
flush(t) ==
    /\ Move(t, "flush", "fsync")
    /\ target' = [target EXCEPT ![t] = FlushTarget(t)]
    /\ syncing' = [syncing EXCEPT ![t] = file]
    /\ set_pending(flush_lock, FlushTarget(t))
    /\ PendingFrame
    /\ UNCHANGED <<diskvars, call, pending_write_lsn, calls, asked>>

\* The flush ends: what the file contained when it began is stable;
\* flushed_to_disk_lsn is set; flush_lock.release().
flush_done(t) ==
    /\ Move(t, "fsync", "flush_release")
    /\ stable' = IF syncing[t] > stable THEN syncing[t] ELSE stable
    /\ flushed_to_disk_lsn' = target[t]
    /\ release(t, flush_lock, target[t])
    /\ syncing' = [syncing EXCEPT ![t] = 0]
    /\ UNCHANGED <<lsn, write_lsn, latch, file, call, target, pending_write_lsn,
                   calls, asked>>

\* A mutant: the callbacks that are left are not looked after.
Repeat_Never(t) == 0

\* max(pending_write_lsn, pending_flush_lsn): callbacks are left and there is no
\* leader.  log_write_and_flush() drops what release() returns.
Repeat(t) ==
    IF call[t].kind = "shrink" THEN 0
    ELSE IF pending_write_lsn[t] > ret[t] THEN pending_write_lsn[t] ELSE ret[t]

\* The end of a pass: goto repeat with the dummy callback, or return.
finish(t) ==
    /\ cpc[t] = "flush_release" /\ gpc[t] = "released"
    /\ IF Repeat(t) # 0
         THEN /\ FirstAcquire(t, call[t].kind, Repeat(t), DUMMY)
              /\ call' = [call EXCEPT ![t].lsn = Repeat(t)]
         ELSE /\ Move(t, "flush_release", "idle") /\ Goto(t, "-")
              /\ UNCHANGED <<req, m_group_commit_leader, call>>
    /\ latch' = IF latch = t THEN NOBODY ELSE latch
    /\ ret' = [ret EXCEPT ![t] = 0]
    /\ pending_write_lsn' = [pending_write_lsn EXCEPT ![t] = 0]
    /\ target' = [target EXCEPT ![t] = 0]
    /\ UNCHANGED <<lockvars, signalled, wakeup_list, callbacks, fired, lsn,
                   write_lsn, flushed_to_disk_lsn, file, stable, syncing, calls,
                   asked>>

-----------------------------------------------------------------------------
StartCall(t) ==
    \/ \E kind \in Kinds[t], n \in 1..lsn, sync \in BOOLEAN :
          log_write_up_to(t, kind, n, sync)
    \/ log_write_and_flush_prepare(t)

\* A thread in a call runs on.
CallStep(t) ==
    \/ GcStep(t) /\ UNCHANGED <<diskvars, cpc, callvars>>
    \/ flush_acquired(t) \/ flush_not_acquired(t)
    \/ write_acquired(t) \/ write_not_acquired(t)
    \/ prepare_again(t) \/ commit_shrink(t)
    \/ write_buf(t) \/ write_buf_done(t) \/ write_released(t)
    \/ flush(t) \/ flush_done(t) \/ finish(t)

LogNext ==
    \/ MtrCommit
    \/ \E t \in Threads : StartCall(t) \/ CallStep(t)

LogSafety == LogInit /\ [][LogNext]_logvars
LogSpec == LogSafety /\ WF_logvars(\E t \in Threads : CallStep(t))

-----------------------------------------------------------------------------
\* Nothing is claimed to be written or durable before it is.
NothingClaimedEarly ==
    /\ m_value[flush_lock] <= flushed_to_disk_lsn
    /\ flushed_to_disk_lsn <= stable
    /\ stable <= file
    /\ m_value[write_lock] <= write_lsn /\ write_lsn <= file /\ file <= lsn

Returned(c) ==
    /\ asked[c].lsn > 0
    /\ cpc[c[1]] = "idle" \/ calls[c[1]] > c[2]

Done(c) ==
    asked[c].lsn <= IF asked[c].kind = "durable" THEN stable ELSE file

\* log_write_up_to(): a call without a callback returns when the log has been
\* written, or made durable, up to the lsn.
DoneOnReturn == \A c \in Callbacks : Returned(c) /\ asked[c].sync => Done(c)

\* A callback is called when the log has been written, or made durable, up to
\* its lsn, and once.
DoneOnCallback ==
    \A c \in Callbacks : fired[c] > 0 => fired[c] = 1 /\ Done(c)

\* Nobody waits for ever and no callback is forgotten: release() always leaves
\* a leader, or the caller looks after the callbacks that are left.
CallsServed ==
    \A c \in Callbacks :
        asked[c].lsn > 0 ~> IF asked[c].sync THEN Returned(c) ELSE fired[c] = 1
=============================================================================
