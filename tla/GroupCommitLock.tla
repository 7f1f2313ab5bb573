-------------------------- MODULE GroupCommitLock --------------------------
(***************************************************************************)
(* group_commit_lock (storage/innobase/log/log0sync.cc): who writes the    *)
(* log for whom.  Locks is the set of group_commit_lock objects.  A thread *)
(* is inside at most one acquire() or release() at a time, and its waiter  *)
(* record is thread-local, so what it does there is kept per thread.       *)
(*                                                                         *)
(* m_mtx is held from lk.lock() to lk.unlock(): such a section is one      *)
(* action.  binary_semaphore is the flag signalled[t]; its wait() and      *)
(* wake() are atomic.                                                      *)
(***************************************************************************)
EXTENDS Integers, FiniteSets, SequencesExt

CONSTANTS
    Threads,
    Locks,
    NOBODY,
    MaxCalls,       \* calls with a callback a thread may make
    CALLBACKS       \* array_elements(callbacks) in release()

ASSUME GroupCommitAssumption ==
    /\ NOBODY \notin Threads /\ MaxCalls \in Nat /\ CALLBACKS \in Nat

VARIABLES
    m_value, m_pending_value,
    m_lock,               \* the thread that has the lock, or NOBODY
    m_waiters_list,       \* threads, the latest first
    m_pending_callbacks,  \* [num, cb], in the order they were queued
    gpc,                  \* where each thread is in acquire() or release()
    req,                  \* its arguments: the lock, num and callback
    m_group_commit_leader,
    signalled,            \* binary_semaphore::m_signalled
    wakeup_list, callbacks, ret,  \* locals of release()
    fired                 \* history: how often each callback was called

lockvars == <<m_value, m_pending_value, m_lock, m_waiters_list,
              m_pending_callbacks>>
waitervars == <<m_group_commit_leader, signalled>>
relvars == <<wakeup_list, callbacks, ret>>
gcvars == <<lockvars, gpc, req, waitervars, relvars, fired>>

\* "-" outside; "test" before the test in while (num > value() || leader);
\* "enter" before lk.lock(); "sleep" in m_sema.wait(); the three return codes;
\* then, in release(), the stages after lk.unlock(), and "released".
GcPC == {"-", "test", "enter", "sleep", "ACQUIRED", "EXPIRED",
         "CALLBACK_QUEUED", "lead", "call", "wake", "released"}

\* The callback of the k-th call of thread t is <<t, k>>.  NONE is nullptr and
\* DUMMY the dummy_callback of log_write_up_to().
NONE == <<>>
DUMMY == <<NOBODY>>
Callbacks == Threads \X (1..MaxCalls)
CallbackArgs == Callbacks \cup {NONE, DUMMY}
Pending == [num : Nat, cb : Callbacks \cup {DUMMY}]

GcTypeOK ==
    /\ m_value \in [Locks -> Nat] /\ m_pending_value \in [Locks -> Nat]
    /\ m_lock \in [Locks -> Threads \cup {NOBODY}]
    /\ \A l \in Locks : /\ IsInjective(m_waiters_list[l])
                        /\ ToSet(m_waiters_list[l]) \subseteq Threads
                        /\ ToSet(m_pending_callbacks[l]) \subseteq Pending
    /\ gpc \in [Threads -> GcPC]
    /\ req \in [Threads -> [lock : Locks, num : Nat, cb : CallbackArgs]]
    /\ m_group_commit_leader \in [Threads -> BOOLEAN]
    /\ signalled \in [Threads -> BOOLEAN]
    /\ ret \in [Threads -> Nat]
    /\ fired \in [Callbacks -> Nat]

GcInit ==
    /\ m_value = [l \in Locks |-> 0] /\ m_pending_value = [l \in Locks |-> 0]
    /\ m_lock = [l \in Locks |-> NOBODY]
    /\ m_waiters_list = [l \in Locks |-> <<>>]
    /\ m_pending_callbacks = [l \in Locks |-> <<>>]
    /\ gpc = [t \in Threads |-> "-"]
    /\ req = [t \in Threads |->
                [lock |-> CHOOSE l \in Locks : TRUE, num |-> 0, cb |-> NONE]]
    /\ m_group_commit_leader = [t \in Threads |-> FALSE]
    /\ signalled = [t \in Threads |-> FALSE]
    /\ wakeup_list = [t \in Threads |-> <<>>]
    /\ callbacks = [t \in Threads |-> <<>>]
    /\ ret = [t \in Threads |-> 0]
    /\ fired = [c \in Callbacks |-> 0]

Goto(t, pc) == gpc' = [gpc EXCEPT ![t] = pc]

\* do_completion_callback(), of one or of several callbacks.
CallAll(cbs) ==
    fired' = [c \in Callbacks |->
                fired[c] + Cardinality({i \in DOMAIN cbs : cbs[i] = c})]

-----------------------------------------------------------------------------
(* acquire() *)

\* The call, from the caller's action.  The loop before the waiter record is
\* set makes the same test of the value, up to MAX_SPINS + 1 times, as the while
\* that follows it.
acquire(t, l, num, cb) ==
    /\ req' = [req EXCEPT ![t] = [lock |-> l, num |-> num, cb |-> cb]]
    /\ m_group_commit_leader' = [m_group_commit_leader EXCEPT ![t] = FALSE]
    /\ Goto(t, "test")

\* while (num > value() || m_group_commit_leader), without m_mtx.
acquire_test(t) ==
    /\ gpc[t] = "test"
    /\ IF req[t].num > m_value[req[t].lock] \/ m_group_commit_leader[t]
         THEN Goto(t, "enter") /\ UNCHANGED fired
         ELSE Goto(t, "EXPIRED") /\ CallAll(<<req[t].cb>>)
    /\ UNCHANGED <<lockvars, req, waitervars, relvars>>

\* if (!m_lock)
Free(l) == m_lock[l] = NOBODY

\* Under m_mtx: another one did the work, and this one need not lead.
Expired(t, l) ==
    /\ req[t].num <= m_value[l]
    /\ ~m_group_commit_leader[t] \/ ~Free(l)

QueueCallback(t, l) ==
    m_pending_callbacks' = [m_pending_callbacks EXCEPT ![l] =
        Append(@, [num |-> req[t].num, cb |-> req[t].cb])]

\* May the callback be queued, so that the caller need not wait?
MayQueue(t, l) ==
    /\ req[t].cb # NONE
    /\ m_waiters_list[l] # <<>> \/ req[t].num <= m_pending_value[l]

\* The locked section of the loop.
acquire_locked(t) ==
    LET l == req[t].lock IN
    /\ gpc[t] = "enter"
    /\ \/ /\ Expired(t, l)
          /\ Goto(t, "EXPIRED") /\ CallAll(<<req[t].cb>>)
          /\ UNCHANGED <<m_lock, m_waiters_list, m_pending_callbacks, waitervars>>
       \/ /\ ~Expired(t, l) /\ Free(l)
          /\ m_lock' = [m_lock EXCEPT ![l] = t]
          /\ Goto(t, "ACQUIRED")
          /\ IF req[t].cb = NONE THEN UNCHANGED m_pending_callbacks
             ELSE QueueCallback(t, l)
          /\ UNCHANGED <<m_waiters_list, waitervars, fired>>
       \/ /\ ~Expired(t, l) /\ ~Free(l) /\ MayQueue(t, l)
          /\ QueueCallback(t, l)
          /\ Goto(t, "CALLBACK_QUEUED")
          /\ UNCHANGED <<m_lock, m_waiters_list, waitervars, fired>>
       \/ /\ ~Expired(t, l) /\ ~Free(l) /\ ~MayQueue(t, l)
          /\ m_group_commit_leader' = [m_group_commit_leader EXCEPT ![t] = FALSE]
          /\ m_waiters_list' = [m_waiters_list EXCEPT ![l] = <<t>> \o @]
          /\ Goto(t, "sleep")
          /\ UNCHANGED <<m_lock, m_pending_callbacks, signalled, fired>>
    /\ UNCHANGED <<m_value, m_pending_value, req, relvars>>

\* m_sema.wait() returns.
wait(t) ==
    /\ gpc[t] = "sleep" /\ signalled[t]
    /\ signalled' = [signalled EXCEPT ![t] = FALSE]
    /\ Goto(t, "test")
    /\ UNCHANGED <<lockvars, req, m_group_commit_leader, relvars, fired>>

-----------------------------------------------------------------------------
(* set_pending() and release() *)

set_pending(l, num) ==
    m_pending_value' = [m_pending_value EXCEPT ![l] = num]

\* A walk over s that picks the elements of S.
Only(s, S) ==
    LET only[i \in 0 .. Len(s)] ==
          IF i = 0 THEN <<>>
          ELSE IF s[i] \in S THEN Append(only[i - 1], s[i])
          ELSE only[i - 1]
    IN  only[Len(s)]

\* The waiters to be woken, in the order of wakeup_list: the walk over the list
\* pushes each one in front.
Served(l, num) ==
    Reverse(Only(m_waiters_list[l], {w \in Threads : req[w].num <= num}))

Unserved(l, num) ==
    Only(m_waiters_list[l], {w \in Threads : req[w].num > num})

Due(l, num) ==
    Only(m_pending_callbacks[l],
         {c \in ToSet(m_pending_callbacks[l]) : c.num <= num})

\* A mutant: callbacks that were called stay in the vector.
NotDue_Keep(l, num) == m_pending_callbacks[l]

NotDue(l, num) ==
    Only(m_pending_callbacks[l],
         {c \in ToSet(m_pending_callbacks[l]) : c.num > num})

\* The first thread to be woken, if it is to lead: a waiter whose request is
\* not yet done, else, for the callbacks that are left, one whose is.
Leader(l, num) ==
    IF Unserved(l, num) # <<>> THEN {Head(Unserved(l, num))}
    ELSE IF NotDue(l, num) # <<>> /\ Served(l, num) # <<>>
      THEN {Head(Served(l, num))}
      ELSE {}

\* What release() returns: callbacks are left and nobody leads.
StillPending(l, num) ==
    IF NotDue(l, num) # <<>> /\ Leader(l, num) = {}
      THEN NotDue(l, num)[1].num ELSE 0

\* The next stage after lk.unlock() with the given lists.
Stage(lead, cbs, list) ==
    IF lead THEN "lead" ELSE IF cbs # <<>> THEN "call"
    ELSE IF list # <<>> THEN "wake" ELSE "released"

\* The locked section.  Callbacks beyond the CALLBACKS that fit the array are
\* called at once, the others after the mutex has been released.
release(t, l, num) ==
    LET due  == Due(l, num)
        cbs  == [i \in DOMAIN due |-> due[i].cb]
        fit  == IF Len(cbs) > CALLBACKS THEN CALLBACKS ELSE Len(cbs)
        lead == Leader(l, num)
        rest == Unserved(l, num)
        list == IF rest = <<>> THEN Served(l, num)
                ELSE <<Head(rest)>> \o Served(l, num)
    IN
    /\ m_lock' = [m_lock EXCEPT ![l] = NOBODY]
    /\ m_value' = [m_value EXCEPT ![l] = num]
    /\ m_pending_callbacks' = [m_pending_callbacks EXCEPT ![l] = NotDue(l, num)]
    /\ m_waiters_list' = [m_waiters_list EXCEPT ![l] =
                            IF rest = <<>> THEN <<>> ELSE Tail(rest)]
    /\ m_group_commit_leader' =
         [w \in Threads |-> w \in lead \/ m_group_commit_leader[w]]
    /\ CallAll(SubSeq(cbs, fit + 1, Len(cbs)))
    /\ callbacks' = [callbacks EXCEPT ![t] = SubSeq(cbs, 1, fit)]
    /\ wakeup_list' = [wakeup_list EXCEPT ![t] = list]
    /\ ret' = [ret EXCEPT ![t] = StillPending(l, num)]
    /\ Goto(t, Stage(lead # {}, SubSeq(cbs, 1, fit), list))
    /\ UNCHANGED <<m_pending_value, req, signalled>>

\* m_sema.wake() of the first thread in the list.
wake(t) ==
    /\ signalled' = [signalled EXCEPT ![Head(wakeup_list[t])] = TRUE]
    /\ wakeup_list' = [wakeup_list EXCEPT ![t] = Tail(@)]

\* The leader is woken first.
release_lead(t) ==
    /\ gpc[t] = "lead"
    /\ wake(t)
    /\ Goto(t, Stage(FALSE, callbacks[t], Tail(wakeup_list[t])))
    /\ UNCHANGED <<lockvars, req, m_group_commit_leader, callbacks, ret, fired>>

release_call(t) ==
    /\ gpc[t] = "call"
    /\ CallAll(callbacks[t])
    /\ callbacks' = [callbacks EXCEPT ![t] = <<>>]
    /\ Goto(t, Stage(FALSE, <<>>, wakeup_list[t]))
    /\ UNCHANGED <<lockvars, req, waitervars, wakeup_list, ret>>

release_wake(t) ==
    /\ gpc[t] = "wake"
    /\ wake(t)
    /\ Goto(t, Stage(FALSE, <<>>, Tail(wakeup_list[t])))
    /\ UNCHANGED <<lockvars, req, m_group_commit_leader, callbacks, ret, fired>>

\* The steps inside acquire() and release() that follow a call of them.
GcStep(t) ==
    \/ acquire_test(t) \/ acquire_locked(t) \/ wait(t)
    \/ release_lead(t) \/ release_call(t) \/ release_wake(t)
=============================================================================
