--------------------------- MODULE OrderedCommit ---------------------------
(***************************************************************************)
(* Ordered commit of replicated transactions through the binary log group  *)
(* commit: struct wait_for_commit (sql/sql_class.h, sql/sql_class.cc), the *)
(* group commit queue and its leader (MYSQL_BIN_LOG in sql/log.cc) and the *)
(* parallel replication worker that drives them (sql/rpl_parallel.cc).     *)
(*                                                                         *)
(* A transaction is one event group of one replication domain, numbered by *)
(* its sub_id; each is run by a worker thread of its own, and must commit  *)
(* after the transaction before it.  The database work is a choice between *)
(* success and an error; the binlog write of those in WriteErrors may fail.*)
(***************************************************************************)
EXTENDS Integers, Sequences, SequencesExt, FiniteSets

CONSTANTS
    N,              \* transactions 1..N, in commit order
    NONE,           \* the NULL pointer
    Optimistic,     \* those with SPECULATE_OPTIMISTIC
    TransRetries,   \* slave_trans_retries
    MaxFaults,      \* bound on the kills sent and failing group writes together
    Killable,       \* those that a KILL is sent to
    KillAt,         \* where it reaches them,
    KillWaits,      \* and in which calls of wait_for_prior_commit()
    Scheduling,     \* possible values of opt_optimize_thread_scheduling
    WriteErrors     \* those whose binlog write may fail

ASSUME OrderedCommitAssumption ==
    /\ N \in Nat \ {0}
    /\ NONE \notin 1..N
    /\ Optimistic \subseteq 1..N
    /\ TransRetries \in Nat /\ MaxFaults \in Nat
    /\ Killable \subseteq 1..N
    /\ KillAt \subseteq {"exec", "commit", "queue_wait", "queue", "return"}
    /\ KillWaits \subseteq {"start", "commit", "retry", "finish"}
    /\ Scheduling \subseteq BOOLEAN /\ Scheduling # {}
    /\ WriteErrors \subseteq 1..N

Trx == 1..N
Errors == {"ok", "prior", "interrupted", "deadlock", "hard"}
Mutexes == {"prepare", "log", "sync", "order"}

VARIABLES
    \* struct wait_for_commit of each transaction
    waitee, wakeup_error, subsequent_commits_list, running, commit_started,
    opaque_pointer, LOCK_wait_commit,
    \* struct group_commit_entry, and THD::wakeup_ready
    queued_by_other, error, next, wakeup_ready,
    \* MYSQL_BIN_LOG
    group_commit_queue, work, mutex, group_commit_queue_busy, optimize,
    \* the worker: rpl_group_info and the THD's kill state
    killed, faults, err, worker_error, retries, optimistic,
    \* rpl_parallel_entry
    last_committed, stop_on_error,
    \* what was written to the binlog, the commit_ordered() calls made, and
    \* history: whose write failed, and who was given up after it
    binlog, ordered, write_failed, given_up,
    \* control: program counter, wait_for_prior_commit's return point, the
    \* wakeup in progress and the entry a leader is at
    pc, ret, wk, cur

wfcVars == <<waitee, wakeup_error, subsequent_commits_list, running,
             commit_started, opaque_pointer, LOCK_wait_commit>>
entryVars == <<queued_by_other, error, next, wakeup_ready>>
logVars == <<group_commit_queue, work, mutex, group_commit_queue_busy, optimize>>
workerVars == <<killed, faults, err, worker_error, retries, optimistic>>
parallelVars == <<last_committed, stop_on_error>>
histVars == <<binlog, ordered, write_failed, given_up>>
ctlVars == <<pc, ret, wk, cur>>
vars == <<wfcVars, entryVars, logVars, workerVars, parallelVars, histVars, ctlVars>>

At(t, label) == pc[t] = label
Goto(t, label) == pc' = [pc EXCEPT ![t] = label]

Init ==
    /\ waitee = [t \in Trx |-> NONE]
    /\ wakeup_error = [t \in Trx |-> FALSE]
    /\ subsequent_commits_list = [t \in Trx |-> <<>>]
    /\ running = [t \in Trx |-> FALSE]
    /\ commit_started = [t \in Trx |-> FALSE]
    /\ opaque_pointer = [t \in Trx |-> FALSE]
    /\ LOCK_wait_commit = [t \in Trx |-> NONE]
    /\ queued_by_other = [t \in Trx |-> FALSE]
    /\ error = [t \in Trx |-> FALSE]
    /\ next = [t \in Trx |-> NONE]
    /\ wakeup_ready = [t \in Trx |-> FALSE]
    /\ group_commit_queue = <<>> /\ work = <<>>
    /\ mutex = [m \in Mutexes |-> NONE]
    /\ group_commit_queue_busy = FALSE
    /\ optimize \in Scheduling
    /\ killed = [t \in Trx |-> "no"] /\ faults = 0
    /\ err = [t \in Trx |-> "ok"]
    /\ worker_error = [t \in Trx |-> FALSE]
    /\ retries = [t \in Trx |-> 0]
    /\ optimistic = [t \in Trx |-> t \in Optimistic]
    /\ last_committed = 0 /\ stop_on_error = N + 1
    /\ binlog = <<>> /\ ordered = <<>> /\ write_failed = {} /\ given_up = {}
    /\ pc = [t \in Trx |-> "start"]
    /\ ret = [t \in Trx |-> "none"]
    /\ wk = [t \in Trx |-> [of |-> NONE, list |-> <<>>, err |-> FALSE, to |-> "none"]]
    /\ cur = [t \in Trx |-> NONE]

-----------------------------------------------------------------------------
(* struct wait_for_commit *)

\* The calling thread holds no LOCK_wait_commit and finds t's free.
Free(t) == LOCK_wait_commit[t] = NONE

(* register_wait_for_prior_commit(), if the prior transaction w is not     *)
(* known to have finished: skipped while w is waking up its waiters.       *)
Register(t) ==
    LET w == t - 1 IN
    IF w > last_committed
    THEN /\ Free(w)
         /\ wakeup_error' = [wakeup_error EXCEPT ![t] = FALSE]
         /\ IF running[w]
            THEN waitee' = [waitee EXCEPT ![t] = NONE]
                 /\ UNCHANGED subsequent_commits_list
            ELSE /\ waitee' = [waitee EXCEPT ![t] = w]
                 /\ subsequent_commits_list' =
                        [subsequent_commits_list EXCEPT ![w] = <<t>> \o @]
         /\ UNCHANGED <<running, commit_started, opaque_pointer, LOCK_wait_commit>>
    ELSE UNCHANGED wfcVars

(* remove_from_list() under both locks, which are then released. *)
RemoveFromList(t) ==
    /\ subsequent_commits_list' =
           [subsequent_commits_list EXCEPT ![waitee[t]] = SelectSeq(@, LAMBDA u : u # t)]
    /\ waitee' = [waitee EXCEPT ![t] = NONE]
    /\ LOCK_wait_commit' = [LOCK_wait_commit EXCEPT ![t] = NONE]

(* wakeup() of t: under its LOCK_wait_commit, clears waitee and signals. *)
Wakeup(t, e) ==
    /\ Free(t)
    /\ wakeup_error' = [wakeup_error EXCEPT ![t] = e]
    /\ waitee' = [waitee EXCEPT ![t] = NONE]

(* The inline wakeup_subsequent_commits(): thread t wakes those waiting    *)
(* for transaction w, and continues at label; the list is looked at        *)
(* without a lock.                                                         *)
WakeupSubsequentCommits(t, w, e, label) ==
    IF subsequent_commits_list[w] = <<>>
    THEN Goto(t, label) /\ UNCHANGED wk
    ELSE /\ Goto(t, "wake")
         /\ wk' = [wk EXCEPT ![t] = [of |-> w, list |-> <<>>, err |-> e, to |-> label]]

(* wakeup_subsequent_commits2(): detach the list under the lock, wake the  *)
(* waiters one by one, then clear the flag without the lock.               *)
WakeBegin(t) ==
    LET w == wk[t].of IN
    /\ At(t, "wake") /\ Free(w)
    /\ running' = [running EXCEPT ![w] = TRUE]
    /\ wk' = [wk EXCEPT ![t].list = subsequent_commits_list[w]]
    /\ subsequent_commits_list' = [subsequent_commits_list EXCEPT ![w] = <<>>]
    /\ Goto(t, "waking")
    /\ UNCHANGED <<waitee, wakeup_error, commit_started, opaque_pointer, LOCK_wait_commit,
                   entryVars, logVars, workerVars, parallelVars, histVars, ret, cur>>

WakeNext(t) ==
    /\ At(t, "waking") /\ wk[t].list # <<>>
    /\ Wakeup(Head(wk[t].list), wk[t].err)
    /\ wk' = [wk EXCEPT ![t].list = Tail(@)]
    /\ UNCHANGED <<subsequent_commits_list, running, commit_started, opaque_pointer,
                   LOCK_wait_commit, entryVars, logVars, workerVars, parallelVars,
                   histVars, pc, ret, cur>>

WakeEnd(t) ==
    /\ At(t, "waking") /\ wk[t].list = <<>>
    /\ running' = [running EXCEPT ![wk[t].of] = FALSE]
    /\ Goto(t, wk[t].to)
    /\ wk' = [wk EXCEPT ![t] = [of |-> NONE, list |-> <<>>, err |-> FALSE, to |-> "none"]]
    /\ UNCHANGED <<waitee, wakeup_error, subsequent_commits_list, commit_started,
                   opaque_pointer, LOCK_wait_commit, entryVars, logVars, workerVars,
                   parallelVars, histVars, ret, cur>>

(* What the callers of wait_for_prior_commit() do with its result.         *)
CallWait(t, label) == Goto(t, "wait") /\ ret' = [ret EXCEPT ![t] = label]

(* finish_event_group() first waits for the prior transaction.             *)
FinishEventGroup(t) == CallWait(t, "finish")

\* convert_kill_to_deadlock_error() and has_temporary_error()
Temporary(t, e) ==
    \/ e = "deadlock"
    \/ optimistic[t] /\ e \in {"interrupted", "hard"}
    \/ e = "interrupted" /\ killed[t] = "retry"

(* History: the transactions whose binlog write failed, and those that the *)
(* last wait, after the write, gives up: because of a KILL, or because the *)
(* transaction before was hit in one of these ways.                        *)
Hit == write_failed \cup given_up
LostAfterWrite(t, e) ==
    ret[t] = "commit" /\ (e = "interrupted" \/ (e = "prior" /\ t - 1 \in Hit))

WaitReturns(t, e) ==
    LET failed == e # "ok"
        over == failed /\ (ret[t] = "start" \/ (ret[t] = "retry" /\ ~Temporary(t, e)))
    IN
    /\ err' = [err EXCEPT ![t] = IF ret[t] = "commit" THEN e ELSE @]
    /\ \/ over /\ FinishEventGroup(t)
       \/ /\ ~over
          /\ Goto(t, CASE ret[t] = "start"  -> "exec"
                       [] ret[t] = "commit" -> IF failed THEN "failed" ELSE "engine"
                       [] ret[t] = "retry"  -> IF failed THEN "unregister" ELSE "exec"
                       [] ret[t] = "finish" -> "mark")
          /\ ret' = [ret EXCEPT ![t] = "none"]
    /\ worker_error' = [worker_error EXCEPT ![t] =
           @ \/ over \/ (failed /\ ret[t] = "finish")]
    /\ killed' = [killed EXCEPT ![t] =
           IF ret[t] = "retry" /\ (~failed \/ Temporary(t, e)) THEN "no" ELSE @]
    /\ optimistic' = [optimistic EXCEPT ![t] = @ /\ ~(ret[t] = "retry" /\ ~failed)]
    /\ given_up' = IF LostAfterWrite(t, e) THEN given_up \cup {t} ELSE given_up
    /\ UNCHANGED <<faults, retries, entryVars, logVars, parallelVars, binlog, ordered,
                   write_failed, wk, cur>>

(* wait_for_prior_commit(): the fast path, and the wait that ends because  *)
(* the waitee woke us up.                                                  *)
WaitWoken(t) ==
    /\ At(t, "wait") \/ (At(t, "wait_ignoring_kill") /\ Free(t))
    /\ waitee[t] = NONE
    /\ WaitReturns(t, IF wakeup_error[t] THEN "prior" ELSE "ok")
    /\ UNCHANGED wfcVars

(* The wait is interrupted by a kill: own lock held, the waitee's awaited. *)
WaitKilled(t) ==
    /\ At(t, "wait") /\ Free(t) /\ waitee[t] # NONE /\ killed[t] # "no"
    /\ LOCK_wait_commit' = [LOCK_wait_commit EXCEPT ![t] = t]
    /\ Goto(t, "wait_killed")
    /\ UNCHANGED <<waitee, wakeup_error, subsequent_commits_list, running, commit_started,
                   opaque_pointer, entryVars, logVars, workerVars, parallelVars,
                   histVars, ret, wk, cur>>

WaitIgnoreKill(t) ==
    /\ At(t, "wait_killed") /\ Free(waitee[t]) /\ running[waitee[t]]
    /\ LOCK_wait_commit' = [LOCK_wait_commit EXCEPT ![t] = NONE]
    /\ Goto(t, "wait_ignoring_kill")
    /\ UNCHANGED <<waitee, wakeup_error, subsequent_commits_list, running, commit_started,
                   opaque_pointer, entryVars, logVars, workerVars, parallelVars,
                   histVars, ret, wk, cur>>

WaitAbandon(t) ==
    /\ At(t, "wait_killed") /\ Free(waitee[t]) /\ ~running[waitee[t]]
    /\ RemoveFromList(t)
    /\ wakeup_error' = [wakeup_error EXCEPT ![t] = TRUE]
    /\ WaitReturns(t, "interrupted")
    /\ UNCHANGED <<running, commit_started, opaque_pointer>>

(* unregister_wait_for_prior_commit(): while the waitee is waking us up it *)
(* is a wait, otherwise we leave its list; then the error is forgotten.    *)
Unregister(t) ==
    /\ At(t, "unregister") /\ Free(t)
    /\ \/ /\ waitee[t] = NONE
          /\ UNCHANGED <<waitee, subsequent_commits_list, LOCK_wait_commit>>
       \/ /\ waitee[t] # NONE /\ Free(waitee[t]) /\ ~running[waitee[t]]
          /\ RemoveFromList(t)
    /\ wakeup_error' = [wakeup_error EXCEPT ![t] = FALSE]
    /\ killed' = [killed EXCEPT ![t] = "no"]
    /\ Goto(t, "register")
    /\ UNCHANGED <<running, commit_started, opaque_pointer, faults, err, worker_error,
                   retries, optimistic, entryVars, logVars, parallelVars, histVars,
                   ret, wk, cur>>

-----------------------------------------------------------------------------
(* The parallel replication worker *)

(* handle_rpl_parallel_thread() at the GTID event: an event group after a  *)
(* failed one is skipped, and still waits for its turn; one that is not to *)
(* run in parallel (SPECULATE_WAIT) waits first.                           *)
Start(t) ==
    LET skip == stop_on_error <= t - 1 IN
    /\ At(t, "start")
    /\ Register(t)
    /\ worker_error' = [worker_error EXCEPT ![t] = skip]
    /\ \/ skip /\ FinishEventGroup(t)
       \/ ~skip /\ t \notin Optimistic /\ CallWait(t, "start")
       \/ ~skip /\ Goto(t, "exec") /\ UNCHANGED ret
    /\ UNCHANGED <<killed, faults, err, retries, optimistic, entryVars, logVars,
                   parallelVars, histVars, wk, cur>>

(* rpt_handle_event(): the changes succeed, and the commit begins; or they *)
(* fail, by themselves or because the thread is killed.  They wait for the *)
(* row locks of a later transaction until the deadlock kill took effect.   *)
Execute(t) ==
    /\ At(t, "exec")
    /\ \A u \in (t + 1)..N : killed[u] # "retry"
    /\ \/ Goto(t, "commit") /\ UNCHANGED err
       \/ /\ \E e \in {"hard", "deadlock"} \cup (IF killed[t] = "no" THEN {} ELSE {"interrupted"}) :
                 err' = [err EXCEPT ![t] = e]
          /\ Goto(t, "failed")
    /\ UNCHANGED <<wfcVars, entryVars, logVars, killed, faults, worker_error, retries,
                   optimistic, parallelVars, histVars, ret, wk, cur>>

(* A failed attempt is retried after a temporary error, else it is a       *)
(* worker error, reported to the SQL driver thread.                        *)
Failed(t) ==
    LET again == Temporary(t, err[t]) /\ retries[t] < TransRetries IN
    /\ At(t, "failed")
    /\ retries' = [retries EXCEPT ![t] = IF again THEN @ + 1 ELSE @]
    /\ worker_error' = [worker_error EXCEPT ![t] = ~again]
    /\ killed' = [killed EXCEPT ![t] = "no"]
    /\ err' = [err EXCEPT ![t] = "ok"]
    /\ \/ again /\ Goto(t, "unregister") /\ UNCHANGED ret
       \/ ~again /\ FinishEventGroup(t)
    /\ UNCHANGED <<wfcVars, entryVars, logVars, faults, optimistic, parallelVars,
                   histVars, wk, cur>>

(* retry_event_group(): register again unless a prior transaction failed,  *)
(* and wait for the prior transaction before trying again.                 *)
Reregister(t) ==
    /\ At(t, "register")
    /\ IF t < stop_on_error
       THEN Register(t) /\ CallWait(t, "retry") /\ UNCHANGED worker_error
       ELSE /\ worker_error' = [worker_error EXCEPT ![t] = TRUE]
            /\ FinishEventGroup(t)
            /\ UNCHANGED wfcVars
    /\ UNCHANGED <<killed, faults, err, retries, optimistic, entryVars, logVars,
                   parallelVars, histVars, wk, cur>>

(* finish_event_group(): record that this one is finished, and wake up     *)
(* whoever still waits for it.  The rgi is given back.                     *)
MarkFinished(t) ==
    /\ At(t, "mark")
    /\ last_committed' = IF last_committed < t THEN t ELSE last_committed
    /\ stop_on_error' = IF worker_error[t] /\ stop_on_error = N + 1 THEN t ELSE stop_on_error
    /\ killed' = [killed EXCEPT ![t] = "no"]
    /\ retries' = [retries EXCEPT ![t] = 0]
    /\ optimistic' = [optimistic EXCEPT ![t] = FALSE]
    /\ wakeup_error' = [wakeup_error EXCEPT ![t] = FALSE]
    /\ Goto(t, "last_wakeup")
    /\ UNCHANGED <<waitee, subsequent_commits_list, running, commit_started,
                   opaque_pointer, LOCK_wait_commit, entryVars, logVars, faults, err,
                   worker_error, histVars, ret, wk, cur>>

\* Mutant of LastWakeup: the "usually redundant" wakeup is left out.
LastWakeup_Skipped(t) ==
    /\ At(t, "last_wakeup")
    /\ Goto(t, "end")
    /\ UNCHANGED <<wfcVars, entryVars, logVars, workerVars, parallelVars, histVars, ret, wk, cur>>

LastWakeup(t) ==
    /\ At(t, "last_wakeup")
    /\ WakeupSubsequentCommits(t, t, worker_error[t], "end")
    /\ UNCHANGED <<wfcVars, entryVars, logVars, workerVars, parallelVars, histVars, ret, cur>>

(* KILL of the worker.                                                     *)
Kill(t) ==
    /\ t \in Killable /\ (pc[t] \in KillAt \/ (At(t, "wait") /\ ret[t] \in KillWaits))
    /\ faults < MaxFaults /\ killed[t] = "no"
    /\ killed' = [killed EXCEPT ![t] = "stop"]
    /\ faults' = faults + 1
    /\ UNCHANGED <<wfcVars, entryVars, logVars, err, worker_error, retries, optimistic,
                   parallelVars, histVars, ctlVars>>

(* The deadlock kill, by the background thread, of a transaction whose row *)
(* locks keep an earlier one from executing.                               *)
DeadlockKill(t) ==
    /\ pc[t] \in {"exec", "commit", "queue_wait", "queue"}
    /\ \E u \in 1..(t - 1) : At(u, "exec")
    /\ faults < MaxFaults /\ killed[t] = "no"
    /\ killed' = [killed EXCEPT ![t] = "retry"]
    /\ faults' = faults + 1
    /\ UNCHANGED <<wfcVars, entryVars, logVars, err, worker_error, retries, optimistic,
                   parallelVars, histVars, ctlVars>>

-----------------------------------------------------------------------------
(* MYSQL_BIN_LOG::queue_for_group_commit() *)

(* The prior transaction, if any, is done or already queued: queue up.     *)
QueueAtOnce(t) ==
    /\ At(t, "commit") /\ Free(t)
    /\ waitee[t] # NONE => commit_started[waitee[t]]
    /\ queued_by_other' = [queued_by_other EXCEPT ![t] = FALSE]
    /\ Goto(t, "queue")
    /\ UNCHANGED <<wfcVars, error, next, wakeup_ready, logVars, workerVars, parallelVars,
                   histVars, ret, wk, cur>>

(* Else mark that we are ready, and wait for the prior transaction.        *)
QueueWait(t) ==
    /\ At(t, "commit") /\ Free(t)
    /\ waitee[t] # NONE /\ ~commit_started[waitee[t]]
    /\ queued_by_other' = [queued_by_other EXCEPT ![t] = FALSE]
    /\ opaque_pointer' = [opaque_pointer EXCEPT ![t] = TRUE]
    /\ Goto(t, "queue_wait")
    /\ UNCHANGED <<waitee, wakeup_error, subsequent_commits_list, running, commit_started,
                   LOCK_wait_commit, error, next, wakeup_ready, logVars, workerVars,
                   parallelVars, histVars, ret, wk, cur>>

QueueWoken(t) ==
    /\ At(t, "queue_wait") \/ At(t, "queue_ignoring_kill")
    /\ Free(t) /\ waitee[t] = NONE
    /\ opaque_pointer' = [opaque_pointer EXCEPT ![t] = FALSE]
    /\ Goto(t, "queue")
    /\ UNCHANGED <<waitee, wakeup_error, subsequent_commits_list, running, commit_started,
                   LOCK_wait_commit, entryVars, logVars, workerVars, parallelVars,
                   histVars, ret, wk, cur>>

QueueKilled(t) ==
    /\ At(t, "queue_wait") /\ Free(t) /\ waitee[t] # NONE /\ killed[t] # "no"
    /\ opaque_pointer' = [opaque_pointer EXCEPT ![t] = FALSE]
    /\ LOCK_wait_commit' = [LOCK_wait_commit EXCEPT ![t] = t]
    /\ Goto(t, "queue_killed")
    /\ UNCHANGED <<waitee, wakeup_error, subsequent_commits_list, running, commit_started,
                   entryVars, logVars, workerVars, parallelVars, histVars, ret, wk, cur>>

\* Mutant of KillTooLate: forgets that the waitee may have queued us.
KillTooLate_RunningOnly(t) == running[waitee[t]]

(* The waitee is waking us up, or has put us into the queue: the kill is   *)
(* ignored.                                                                *)
KillTooLate(t) == running[waitee[t]] \/ queued_by_other[t]

QueueIgnoreKill(t) ==
    /\ At(t, "queue_killed") /\ Free(waitee[t]) /\ KillTooLate(t)
    /\ LOCK_wait_commit' = [LOCK_wait_commit EXCEPT ![t] = NONE]
    /\ Goto(t, "queue_ignoring_kill")
    /\ UNCHANGED <<waitee, wakeup_error, subsequent_commits_list, running, commit_started,
                   opaque_pointer, entryVars, logVars, workerVars, parallelVars,
                   histVars, ret, wk, cur>>

QueueAbandon(t) ==
    /\ At(t, "queue_killed") /\ Free(waitee[t]) /\ ~KillTooLate(t)
    /\ RemoveFromList(t)
    /\ wakeup_error' = [wakeup_error EXCEPT ![t] = TRUE]
    /\ err' = [err EXCEPT ![t] = "interrupted"]
    /\ Goto(t, "failed")
    /\ UNCHANGED <<running, commit_started, opaque_pointer, entryVars, logVars, killed,
                   faults, worker_error, retries, optimistic, parallelVars, histVars,
                   ret, wk, cur>>

\* Mutant of PriorFailed: the error passed on by the waitee is not looked at.
PriorFailed_Ignored(t) == FALSE

\* wfc->wakeup_error: ER_PRIOR_COMMIT_FAILED
PriorFailed(t) == wakeup_error[t]

(* Not queued yet: fail if the prior transaction failed, else take         *)
(* LOCK_prepare_ordered.  Queued by the waitee: our commit is done.        *)
BeginQueue(t) ==
    /\ At(t, "queue")
    /\ \/ /\ queued_by_other[t]
          /\ Goto(t, IF optimize THEN "return" ELSE "own_lock")
          /\ UNCHANGED <<work, mutex, wakeup_ready, err>>
       \/ /\ ~queued_by_other[t] /\ PriorFailed(t)
          /\ err' = [err EXCEPT ![t] = "prior"]
          /\ Goto(t, "failed")
          /\ UNCHANGED <<work, mutex, wakeup_ready>>
       \/ /\ ~queued_by_other[t] /\ ~PriorFailed(t)
          /\ mutex["prepare"] = NONE
          /\ mutex' = [mutex EXCEPT !["prepare"] = t]
          /\ wakeup_ready' = [wakeup_ready EXCEPT ![t] = FALSE]
          /\ work' = <<t>>
          /\ Goto(t, IF group_commit_queue = <<>> THEN "queue_as_leader" ELSE "queue_as_follower")
          /\ UNCHANGED err
    /\ UNCHANGED <<wfcVars, queued_by_other, error, next, group_commit_queue,
                   group_commit_queue_busy, optimize, killed, faults, worker_error,
                   retries, optimistic, parallelVars, histVars, ret, wk, cur>>

\* Mutant of Enqueue: takes every waiter off the list, ready or not.
Enqueue_DropsWaiters(t) ==
    LET c == Head(work)
        ready == SelectSeq(subsequent_commits_list[c], LAMBDA u : opaque_pointer[u])
        rest == Tail(work) \o ready
    IN
    /\ At(t, "queue_as_leader") \/ At(t, "queue_as_follower")
    /\ subsequent_commits_list[c] # <<>> => Free(c)
    /\ commit_started' = [commit_started EXCEPT ![c] = TRUE]
    /\ subsequent_commits_list' = [subsequent_commits_list EXCEPT ![c] = <<>>]
    /\ queued_by_other' = [u \in Trx |-> queued_by_other[u] \/ u \in Range(ready)]
    /\ group_commit_queue' = <<c>> \o group_commit_queue
    /\ work' = rest
    /\ IF rest = <<>>
       THEN /\ mutex' = [mutex EXCEPT !["prepare"] = NONE]
            /\ Goto(t, IF At(t, "queue_as_leader") THEN "lead" ELSE "follow")
       ELSE UNCHANGED <<mutex, pc>>
    /\ UNCHANGED <<waitee, wakeup_error, running, opaque_pointer, LOCK_wait_commit, error,
                   next, wakeup_ready, group_commit_queue_busy, optimize, workerVars,
                   parallelVars, histVars, ret, wk, cur>>

(* One iteration of the breadth-first walk: the entry is pushed at the     *)
(* head of the queue, and its waiters that are ready join the walk.        *)
Enqueue(t) ==
    LET c == Head(work)
        Ready(u) == opaque_pointer[u]
        ready == SelectSeq(subsequent_commits_list[c], Ready)
        rest == Tail(work) \o ready
    IN
    /\ At(t, "queue_as_leader") \/ At(t, "queue_as_follower")
    /\ subsequent_commits_list[c] # <<>> => Free(c)
    /\ commit_started' = [commit_started EXCEPT ![c] = TRUE]
    /\ subsequent_commits_list' =
           [subsequent_commits_list EXCEPT ![c] = SelectSeq(@, LAMBDA u : ~Ready(u))]
    /\ queued_by_other' = [u \in Trx |-> queued_by_other[u] \/ u \in Range(ready)]
    /\ group_commit_queue' = <<c>> \o group_commit_queue
    /\ work' = rest
    /\ IF rest = <<>>
       THEN /\ mutex' = [mutex EXCEPT !["prepare"] = NONE]
            /\ Goto(t, IF At(t, "queue_as_leader") THEN "lead" ELSE "follow")
       ELSE UNCHANGED <<mutex, pc>>
    /\ UNCHANGED <<waitee, wakeup_error, running, opaque_pointer, LOCK_wait_commit, error,
                   next, wakeup_ready, group_commit_queue_busy, optimize, workerVars,
                   parallelVars, histVars, ret, wk, cur>>

-----------------------------------------------------------------------------
(* MYSQL_BIN_LOG::trx_group_commit_leader() *)

LeadLock(t) ==
    /\ At(t, "lead") /\ mutex["log"] = NONE
    /\ mutex' = [mutex EXCEPT !["log"] = t]
    /\ Goto(t, "lead_take")
    /\ UNCHANGED <<wfcVars, entryVars, group_commit_queue, work, group_commit_queue_busy,
                   optimize, workerVars, parallelVars, histVars, ret, wk, cur>>

(* The queue is in reverse order of entering: reverse it. *)
QueueInOrder == Reverse(group_commit_queue)

(* Take the queue under LOCK_prepare_ordered and reverse it. *)
LeadTake(t) ==
    LET q == QueueInOrder IN
    /\ At(t, "lead_take") /\ mutex["prepare"] = NONE
    /\ next' = [u \in Trx |->
           IF u \notin Range(q) THEN next[u]
           ELSE LET i == CHOOSE i \in DOMAIN q : q[i] = u IN
                IF i = Len(q) THEN NONE ELSE q[i + 1]]
    /\ cur' = [cur EXCEPT ![t] = Head(q)]
    /\ group_commit_queue' = <<>>
    /\ Goto(t, "lead_write")
    /\ UNCHANGED <<wfcVars, queued_by_other, error, wakeup_ready, work, mutex,
                   group_commit_queue_busy, optimize, workerVars, parallelVars,
                   histVars, ret, wk>>

(* The entries of a group, from entry u on. *)
GroupFrom(u) ==
    LET from[n \in 0..N, v \in Trx \cup {NONE}] ==
            IF n = 0 \/ v = NONE THEN <<>> ELSE <<v>> \o from[n - 1, next[v]]
    IN from[N, u]

(* write_transaction_or_stmt() of each entry, flush_and_sync() and the     *)
(* report to the semi-synchronous master.  An entry gets an error when it  *)
(* is not written, or when it is in the file and the sync or the report    *)
(* fails; a failing flush writes some and flags all.  The wait for the     *)
(* semi-synchronous replica, wait_after_sync(), never returns an error.    *)
LeadWrite(t) ==
    LET group == GroupFrom(cur[t])
        fallible == Range(group) \cap WriteErrors
    IN
    /\ At(t, "lead_write")
    /\ \E unwritten \in SUBSET fallible : \E rejected \in SUBSET (fallible \ unwritten) :
          /\ error' = [u \in Trx |-> IF u \in Range(group) THEN u \in unwritten \cup rejected
                                                          ELSE error[u]]
          /\ binlog' = binlog \o SelectSeq(group, LAMBDA u : u \notin unwritten)
          /\ write_failed' = write_failed \cup unwritten \cup rejected
          /\ \/ unwritten \cup rejected = {} /\ UNCHANGED faults
             \/ unwritten \cup rejected # {} /\ faults < MaxFaults /\ faults' = faults + 1
    /\ Goto(t, "lead_sync")
    /\ UNCHANGED <<wfcVars, queued_by_other, next, wakeup_ready, logVars, killed, err,
                   worker_error, retries, optimistic, parallelVars, ordered, given_up,
                   ret, wk, cur>>

\* Mutant of LeadSync: LOCK_log is released before the next mutex is taken.
LeadSync_Unchained(t) ==
    /\ At(t, "lead_sync")
    /\ mutex' = [mutex EXCEPT !["log"] = NONE]
    /\ Goto(t, "lead_order")
    /\ UNCHANGED <<wfcVars, entryVars, group_commit_queue, work, group_commit_queue_busy,
                   optimize, workerVars, parallelVars, histVars, ret, wk, cur>>

(* LOCK_after_binlog_sync is taken before LOCK_log is released ... *)
LeadSync(t) ==
    /\ At(t, "lead_sync") /\ mutex["sync"] = NONE
    /\ mutex' = [mutex EXCEPT !["sync"] = t, !["log"] = NONE]
    /\ Goto(t, "lead_order")
    /\ UNCHANGED <<wfcVars, entryVars, group_commit_queue, work, group_commit_queue_busy,
                   optimize, workerVars, parallelVars, histVars, ret, wk, cur>>

(* ... and LOCK_commit_ordered before LOCK_after_binlog_sync is.           *)
(* Without optimized scheduling the leader then reserves the queue; the    *)
(* wait on COND_queue_busy gives up LOCK_commit_ordered.                   *)
LeadOrder(t) ==
    /\ At(t, "lead_order") /\ mutex["order"] = NONE
    /\ \/ /\ optimize
          /\ mutex' = [mutex EXCEPT !["order"] = t, !["sync"] = NONE]
          /\ Goto(t, "order")
          /\ UNCHANGED group_commit_queue_busy
       \/ /\ ~optimize /\ ~group_commit_queue_busy
          /\ mutex' = [mutex EXCEPT !["order"] = t, !["sync"] = NONE]
          /\ group_commit_queue_busy' = TRUE
          /\ Goto(t, "own_order")
       \/ /\ ~optimize /\ group_commit_queue_busy
          /\ mutex' = [mutex EXCEPT !["sync"] = NONE]
          /\ Goto(t, "lead_busy")
          /\ UNCHANGED group_commit_queue_busy
    /\ UNCHANGED <<wfcVars, entryVars, group_commit_queue, work, optimize, workerVars,
                   parallelVars, histVars, ret, wk, cur>>

LeadReserve(t) ==
    /\ At(t, "lead_busy") /\ mutex["order"] = NONE /\ ~group_commit_queue_busy
    /\ mutex' = [mutex EXCEPT !["order"] = t]
    /\ group_commit_queue_busy' = TRUE
    /\ Goto(t, "own_order")
    /\ UNCHANGED <<wfcVars, entryVars, group_commit_queue, work, optimize, workerVars,
                   parallelVars, histVars, ret, wk, cur>>

(* run_commit_ordered() of an entry without error. *)
RunCommitOrdered(u) ==
    ordered' = IF error[u] THEN ordered ELSE Append(ordered, u)

(* Optimized scheduling: the leader runs commit_ordered() for every entry  *)
(* and wakes first its subsequent commits, then the entry's thread.        *)
LeadCommit(t) ==
    /\ At(t, "order")
    /\ RunCommitOrdered(cur[t])
    /\ WakeupSubsequentCommits(t, cur[t], error[cur[t]], "signal")
    /\ UNCHANGED <<wfcVars, entryVars, logVars, workerVars, parallelVars, binlog,
                   write_failed, given_up, ret, cur>>

(* Wake the thread of entry u, which waits in one of two ways.             *)
SignalEntry(u, e) ==
    \/ /\ queued_by_other[u] /\ Wakeup(u, e)
       /\ UNCHANGED wakeup_ready
    \/ /\ ~queued_by_other[u]
       /\ wakeup_ready' = [wakeup_ready EXCEPT ![u] = TRUE]
       /\ UNCHANGED <<waitee, wakeup_error>>

LeadSignal(t) ==
    LET u == cur[t] IN
    /\ At(t, "signal")
    /\ \/ u = t /\ UNCHANGED <<waitee, wakeup_error, wakeup_ready>>
       \/ u # t /\ SignalEntry(u, error[u])
    /\ cur' = [cur EXCEPT ![t] = next[u]]
    /\ IF next[u] = NONE
       THEN mutex' = [mutex EXCEPT !["order"] = NONE] /\ Goto(t, "return")
       ELSE Goto(t, "order") /\ UNCHANGED mutex
    /\ UNCHANGED <<subsequent_commits_list, running, commit_started, opaque_pointer,
                   LOCK_wait_commit, queued_by_other, error, next, group_commit_queue, work,
                   group_commit_queue_busy, optimize, workerVars, parallelVars, histVars,
                   ret, wk>>

-----------------------------------------------------------------------------
(* MYSQL_BIN_LOG::write_transaction_to_binlog_events() *)

Followed(t) ==
    /\ At(t, "follow") /\ wakeup_ready[t]
    /\ Goto(t, IF optimize THEN "return" ELSE "own_lock")
    /\ UNCHANGED <<wfcVars, entryVars, logVars, workerVars, parallelVars, histVars, ret, wk, cur>>

(* Without optimized scheduling each thread runs its own commit_ordered(), *)
(* and the last of the group lets the next group in.                       *)
OwnLock(t) ==
    /\ At(t, "own_lock") /\ mutex["order"] = NONE
    /\ mutex' = [mutex EXCEPT !["order"] = t]
    /\ Goto(t, "own_order")
    /\ UNCHANGED <<wfcVars, entryVars, group_commit_queue, work, group_commit_queue_busy,
                   optimize, workerVars, parallelVars, histVars, ret, wk, cur>>

OwnCommit(t) ==
    /\ At(t, "own_order")
    /\ RunCommitOrdered(t)
    /\ group_commit_queue_busy' = (group_commit_queue_busy /\ next[t] # NONE)
    /\ mutex' = [mutex EXCEPT !["order"] = NONE]
    /\ Goto(t, "own_wakeup")
    /\ UNCHANGED <<wfcVars, entryVars, group_commit_queue, work, optimize, workerVars,
                   parallelVars, binlog, write_failed, given_up, ret, wk, cur>>

OwnWakeup(t) ==
    /\ At(t, "own_wakeup")
    /\ WakeupSubsequentCommits(t, t, error[t], "own_signal")
    /\ UNCHANGED <<wfcVars, entryVars, logVars, workerVars, parallelVars, histVars, ret, cur>>

OwnSignal(t) ==
    /\ At(t, "own_signal")
    /\ \/ next[t] = NONE /\ UNCHANGED <<waitee, wakeup_error, wakeup_ready>>
       \/ next[t] # NONE /\ SignalEntry(next[t], error[t])
    /\ Goto(t, "return")
    /\ UNCHANGED <<subsequent_commits_list, running, commit_started, opaque_pointer,
                   LOCK_wait_commit, queued_by_other, error, next, logVars, workerVars,
                   parallelVars, histVars, ret, wk, cur>>

(* The entry is on the stack of the caller of this function. *)
EndEntry(t) ==
    /\ queued_by_other' = [queued_by_other EXCEPT ![t] = FALSE]
    /\ error' = [error EXCEPT ![t] = FALSE]
    /\ next' = [next EXCEPT ![t] = NONE]
    /\ wakeup_ready' = [wakeup_ready EXCEPT ![t] = FALSE]
    /\ cur' = [cur EXCEPT ![t] = NONE]

(* The transaction is in the binlog: wait for the prior one (which is done *)
(* in most cases), or report the write error.                              *)
Return(t) ==
    /\ At(t, "return")
    /\ IF error[t]
       THEN /\ err' = [err EXCEPT ![t] = "hard"]
            /\ Goto(t, "failed") /\ UNCHANGED ret
       ELSE CallWait(t, "commit") /\ UNCHANGED err
    /\ EndEntry(t)
    /\ UNCHANGED <<wfcVars, logVars, killed, faults, worker_error, retries,
                   optimistic, parallelVars, histVars, wk>>

(* innobase_commit() after log_and_order(): wake up subsequent commits.    *)
EngineCommit(t) ==
    /\ At(t, "engine")
    /\ WakeupSubsequentCommits(t, t, FALSE, "wait")
    /\ ret' = [ret EXCEPT ![t] = "finish"]
    /\ UNCHANGED <<wfcVars, entryVars, logVars, workerVars, parallelVars, histVars, cur>>

-----------------------------------------------------------------------------
WfcStep(t) ==
    \/ WakeBegin(t) \/ WakeNext(t) \/ WakeEnd(t)
    \/ WaitWoken(t) \/ WaitKilled(t) \/ WaitIgnoreKill(t) \/ WaitAbandon(t) \/ Unregister(t)

WorkerStep(t) ==
    \/ Start(t) \/ Execute(t) \/ Failed(t) \/ Reregister(t)
    \/ MarkFinished(t) \/ LastWakeup(t)

QueueStep(t) ==
    \/ QueueAtOnce(t) \/ QueueWait(t) \/ QueueWoken(t) \/ QueueKilled(t)
    \/ QueueIgnoreKill(t) \/ QueueAbandon(t) \/ BeginQueue(t) \/ Enqueue(t)

LeaderStep(t) ==
    \/ LeadLock(t) \/ LeadTake(t) \/ LeadWrite(t) \/ LeadSync(t) \/ LeadOrder(t)
    \/ LeadReserve(t) \/ LeadCommit(t) \/ LeadSignal(t)

OwnStep(t) ==
    \/ Followed(t) \/ OwnLock(t) \/ OwnCommit(t) \/ OwnWakeup(t) \/ OwnSignal(t)
    \/ Return(t) \/ EngineCommit(t)

Step(t) == WfcStep(t) \/ WorkerStep(t) \/ QueueStep(t) \/ LeaderStep(t) \/ OwnStep(t)

Next == \E t \in Trx : Step(t) \/ Kill(t) \/ DeadlockKill(t)

(* Some thread that can take a step does so: the operating system does not *)
(* stop all of them.  No thread can go on for ever, so this weak condition *)
(* is enough.                                                              *)
Fairness == WF_vars(\E t \in Trx : Step(t))

OrderedCommitSafety == Init /\ [][Next]_vars
OrderedCommitSpec == OrderedCommitSafety /\ Fairness
-----------------------------------------------------------------------------
(* Properties *)

OrderedCommitTypeOK ==
    /\ waitee \in [Trx -> Trx \cup {NONE}]
    /\ wakeup_error \in [Trx -> BOOLEAN]
    /\ \A t \in Trx : Range(subsequent_commits_list[t]) \subseteq Trx
    /\ running \in [Trx -> BOOLEAN] /\ commit_started \in [Trx -> BOOLEAN]
    /\ opaque_pointer \in [Trx -> BOOLEAN]
    /\ LOCK_wait_commit \in [Trx -> Trx \cup {NONE}]
    /\ queued_by_other \in [Trx -> BOOLEAN] /\ error \in [Trx -> BOOLEAN]
    /\ next \in [Trx -> Trx \cup {NONE}] /\ wakeup_ready \in [Trx -> BOOLEAN]
    /\ \A q \in {group_commit_queue, work, binlog, ordered} : Range(q) \subseteq Trx
    /\ mutex \in [Mutexes -> Trx \cup {NONE}]
    /\ group_commit_queue_busy \in BOOLEAN /\ optimize \in Scheduling
    /\ killed \in [Trx -> {"no", "stop", "retry"}] /\ faults \in 0..MaxFaults
    /\ err \in [Trx -> Errors] /\ worker_error \in [Trx -> BOOLEAN]
    /\ retries \in [Trx -> 0..TransRetries] /\ optimistic \in [Trx -> BOOLEAN]
    /\ last_committed \in 0..N /\ stop_on_error \in 1..(N + 1)
    /\ cur \in [Trx -> Trx \cup {NONE}]
    /\ write_failed \subseteq Trx /\ given_up \subseteq Trx

(* The binlog holds transactions 1, 2, 3, ... in this order without a gap  *)
(* and without a repetition: no transaction is written ahead of the one    *)
(* before it, after one before it failed, or twice, whatever is killed,    *)
(* fails or is retried while others wait, queue and commit.  The exception *)
(* are the transactions hit by a failing binlog write, or by a KILL at the *)
(* last wait after it (log.cc:8279): the next one may be queued already,   *)
(* or queue because commit_started is set (log.cc:7879-7886), and is       *)
(* written all the same, and one that is tried again is written again.     *)
BinlogInOrder ==
    \A i \in DOMAIN binlog :
        LET t == binlog[i]
            before == {binlog[j] : j \in 1..(i - 1)}
        IN /\ t - 1 \in {0} \cup before \cup Hit
           /\ t \in before => t \in Hit

(* commit_ordered() is called in the order of the binlog, group after      *)
(* group, when the leader calls it for all (the chained mutexes of         *)
(* trx_group_commit_leader()), for the transactions whose write did not    *)
(* fail.                                                                   *)
OrderedAsLogged ==
    LET Written(u) == u \notin write_failed
    IN optimize => IsPrefix(SelectSeq(ordered, Written), SelectSeq(binlog, Written))

(* Waiter and waitee agree (wait_for_prior_commit2() and                   *)
(* queue_for_group_commit() on a kill): a transaction that was given up,   *)
(* to be rolled back or run again, is not in the queue, not in a group     *)
(* being committed and not in the binlog, unless it was hit by a failing   *)
(* write or by a KILL at the wait after it (log.cc:8279), or the one       *)
(* before it was, which is passed on to it in that wait.                   *)
GivenUp(t) ==
    \/ pc[t] \in {"failed", "unregister", "register", "exec"}
    \/ ret[t] \in {"retry", "start"} /\ pc[t] \in {"wait", "wait_killed", "wait_ignoring_kill"}
    \/ worker_error[t]
InCommit(t) ==
    t \in Range(group_commit_queue) \cup Range(work) \cup Range(binlog)
NotCommittedBehindItsBack ==
    \A t \in Trx : GivenUp(t) /\ InCommit(t) => t \in Hit

(* Nobody waits for a wakeup that cannot come: whoever has a waitee is on  *)
(* the waitee's list, or on the list someone is just waking up, or is in   *)
(* the queue or in a group whose leader will wake it up.                   *)
NoForgottenWaiter ==
    \A t \in Trx : waitee[t] # NONE =>
        \/ t \in Range(subsequent_commits_list[waitee[t]])
        \/ \E u \in Trx : At(u, "waking") /\ t \in Range(wk[u].list)
        \/ /\ queued_by_other[t]
           /\ \/ t \in Range(group_commit_queue) \cup Range(work)
              \/ \E u \in Trx : t \in Range(GroupFrom(cur[u]))
              \/ \E u \in Trx : next[u] = t /\ ~optimize

(* Every event group ends: no waiter, follower or leader waits forever.    *)
EveryoneEnds == <>(\A t \in Trx : At(t, "end"))

=============================================================================
