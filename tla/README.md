# MariaDB's concurrency core in TLA+

This directory holds TLA+ models of the parts of the MariaDB server (10.9) on
which its concurrency and durability rest: InnoDB's latches, read views and
redo log, the binary log's group commit and two-phase commit, ordered commit in
parallel replication, and metadata locks.  With them come TLC configurations
that check them on small instances, and proofs checked by TLAPS.  All source paths are
relative to the repository's root; `innobase/` stands for
`src/storage/innobase/`.

## 1. Inventory

The repository is a complete database server: 32,000 files, about 1.3 million
lines of C++ of its own and as much C, most of it vendored.  Three quarters of
the text are test results.  Its parts, with the state they keep and how they
interact:

| Part | State | Operations | Interacts with |
|---|---|---|---|
| `srw_mutex` (`innobase/include/srw_lock.h`, `sync/srw_lock.cc`) | one 32-bit word: HOLDER flag + number of holders and waiters | `wr_lock_try`, `wr_lock`, `wait_and_lock`, `wr_unlock` | the kernel's futex |
| `ssux_lock` (same files) | a `srw_mutex` `writer` + the word `readers` | S, U and X lock, try, unlock, U-X upgrade, X-U downgrade | `srw_mutex` |
| `sux_lock` (`include/sux_lock.h`) | `ssux_lock` + owner + recursion counts | recursive U/X latches, transfer to an I/O thread | buffer pool blocks, index latches, `mtr_t` memo |
| `trx_sys` (`include/trx0sys.h`, `trx/trx0trx.cc`) | next id, hash version, lock-free hash of read-write transactions | register, serialise, deregister, snapshot | every transaction, purge |
| read views (`include/read0types.h`, `read/read0read.cc`) | limits, sorted array of active ids, open flag | open, reuse, close, visibility, append | `trx_sys`, purge |
| purge (`include/trx0purge.h`, `trx/trx0purge.cc`) | purge view, history | clone the oldest view, remove history | read views, undo logs |
| `group_commit_lock` (`log/log0sync.cc`) | value, pending value, lock flag, waiters, callbacks | acquire, set_pending, release | redo log |
| redo log (`log/log0log.cc`) | lsn, write_lsn, flushed_to_disk_lsn, buffers, file | write up to an lsn, flush, shrink | every commit, mini-transactions |
| `lock_sys` (`lock/lock0lock.cc`) | record and table lock queues | lock, wait, deadlock check, release | transactions |
| mini-transactions, buffer pool, doublewrite | pages, flush lists | latch, modify, flush | latches, redo log |
| recovery (`log/log0recv.cc`) | parsed log records | scan, apply | pages, log |
| flush notifications (`handler/ha_innodb.cc`) | list of requests, each with an lsn and a binlog entry | request, notify | redo log, binary log |
| binary log and 2PC (`sql/log.cc`, `sql/handler.cc`) | group commit queue, files and index, a count of pending transactions per file | queue, lead, write, sync, order, rotate, checkpoint, unlog, purge, recover | engines, replication |
| ordered commit (`sql/sql_class.cc`: `wait_for_commit`; `sql/rpl_parallel.cc`) | waitee, list of waiters, wakeup flag per transaction | register, wait, wake, unregister, retry, finish | group commit queue |
| MDL (`sql/mdl.cc`, `sql/mdl.h`) | granted and waiting lists per object, wait slot and tickets per session | acquire, upgrade, downgrade, release, deadlock search | SQL layer |
| `tpool`, thread pool | queues, standby threads | submit, wait, timers | InnoDB background work |
| `mysys/lf_*`, `thr_lock`, `waiting_threads` | lock-free lists, pins, lock queues | insert, delete, iterate, wait | all of the above |
| replication, Galera, SQL layer, other engines, clients | — | — | — |

What is hard in them is concurrency without the safety net of a mutex:

* **Locks made of one word.**  `srw_mutex` and `ssux_lock` combine a flag and a
  count in one word and let threads sleep in the kernel on its exact value.
  What can go wrong is a lost wake-up, a double grant, a starved writer, a count
  that drifts.
* **Recursion without a lock.**  `sux_lock` decides whether a request is a
  recursion by an unlocked comparison with the owner field, and one multiplied
  counter must follow upgrades and downgrades.
* **Snapshots without a latch.**  A read view is built by iterating a lock-free
  hash while transactions come and go; the gap between taking an id and being
  in the hash is closed by a version counter and a spin loop.
* **Purge behind the readers.**  History must be removed soon but never while
  an open view, or one just being opened, needs it.
* **Group commit.**  One thread writes and flushes for all; who leads next,
  callbacks that nobody waits for, and the order of "written", "durable" and
  "reported" are decided in a few steps under different mutexes.
* **Two logs, one commit.**  InnoDB and the binary log each have a log of their
  own; after a crash at any step they must agree, which rests on what is synced
  when, on the checkpoint that says where recovery starts, and on old files not
  being purged too early.
* **Commit in a given order.**  Workers of a parallel replica commit in the
  order of the source; a transaction is queued, woken, killed or retried by
  several threads at once.
* **Waiting for each other.**  Sessions wait for metadata locks while they hold
  others; a grant, a timeout, a kill and a deadlock victim race for one slot,
  and cycles are searched while the graph changes.

The hazards are listed in `PROJECT.json`, each at its line and with the
properties that would catch it.

## 2. Plan

The order follows importance and dependence; items marked (done) are in this
directory.

1. `SrwMutex`, its proofs; `SsuxLock` on top of it; `SuxModes`, the abstract
   lock, and the refinement; `SuxLock` on top of the abstract lock. (done)
2. `ReadView`, `TrxSys`, `Mvcc`: snapshots, views, purge; `ReadViewAppend`, the
   merge of two views. (done)
3. `GroupCommitLock`, `RedoLog`. (done)
4. `OrderedCommit`: `wait_for_commit`, the group commit queue and its leader,
   the parallel replication worker. (done)
5. `BinlogXa`: two-phase commit, rotation, checkpoints, InnoDB's flush
   notifications, purge of files, crash and recovery. (done)
6. `MdlStrategy`, `Mdl`: metadata locks and their deadlock detector. (done)
7. `ImplicitLock`: `rw_trx_hash_t` with its reference counts,
   `lock_rec_convert_impl_to_expl()` and the wait in `commit_in_memory()`: a
   transaction object is not reused while it is referenced, no explicit lock
   outlives its commit, two transactions never both own a record, and the wait
   for references ends.
8. Page latching and the write-ahead rule: a page is written after the log up
   to its lsn, the doublewrite buffer and a crash in between.
9. `lock_sys`: record lock queues, waiting, grant order, deadlock check.

Theorems (section 6): done are `SrwMutex`, `SsuxLock` with the safety part of the
refinement of `SuxModes`, `SuxLock`, `Mvcc`, `ReadViewAppend`, `RedoLog` and
`BinlogXa`, each with all the safety properties its runs check, and of `Mdl` the
properties `TicketsAgree`, `NoConflictingGrants` and `NoMissedGrant`.  Next:
`OrderedCommit`, and of `Mdl` the property `NoUndetectedDeadlock`.

## 3. Modules

| Module | Models | Uses |
|---|---|---|
| `SrwMutex` | `srw_mutex_impl` | — |
| `SrwMutexProofs` | proofs about it | `SrwMutex`, TLAPS |
| `SsuxLock` | `ssux_lock_impl` | extends `SrwMutex`; implements `SuxModes` |
| `SsuxLockProofs` | proofs about it | `SsuxLock`, `SrwMutexProofs` |
| `SuxModes` | what an S/U/X lock promises | — |
| `SuxLock` | `sux_lock` with the memo of `mtr_t` | instance of `SuxModes` |
| `SuxLockProofs` | proofs about it | `SuxLock` |
| `ReadView` | `ReadViewBase`: visibility, `append()` on sets | — |
| `ReadViewAppend` | `append()` as the array merge it is | extends `ReadView` |
| `ReadViewAppendProofs` | proofs about it | `ReadViewAppend` |
| `TrxSys` | ids, numbers, hash version, `snapshot_ids()` | extends `ReadView` |
| `Mvcc` | transactions, `ReadView::open/close`, purge | extends `TrxSys` |
| `MvccProofs` | proofs about it | `Mvcc` |
| `GroupCommitLock` | `group_commit_lock` | — |
| `RedoLog` | `log_write_up_to()`, `commit_shrink()` | extends `GroupCommitLock` |
| `RedoLogProofs` | proofs about both | `RedoLog` |
| `OrderedCommit` | `wait_for_commit`, group commit queue and leader, replication worker | — |
| `BinlogXa` | two-phase commit, rotation, checkpoints, flush notifications, recovery | — |
| `BinlogXaProofs` | proofs about it | `BinlogXa` |
| `MdlStrategy` | lock types and compatibility of `sql/mdl.cc` | — |
| `Mdl` | `MDL_lock`, `MDL_context`, `MDL_wait`, deadlock detector | extends `MdlStrategy` |
| `MdlProofs` | proofs about it | `Mdl` |
| `MC*` | instances for TLC | the module they are named after |

Actions carry the names of the functions they model; a function that is not
atomic is split at its atomic operations, system calls and mutex boundaries,
and the part's name says which part it is.  `PROJECT.json` maps each definition
to its lines.  Definitions whose name ends in an underscore and a word
(`FetchOr_NotAtomic`) are mutants: wrong variants that show that a property
would notice.

### srw_mutex: `SrwMutex`

`lock` is the word.  `mpc[t]` is where thread `t` is; `lk[t]` and `spin[t]` are
its local variables in `wait_and_lock()`.  One action per atomic operation:
the CAS of `wr_lock_try()`, `fetch_add`, each load, each `fetch_or` (or `LOCK
BTS`, chosen by `HasBts`, whose failure does not fetch the word), the futex wait
with the kernel's comparison, a spurious return, `fetch_sub`, and the futex
wake of any one sleeper.  The flag test `lk & HOLDER` is `lk >= HOLDER`, which is
right while the count stays below the flag; the type invariant says it does.
The loop counter has `SpinWidth` values so that its wrap-around is modelled.

### ssux_lock: `SsuxLock`, `SuxModes`

`SsuxLock` extends `SrwMutex`, whose actions it calls with the guard that the
caller is at such a call.  `readers` is the second word and `pc[t]` the place in
the lock's own code, so a thread has two program counters: inside `writer` and
outside it.  `SuxModes` has one variable, the mode of each thread, with `"W"`
for an X request that already excludes new readers; the refinement maps every
intermediate place to the mode that is promised there, and includes the
liveness of the X waiter.  A thread holds or requests one mode at a time, as the
lock demands.

### sux_lock: `SuxLock`

Uses an instance of `SuxModes` as its underlying lock, so that what is shown
here rests on what is shown there.  `memo[t]` is what the mini-transaction of
`t` believes it holds; the upgrade of `mtr_t::page_lock_upgrade()` rewrites it.
Its entries are released in any order, as `memo_release()`, `release_page()` and
`release_block_at_savepoint()` can do; the history variable `early` names the
threads that gave up their last X hold while a U hold remained.  The underlying
lock then stays X: a later upgrade waits for ever, and the last release is that
of a U lock (`ReleaseMatchesMode`).  What becomes of a latch after that is not
modelled.
`FOR_IO` is an owner of its own.  `x_u_downgrade()` is called under its assertion
that there is no other U hold (`include/sux_lock.h:205`).  Not modelled: S on top of the thread's own U
latch, and the debug-only set of readers.

### Transactions and views: `ReadView`, `TrxSys`, `Mvcc`

`TrxSys` separates what `register_rw()` and `assign_new_trx_no()` do into their
accesses: take a number from `m_max_trx_id`, make it visible (insert into the
hash, store `no`), increment `m_rw_trx_hash_version`.  A snapshot loads the
version, compares it with `m_max_trx_id`, and then passes the elements of the
hash one at a time, in any order, perhaps more than once, while elements come
and go.  The atomic operations are treated as sequentially consistent: they are
acquire/release pairs on `m_rw_trx_hash_version`, and `m_max_trx_id` is a
sequentially consistent counter.  The lock-free hash is external: a set whose
iteration passes every element that was there throughout.

`Mvcc` adds the life of transactions, views and purge.  A view's mutex is held
during its snapshot.  A reused view has two steps (the comparison and the
store of `m_open`) and takes no mutex.  Purge rebuilds its view: a snapshot of
its own, then one `append_to()` per reader.  A transaction is used for one
life; an id is never used again.  `before`, `late`, `late_building` and
`late_purge` are history variables that only properties read: a view is *late* if
`open()` stored `m_open` after the comparison that allows the reuse had become
false, and the other two are the late views that went into purge's views.

### The merge: `ReadViewAppend`

The goto loop of `append()` step by step, on sorted sequences that may contain
duplicates, against `append` of module `ReadView` on sets.

### Redo log: `GroupCommitLock`, `RedoLog`

`GroupCommitLock` has a state per lock object and a program counter per thread.
A section under `m_mtx` is one action; the test of the value before it, the
wake-ups and the callbacks after it are separate, in the code's order.
`RedoLog` is the caller: it uses two such locks, copies the log to the file
(`file`), makes it durable (`stable`), and repeats with a dummy callback when
`release()` says that callbacks are left.  `stable` is what a crash leaves, so
"durable before reported" is an invariant on it.  Mini-transactions only
advance `lsn`.  The log latch is held across steps by `commit_shrink()` alone.
The loops of `release()` that divide a list are the operator `Only`, a recursion
along the list, which the provers can unfold (they know nothing of
`SelectSeq`).
Not modelled: the early return during recovery, PMEM, resizing, failing writes
(the server aborts).

### Ordered commit: `OrderedCommit`

A transaction is one event group, run by a worker thread of its own, and must
commit after the one before it.  The state is that of the code: `waitee`,
`subsequent_commits_list` and the other members of `wait_for_commit`, the
entry's flags in the group commit queue, the queue itself, and the four mutexes
of the leader.  `LOCK_wait_commit` is a variable where the code holds it across
steps: `wakeup_subsequent_commits2()` wakes one waiter after another, and a
woken one runs on while the walk continues.  The unlocked tests (`waitee` in
`wait_for_prior_commit()`, the list in `wakeup_subsequent_commits()`) are steps
of their own.  What a transaction does to the database is a choice between
success, a deadlock error and a hard error; a deadlock kill of a later
transaction by an earlier one may come while it executes or queues, a user's
KILL at the places of `KillAt` and in every call of `wait_for_prior_commit()`
that `KillWaits` names.  The leader's write may fail for each entry of
`WriteErrors` in two ways: the entry is not in the file, or it is and the sync or
the report to the semi-synchronous master fails (a failing flush is a mixture of
both; `wait_after_sync()` returns no error, `sql/semisync_master.cc:977`).
`write_failed` and `given_up` are history: whose write failed, and whom the wait
after the write gave up because of a KILL or of such a transaction before it.
Both values of `opt_optimize_thread_scheduling` are covered: with 0 each thread
calls `commit_ordered()` itself and signals the next one.

### Two-phase commit: `BinlogXa`

The binlog files are sequences of transaction ids and checkpoint events, of
which a synced prefix survives a crash; InnoDB's redo log is a sequence of
prepare, commit and rollback records with a durable prefix (`RedoLog` shows how
it gets durable).  `xid_count[l]`, the list `head..current`, InnoDB's request
list and the background thread's queue are in memory and lost in a crash.
Rotation is three steps, because purge and crash see the difference between the
new file, its entry in the index and its entry in the list.  `mark_xid_done()`
is a subroutine of committing threads, FLUSH LOGS and the background thread.
`sync_period` is `sync_binlog`: `flush_and_sync()` (`sql/log.cc:5668`), which both
the group commit leader and the writer of a checkpoint event call, syncs always
if it is 1, never if it is 0, which is the default, and now and then otherwise;
a file that is closed by a rotation is synced in any case.
Recovery reads the last checkpoint of the last file, scans from the file it
names, and commits or rolls back what InnoDB left prepared.  The server is then
restarted with a new file.

### Metadata locks: `MdlStrategy`, `Mdl`

`MdlStrategy` has the three pairs of compatibility arrays.  In `Mdl` what runs
under the write lock of one `MDL_lock` is a step: adding to a list, removing
from it and rescheduling the waiters.  The list is modelled with its counters
and its bitmap, because `can_grant_lock()` looks at the bitmap.  The wait slot
`m_wait` is set by others only while it is empty.  The deadlock detector visits
one session per step and holds read locks on the whole path, which block
writers of those objects and contexts; everything else goes on meanwhile.  The
requests a session may make, and how its waits may fail, are constants.  Tickets
of both durations are in one list per session, which keeps their relative order
for the rollback of `acquire_locks()`.

## 4. Runs

Passing runs:

| Run | Instance | Shows |
|---|---|---|
| `mutex_spin` | 3 threads, 2 spin rounds, BTS | exclusion, no lost wake-up, service of sleepers |
| `ssux_lock` | 3 threads, one spin round, `fetch_or` | exclusion, wake-ups, refinement of `SuxModes`, which includes that no X waiter starves |
| `sux_lock` | 3 threads, 4 holds each in any order of release, counter unit 8 | owner, mode and memo agree; the last release fits the mode unless X was given up before U |
| `mvcc` | 2 writers, 1 autocommit reader that reuses its view, purge | no dirty read, all committed seen; purge behind views, its check sound and its view advancing, but for late views |
| `mvcc_own_and_reuse` | a writer that also reads, an autocommit reader, purge, fairness | own changes, a reused view sees what is committed, `open()` completes |
| `read_view_append` | ids up to 4, arrays up to 3, all pairs | the merge computes the oldest view |
| `redo_log` | 3 threads, all kinds of calls with and without callback divided between them, lsn up to 2, fairness | nothing claimed early, every call and callback is served |
| `ordered_commit` | 3 transactions, the second speculative, one retry, one KILL (in any wait) or failing write of a group, both schedulings, fairness | binlog order without gap, order of `commit_ordered()`, nobody committed after giving up (but for those a failing write or a KILL after the write has hit), no forgotten waiter, everyone ends |
| `binlog_xa` | 2 transactions (one that unlogs itself), FLUSH LOGS, 3 files, 1 crash, `sync_binlog` 0 and 1 | with `sync_binlog = 1` engine and binlog agree after recovery, which finds its files; with both, checkpoints are safe, counts and entries present, no lost notification |
| `mdl` | 3 sessions, 2 tables, types SR, SU and X, 5 calls, 2 sessions that may time out, one whose client may leave, search depth 3, fairness | compatibility of grants, no missed grant, lists agree with tickets, no undetected deadlock, every wait ends |

Why the bounds are enough to be interesting: three threads are a holder, a
sleeper and a newcomer, which is what a lost wake-up or a stolen lock takes.
The two builds of the mutex (`LOCK BTS` and `fetch_or`) are divided between
`mutex_spin` and `ssux_lock`; the proofs of section 6 cover both, with and
without a spin loop.  Two writers and a reader give every order of
two registrations, two serialisations and a snapshot, purge included; the ids
run to 5.  Any number of readers is left to the theorems.  Three log calls give a leader, a waiter and a queued callback; an lsn
of 2 lets one be served while the other is not; an array of one callback lets
the second overflow it.  Three transactions are one that is waited for, one
that waits and is waited for, and one behind both; the second is the one that
is retried and killed, and the writes of the first two may fail (nobody is behind
the third).  `MaxFaults` is 1: one kill, or one group whose write fails, and any
number of failing executions.  Three binlog files let a checkpoint pass over a file,
and a crash may come at any step, during recovery's predecessors included.
`sync_binlog` is 0 or 1, which are the two extremes; the theorems are for any
value.  In
`mdl`, session 1 alters table 1 and holds a HANDLER on table 2, session 2 reads
either table and drops the second, session 3 drops both: cycles over two
objects and an upgrade that waits while it holds.  `MAX_SEARCH_DEPTH` is 3, the
number of sessions, so that a chain without a cycle can reach the limit and make
a victim (the code has 32 and any number of sessions).  `max_write_lock_count` is out
of reach there, as by default in the server; `mdl_give_way` below is about what
happens when it is reached.
`COUNTER_MOD` stands for the 2^32 of `uint32_t`; it is above the number of
tickets, as in the program.

Symmetry is used only in runs without liveness.  Deadlock is checked where the
system goes on for ever.  The check is off in `redo_log`, `ordered_commit` and
`mdl`, which end and where a hang is a violation of a liveness property; in
`binlog_xa`, which ends and where `NoNotificationLost` speaks of the states it
ends in; in `read_view_append`, whose algorithm ends; and in `sux_lock`, which
does not go on after a latch was released in the wrong mode.

The modules state their type invariants (`MutexTypeOK`, `SsuxTypeOK`,
`SuxTypeOK`, `MvccTypeOK`, `LogTypeOK`, `OrderedCommitTypeOK`,
`BinlogXaTypeOK`), which the runs do not list: those of the first four modules
are part of the proved invariants, as are the types in `LogInv`,
`BinlogXaTypeOK` is the theorem `BinlogXaTypeCorrect`, and the other one served
while the model was written.

Two runs are refuted by TLC (see `findings` in `PROJECT.json`):

| Run | The sentence | What happens |
|---|---|---|
| `binlog_purge_window` | the checkpoint event is synced because "otherwise a subsequent log purge could delete binlogs that XA recovery thinks are needed" (`sql/log.cc:7692`) | `mark_xid_done()` drops the list entry, which is what purge looks at, before the event is written: a purge in this window and a crash leave recovery without a file it asks for |
| `mdl_give_way` | when strong requests let weak ones pass, "it is not an issue if we fail to wake up any pending waiters for weak locks [...] all of them are either killed, timed out or chosen as a victim" (`sql/mdl.cc:1324`) | session 1 holds SU and waits for X, session 3 waits for SU behind it; when the reader that X waits for releases, X is skipped for the sake of SU, and SU is blocked by what session 1 holds: both sleep though X could be granted, and the wait-for graph has no cycle |

In `binlog_xa` purge is kept out of the window (`PurgeInWindow = FALSE`), so
that everything else about purge is checked.

### Observations

These were seen in the models and are not properties of a run.

* A mini-transaction that takes X and then U on the same latch and releases X
  first (`mtr/mtr0mtr.cc:809-848` releases the newest entry of a given kind)
  makes the last release `u_unlock()` on an X lock, which leaves `readers` at
  `WRITER - 1` (`include/sux_lock.h:246-266`).  `ReleaseMatchesMode` says that
  this is the only history that ends so.
* `innodb_sync_spin_loops = 0` is not zero rounds: `if (!--spin)`
  (`sync/srw_lock.cc:316`) wraps the unsigned counter.
* A reused read view is opened without its mutex (`read/read0read.cc:224`).  A
  transaction may start, commit and be purged between the comparison and
  `m_open.store(true)`; the view then does not see what has been purged, against
  FACT C (`read/read0read.cc:130`), and makes the next purge view older than
  the one before.  The comment on `open()` knows the race and calls it acceptable.
  The properties of `mvcc` except just these late views, and what goes into a
  purge view from them; without the exception TLC refutes each of them.
* A view need not be a point in time: `snapshot_ids()` iterates without a latch
  and may see a later commit and miss an earlier one, unlike
  `include/read0types.h:116` says.
* `group_commit_lock::acquire()` may return `ACQUIRED` to a designated leader
  whose request is already done, unlike `log/log0sync.h:46` says.
* `finish_event_group()` assumes that when a transaction is done all prior ones
  are (`rpl_parallel.cc:205-208`); after a KILL it is not so.
* With `opt_optimize_thread_scheduling = 0` two groups may call
  `commit_ordered()` in another order than they were logged: a leader gives
  `LOCK_commit_ordered` up while it waits for `COND_queue_busy`
  (`sql/log.cc:8599`), so the chain of mutexes does not keep the order the
  comment at 8580 speaks of.  `OrderedAsLogged` is therefore stated for the
  default scheduling.
* `commit_started` of a waitee stays set after its binlog write has failed, and
  a transaction may then queue ahead (`sql/log.cc:7879-7886`); so may one that
  was in the same group.  The binlog then has a gap, and the transaction behind
  it is told of the error only after it was logged.
* A KILL that reaches the last `wait_for_prior_commit()` of
  `write_transaction_to_binlog_events()` (`sql/log.cc:8279`) gives up a
  transaction that is already in the binlog; if it is optimistic it is run and
  logged a second time.
* These two cases are in `ordered_commit`, with a KILL in every wait and failing
  writes, and `BinlogInOrder` and `NotCommittedBehindItsBack` state exactly them
  as the exception (`Hit`): without it TLC refutes both properties, with a KILL
  alone and with a failing write alone.
* When the client of a session that waits for a metadata lock is gone,
  `acquire_lock()` sets `TIMEOUT` in a local variable and leaves the wait slot
  open (`sql/mdl.cc:2386-2394`), unlike `timed_wait()` (1204-1214): a grant may
  come in before the ticket is removed, and the ticket is then taken from the
  list of granted ones but subtracted from the counters of the waiting one.  The
  history variable `overtaken` records it.  Without their exceptions TLC refutes
  `TicketsAgree`, and `EveryWaitEnds` with one table, two sessions that drop it
  and one that reads it three times: the counter of X is one too low, its bit in
  the bitmap is not cleared when the next X leaves the queue, and a reader waits
  for nobody.  An `MDL_lock` keeps its counters when it goes to another object
  (`lf_hash_initializer()`, 658-668), so the exception is not limited to one.
  The other properties of `mdl` hold across such a step.
* What `mdl_give_way` shows needs `max_write_lock_count` strong grants in a row
  with a weak request pending, and the default is out of reach.  With the instance
  of that run `EveryWaitEnds` fails too: only a timeout ends the two waits.  There
  is a second way into it: SNW is skipped while an SR is pending that it does not
  conflict with.  `NoMissedGrant` is stated for a limit that is not reached.
* If two engines answer a checkpoint request later, `commit_checkpoint_notify()`
  counts a second answer on an entry that the background thread may have taken
  from the queue already (`sql/log.cc:10580-10704`).  InnoDB answers once, so
  the model has one engine.
* The comment quoted for `binlog_purge_window` says that the checkpoint event
  must be synced; with `sync_binlog = 0`, the default (`sql/sys_vars.cc:5671`),
  `flush_and_sync()` does not sync it, nor the transactions.  `CrashConsistent`
  and `RecoveryFindsFiles` are therefore promises for `sync_binlog = 1`; the
  other properties of `binlog_xa` hold for both.
* The comment table of pending backup locks (`sql/mdl.cc:1621-1640`) lets START
  pass a pending BLOCK_DDL; the array does not.  `MdlStrategy` has the array.

## 5. Fairness

In the latches and views only threads inside a call are assumed to run on, and
holders of a lock to release it (weak fairness of the steps of a call).  No thread is obliged to
begin a call, to upgrade, or to commit; the kernel is not obliged to wake a
thread spuriously or to choose a particular sleeper.  Service of *each* waiter
is not claimed for `srw_mutex`, which is not fair: `SleepersServed` says that
somebody gets the mutex.  `OpenCompletes` holds because finitely many
transactions take ids; the code gives no bound under an endless stream.

In `redo_log`, `ordered_commit` and `mdl` it is enough that some thread goes on while one
can: a call takes finitely many steps, so no thread can keep the others from
running for ever, and each of them gets on in the end.  Kills, new requests and
timeouts are not obliged to come, so `EveryWaitEnds` does not rest on timeouts;
a session that holds metadata locks does end its transaction.  `Ready(c)` writes
out when `Run(c)` can take a step, so that the fairness is cheap to check.  `binlog_xa` needs no fairness: that nothing is lost is stated of the
states in which all is done.

## 6. Proofs

`SrwMutexProofs` proves, for every finite set of threads smaller than `HOLDER`,
any spin configuration and both builds:

* `MutexInvariant`: `MutexSpec => []MutexInv`,
* `MutexMutualExclusion`: `MutexSpec => []MutualExclusion`,
* `MutexNoLostWakeup`: `MutexSpec => []NoLostWakeup`.

The inductive invariant `MutexInv` is the conjunction of the type invariant,
`LockWord`, `MutualExclusion`, `NoLostWakeup` and `WaiterSeesItself`.  No part
is inductive alone.  Exclusion holds because an acquisition finds the flag
clear, and the flag is clear only if nobody holds the mutex: that is
`LockWord`.  `LockWord` in turn needs exclusion, or a release would take the
flag from a second holder.  The type invariant needs `LockWord` to bound the
word by the number of threads.  `NoLostWakeup` needs `LockWord` because
`wr_unlock()` decides by the count whether to wake, and the futex comparison
because a thread may sleep only on a word that shows a holder.  The lemmas
follow the actions; `CountedStep` turns what a step does to the set of
registered threads into what it does to its cardinality.

The assumptions on constants are in `MutexAssumption`: finitely many threads,
fewer than the flag's value, and a spin counter within its width.

`SsuxLockProofs` proves, for the same threads and builds:

* `SsuxInvariant`: `SsuxSpec => []SsuxInv`,
* `SsuxExclusion`: `SsuxSpec => []Exclusion`,
* `SsuxXWaiterNotForgotten`: `SsuxSpec => []XWaiterNotForgotten`,
* `SsuxImplementsModes`: `SsuxSpec => Abstract!ModesSafety`, the refinement of
  `SuxModes` without its fairness.

The argument: every step of the lock is a step of the embedded mutex or leaves
it alone, so `MutexInv` is kept, by the lemma that already served the mutex.
`MutexUse` says at which places of the lock's code a thread has the mutex; as it
excludes, at most one thread is at such a place, and only that one can have set
`WRITER`.  Hence the `readers` word is exactly the number of S and U holders
plus `WRITER` if a request is standing (`ReadersWord`): a decrement cannot take
the flag away and an increment cannot be missed.  X is granted only by an
operation that finds the word to be `WRITER` alone, so an X holder is alone
(`XAlone`).  `WaitLocals` says that a waiter never sleeps on `WRITER` alone, so it waits for
a reader; the last one finds `WRITER` alone in the word and goes on to
wake, which is `XWaiterNotForgotten`.  The refinement step is then one case per
action: the guard of the abstract step follows from the word.

Beyond `MutexAssumption`, `WriterAssumption` says that the reader count fits
under the flag.

`SuxLockProofs` proves, for any set of threads and any number of holds that the
counter can represent:

* `SuxInvariant`: `SuxSpec => []SuxInv`,
* `SuxNoFalseRecursion`, `SuxMemoIsHeld` and `SuxReleaseMatchesMode`: the three
  properties of the run `sux_lock`.

`MemoOk` is the heart: the word `recursive` is the weight of the owner's memo, a
number in base `RECURSIVE_U` whose digits are its X and U holds (`Digits`), so
the release that makes it zero is that of the last hold, whatever the order.  The
underlying lock is X while the low digit is not zero; when it is zero, the lock is X
if and only if its owner is in `early` (or the call has just upgraded it), which
is what `SuxReleaseMatchesMode` needs.  `CallOk` says what a
thread between two steps of a call has in hand, `IoOk` what a page in I/O has.
An unlocked comparison with the owner field can only succeed for the owner
itself, because nobody else writes the thread's own id there.  The proof needs
the downgrade's assertion: with another U hold the multiplication would mix the digits.

`MvccProofs` proves, for any finite set of transactions, readers and writers:

* `MvccInvariant`: `MvccSafety => []MvccInv`,
* `MvccNoDirtyRead`, `MvccSeesAllCommitted`, `MvccSeesOwnChanges`,
  `MvccPurgedAreCommitted`,
* `PurgeInvariant`: `MvccSafety => []PurgeInv`, and from it
  `MvccPurgeCheckSound`, `MvccNoMissingHistory`, `MvccPurgeBehindViews` and the
  action property `MvccPurgeViewAdvances`.

Each transaction that took an id or a number which the hash does not show yet is
counted in `m_max_trx_id - m_rw_trx_hash_version` (`Counted`).  A snapshot that
finds them equal therefore starts when nobody is in this gap, and whoever enters
it later takes a number above the snapshot's (`NoGap` in `WalkOk`).  An element
below it stays in the hash until it commits, so the walk passes it: at any step
the ids collected are complete for what was passed, and the view that results
is sound (`ViewOk`) and remains so.  `PurgeInv` orders views in time
(`NotOlder`): a view opened later sees all that the purge view sees, also while
either is being built.  Views may be reused: one that is not late has no active
ids, both its limits are `m_max_trx_id` (`EmptyInv`), and it is no older than
any sound view.  A late view is not claimed to be behind anything; because one
can make the purge view older than it was, `PurgeInv` keeps what has been purged
apart, as the view `Gone` that sees just that.

`ReadViewAppendProofs` proves, for views of any length with any ids, duplicates
included:

* `AppendInvariant`: `AppendSpec => []AppendInv`,
* `AppendIsMerge`: `AppendSpec => []MergeIsAppend`,
* `AppendSeesWhatBothSee`: `AppendSpec => []SeesWhatBothSee`.

The invariant is the loop's (`Merging`): the array is sorted, contains its own
ids and those of the other view before `next`, and everything before the cursor
is below the new limit and not above the next id.  When the loop ends, the ids
of the other view that remain are not below the limit, and neither is what
`erase()` removes.

`RedoLogProofs` proves, for any threads, calls, array limit and length of the
log:

* `LogInvariant`: `LogSafety => []LogInv`,
* `LogNothingClaimedEarly`, `LogDoneOnReturn`, `LogDoneOnCallback`: the safety
  properties of the run `redo_log`.

`m_lock` says who is between `acquire()` and `release()` (`LockOk`), so there is
one writer and one flusher, and what they will claim is backed by what they did
(`WriteOk`, `LsnOk`).  A caller without a callback gets past a lock only when the
lock's value has reached its lsn or it did the work itself, and the second pass
that `release()` may ask it for does not take back what the first one got
(`SyncOk`).  A callback is in one place at a time: the arguments of its caller
(`CarryOk`), a vector of pending ones (`PendingOk`), the array of a thread in
`release()` (`CallingOk`), or it has been called (`FiredOk`); it changes place
only at a moment at which the log is far enough.  `LogTypes` bounds nothing: the
lsn is any natural number.

`MdlProofs` proves, for any sessions, objects, requests, upgrades and
downgrades:

* `MdlInvariant`: `MdlSafety /\ []AllFit => [](NoneOvertaken => MdlInv)`,
* `TicketsAlwaysAgree`: `MdlSafety /\ []AllFit => []TicketsAgree`,
* `GrantsNeverConflict`: the first for `NoConflictingGrants`, if `Clonable`,
* `TableGrantsNeverConflict`: without that condition, for tables with any
  object lock types and for schemas,
* `NoGrantMissed`:
  `MdlSafety /\ []AllFit /\ []NeverGivesWay => [](NoneOvertaken => NoMissedGrant)`, if `YieldsToConflicts` and `UpgradesStrengthen`,
* `NoTableGrantMissed`: the same for tables and for schemas, where the first
  condition holds and the second follows if upgrades go to stronger types,
* `NoWeakGrantMissed`: without `NeverGivesWay`, for the requests that are not
  strong (`NoWeakMissedGrant`).

Tickets are counted (`ListOk`).  A session has one ticket in the waiting list of
an object while it waits for it and its slot does not say `GRANTED`; the granted
list has as many tickets of it as it holds, and one more between the grant and
the moment when the waiter takes it.  `reschedule_waiters()` moves a ticket and
sets the slot in one step, so one term of the equation becomes another.
Counters and bitmaps follow their list because every ticket that is removed is
in the list it is removed from: an upgrade that merges still holds its old
ticket (`CallOk`), and a waiter withdraws while its slot does not say `GRANTED`,
which `NoneOvertaken` says of all withdrawals so far.  A grant meets a granted list without conflicts
and either passes `can_grant_lock()` or goes to a session that holds a stronger
lock on the object.

For `NoMissedGrant` a request is called stuck if a pending one goes first or a
granted one of another session is in its way, which is what `can_grant_lock()`
finds in bitmaps and list (`RefusedIsStuck`, `StuckIsRefused`).  The invariant is
that every waiting ticket with an open slot is stuck (`Unmissed`).  A step that
takes a ticket out of a list ends with `reschedule_waiters()`, and what its pass
does not grant is stuck when its turn comes.  It is still stuck at the end of the
pass, although tickets leave the queue: one that went first and was granted
later is in the way now, because a type yields only to types it conflicts with
(`StaysStuck`, from `YieldsToConflicts`).  `Merge` is the exception: it takes the
old ticket of an upgrade out and reschedules nobody.  So the new type has to be
in the way of whatever the old one was (`UpgradesStrengthen`), and a context that
merges has to be in an upgrade that the SQL layer does (`UpgradesKnown`).
`NeverGivesWay` says that `m_hog_lock_count` stays below `max_write_lock_count`.
The pass may leave a strong request that could be granted once it does not, which
is what `mdl_give_way` shows; `NoWeakGrantMissed` says that only strong requests
suffer.

Three hypotheses say where the statements end; the first two are those of all
theorems about `Mdl`, the third of `GrantsNeverConflict`.  `NoneOvertaken`
(`overtaken = {}`): no session whose client is gone has withdrawn a ticket that was
granted meanwhile; after such a step the counters are wrong, as section 4 says.
It is a condition on the behaviour, not on `Faults`: the theorems cover lost
connections up to the first withdrawal that a grant overtakes.  `AllFit`: an object has fewer than `COUNTER_MOD` tickets, 2^32 in
the code, at which a counter would wrap to zero and its type leave the bitmap.
`Clonable`: a lock weaker than a held one conflicts with nothing that the held
one does not conflict with, because such a request is granted without looking at
the queue (`try_acquire_lock_impl()`).  `TablesClonable` proves it from the
symmetry of the compatibility arrays of tables and schemas; the array of BACKUP
is not symmetric, and the theorem says nothing of it.

`BinlogXaProofs` proves, for any finite set of transactions, any of which may
have to unlog themselves, any number of binlog files and crashes, and any value
of `sync_binlog` (`sync_period`):

* `XaInvariant`: `BinlogXaSpec => []FullInv`,
* `BinlogXaTypeCorrect`: `BinlogXaSpec => []BinlogXaTypeOK`,
* `CheckpointIsSafeAlways`, `EntriesPresentAlways`, `NoNotificationLostAlways`,
* `CrashConsistentAlways`, which is about `sync_binlog = 1`,
* `RecoveryFindsFilesAlways`, also for `sync_binlog = 1`, if no file is purged
  while `mark_xid_done()` is under way (`~PurgeInWindow`); otherwise it is false,
  as section 4 says.

The invariant has three parts.  The first is about the disks (`DisksOk`): what is
in the binlog is durably prepared, and, if `sync_binlog = 1`, a commit record
exists only for what is in the binlog.  A crash keeps that because then the
records of a file that are not synced belong to a group that waits for its sync
(`SyncedOk`), whose members are not committed yet (`MembersOk`).  With other
values a crash may take transactions and checkpoint events from the end of the
last file; an older checkpoint is still safe, and what a thread knows of its
transaction (`TrxsOk`) is lost with the thread.
Recovery commits what it finds from the last checkpoint on and rolls back the
rest, which is right because the files before it are done (`CheckpointsOk`:
each of their transactions has a commit record that is flushed).

The second part says what `xid_count` counts (`CountsOk`): the transactions of
the file that have still to call `unlog()`, one for the thread that rotated the
file until its own `mark_xid_done()`, and one for the notification on its way.
`PlacesOk` says where that is: a thread in `innodb_log_flush_request()`,
InnoDB's list, a detached list in the hands of either notifier, the queue, the
list that the background thread has taken, or its call of `mark_xid_done()`; it
is in one of them at a time, so no entry is pushed twice on the queue, whose
links would otherwise form a loop.  The sequences behind the links are
quantified in `TokensOk` and are not variables of the model.

The third part says why a file may be passed: one that has been left behind is
done, or is still to be requested, or its request is in the list (`LeftOk`), with
an LSN by which all its transactions had committed (`RequestOk`).  A request
leaves the list only when that LSN is flushed.  So a file below the current one
whose count is zero is done (`ZeroDone`), and the head of the list, which is the
next checkpoint, passes only such files.  `NoNotificationLost` follows: when
everybody is done and nothing is left to flush, InnoDB's list is empty
(`FlushOk`), all places are empty, and the count of the head would be zero.

The assumptions are in `BinlogXaAssumption`: finitely many transactions, all
threads different, and at least one file.  TLC checked `XaInv` on the instance
of the run `binlog_xa` before it was proved.

What a function with a recursion computes is proved where it is needed: `Only`
(`OnlyFacts`) in the log, and the loop of `reschedule_waiters()`, whose body is
`GrantTicket`.  A least counterexample takes the place of an induction scheme,
because the library's schemes take an operator as a parameter.

Model-checked only:

* liveness under fairness and everything with ENABLED (outside TLAPS's reach):
  `SleepersServed`, the liveness part of the refinement of `SuxModes`,
  `OpenCompletes`, `CallsServed`, and the liveness of `OrderedCommit` and `Mdl`;
* the properties of `OrderedCommit`.  They are within the provers' reach but for
  the operators in their way: `FoldLeft` and `SelectSeq` take operators as
  arguments and have to be rewritten as `Only` was;
* of `Mdl`, `NoUndetectedDeadlock`, which is about the path that the detector's
  search takes through a graph that changes under it, and
  `SkippedForClosedSlots`, which `mdl_give_way` refutes.

## 7. Not modelled

See `components` in `PROJECT.json` for the parts left out.  Inside the modelled
parts these are left out:

* Weak memory orderings beyond what the comments in the code rely on, PSI
  instrumentation, lock elision and the non-futex fallbacks of the locks.
* Binary log: caches and the contents of events, RESET MASTER, failures while a
  file is rotated or written (but for `WriteErrors` of `OrderedCommit`), user XA
  transactions, truncation of the binlog by a semi-synchronous replica, the
  `tc_log_mmap` coordinator.
* Parallel replication: the event queue, the assignment of groups to threads,
  batches of `group_commit_orderer`, GTID state, STOP SLAVE and FTWRL.
* Metadata locks: the lock-free map that finds the `MDL_lock` of a key,
  `notify_conflicting_locks()`, other waitables in the wait-for graph (user
  locks, table flushes), STATEMENT duration, wsrep.

The rest of the server (parser, optimizer, other engines, clients, vendored
code) is sequential computation on data, pure I/O or third-party code, where a
small state machine says little; `lock_sys`, the buffer pool and InnoDB's
recovery are within reach and next on the plan.
