------------------------------ MODULE BinlogXa ------------------------------
(***************************************************************************)
(* Two-phase commit between InnoDB and the binary log, binlog rotation,    *)
(* binlog checkpoints and crash recovery: ha_commit_trans() (handler.cc),  *)
(* the group commit leader, rotate(), mark_xid_done(), the binlog          *)
(* background thread and TC_LOG_BINLOG::recover() (log.cc), and InnoDB's   *)
(* log flush requests (ha_innodb.cc).                                      *)
(*                                                                         *)
(* InnoDB's redo log is the sequence elog of prepare and commit records,   *)
(* of which the first `flushed' are on disk; how it is written is the      *)
(* subject of RedoLog.  How a group is formed is the subject of            *)
(* OrderedCommit: here a leader takes whoever is queued.                   *)
(***************************************************************************)
EXTENDS Integers, Sequences, SequencesExt, FiniteSets, FiniteSetsExt

CONSTANTS
    Trx,            \* transactions, each run by a thread of its own
    FLUSHER,        \* a thread that executes FLUSH LOGS
    BG,             \* the binlog background thread
    NONE,
    NeedUnlog,      \* those that must call unlog() themselves
    MaxLogs,        \* bound on the number of binlog files
    MaxCrashes,     \* bound on the number of crashes
    PurgeInWindow,  \* may a purge run while mark_xid_done() is under way?
    SyncPeriods     \* the values of sync_binlog that are considered

ASSUME BinlogXaAssumption ==
    /\ IsFiniteSet(Trx) /\ NeedUnlog \subseteq Trx
    /\ FLUSHER \notin Trx /\ BG \notin Trx /\ FLUSHER # BG
    /\ NONE \notin Trx \cup {FLUSHER, BG}
    /\ MaxLogs \in Nat \ {0} /\ MaxCrashes \in Nat
    /\ PurgeInWindow \in BOOLEAN /\ SyncPeriods \subseteq Nat

Threads == Trx \cup {FLUSHER}
Actors == Threads \cup {BG}
Logs == 1..MaxLogs

VARIABLES
    \* on disk
    elog, flushed,          \* InnoDB's redo log and how much of it is durable
    blog, synced,           \* the binlog files; records synced of the last one
    first, indexed, inuse,  \* the binlog index is first..indexed; in-use flags
    \* sync_binlog, 0 by default
    sync_period,
    \* MYSQL_BIN_LOG in memory
    current, head, xid_count,   \* binlog_xid_count_list is head..current
    LOCK_log, LOCK_after_binlog_sync,
    bg_queue, next_in_queue,
    \* InnoDB's
    log_requests,
    \* control
    pc, group, rotated, done, req, to_notify, flush_notify, bg, lost, crashes

diskVars == <<elog, flushed, blog, synced, first, indexed, inuse>>
listVars == <<current, head, xid_count>>
lockVars == <<LOCK_log, LOCK_after_binlog_sync>>
bgVars == <<bg_queue, next_in_queue>>
ctlVars == <<pc, group, rotated, done, req, to_notify, flush_notify, bg, lost, crashes>>
vars == <<diskVars, sync_period, listVars, lockVars, bgVars, log_requests, ctlVars>>

Xid(t) == [type |-> "xid", arg |-> t]
Checkpoint(l) == [type |-> "checkpoint", arg |-> l]
EngineRecord(k, t) == [type |-> k, arg |-> t]

InEngine(k, t) == EngineRecord(k, t) \in Range(elog)
\* position of a record in InnoDB's log: its LSN
Lsn(k, t) == CHOOSE i \in DOMAIN elog : elog[i] = EngineRecord(k, t)
InBinlog(t) == \E l \in Logs : Xid(t) \in Range(blog[l])

At(a, label) == pc[a] = label
Running == ~At(BG, "crashed")
Goto(a, label) == pc' = [pc EXCEPT ![a] = label]

(* What the server has in memory when it has just opened a binlog file.    *)
ForLogs(n) == [l \in Logs |-> n]
NotDone == [a \in Actors |-> [log |-> 0, to |-> "none"]]
NoRequest == [a \in Threads |-> [flush_lsn |-> 0, lsn |-> 0]]
NoFlush == [state |-> "idle", lsn |-> 0, list |-> <<>>]

MemoryInit ==
    /\ current = 1 /\ head = 1 /\ xid_count = ForLogs(0)
    /\ LOCK_log = NONE /\ LOCK_after_binlog_sync = NONE
    /\ bg_queue = 0 /\ next_in_queue = ForLogs(0) /\ log_requests = <<>>
    /\ group = [a \in Threads |-> <<>>] /\ rotated = [a \in Threads |-> 0]
    /\ done = NotDone /\ req = NoRequest /\ to_notify = [a \in Threads |-> <<>>]
    /\ flush_notify = NoFlush /\ bg = 0

\* all of it is lost in a crash
MemoryLost ==
    /\ current' = indexed /\ head' = indexed /\ xid_count' = ForLogs(0)
    /\ LOCK_log' = NONE /\ LOCK_after_binlog_sync' = NONE
    /\ bg_queue' = 0 /\ next_in_queue' = ForLogs(0) /\ log_requests' = <<>>
    /\ group' = [a \in Threads |-> <<>>] /\ rotated' = [a \in Threads |-> 0]
    /\ done' = NotDone /\ req' = NoRequest /\ to_notify' = [a \in Threads |-> <<>>]
    /\ flush_notify' = NoFlush /\ bg' = 0

Init ==
    /\ elog = <<>> /\ flushed = 0
    /\ blog = [l \in Logs |-> IF l = 1 THEN <<Checkpoint(1)>> ELSE <<>>]
    /\ synced = 1 /\ first = 1 /\ indexed = 1 /\ inuse = {1}
    /\ sync_period \in SyncPeriods
    /\ MemoryInit
    /\ pc = [a \in Actors |-> IF a = BG THEN "idle" ELSE "begin"]
    /\ lost = FALSE /\ crashes = 0

-----------------------------------------------------------------------------
(* The transaction: prepare in the engine, and queue for group commit *)

(* trx_prepare(): the prepare record, then wait until it is durable.       *)
Prepare(t) ==
    /\ At(t, "begin")
    /\ elog' = Append(elog, EngineRecord("prepare", t))
    /\ Goto(t, "prepare_flush")
    /\ UNCHANGED <<flushed, blog, synced, first, indexed, inuse, listVars, lockVars, bgVars,
                   log_requests, group, rotated, done, req, to_notify, flush_notify, bg, lost, crashes>>

Prepared(t) ==
    /\ At(t, "prepare_flush") /\ flushed >= Lsn("prepare", t)
    /\ Goto(t, "queued")
    /\ UNCHANGED <<diskVars, listVars, lockVars, bgVars, log_requests, group, rotated, done, req,
                   to_notify, flush_notify, bg, lost, crashes>>

(* trx_group_commit_leader(): the leader gets LOCK_log and takes everyone  *)
(* who is queued; rotate_and_purge() gets LOCK_log with nobody to commit.  *)
Lead(a) ==
    LET members == {t \in Trx : At(t, "queued")} IN
    /\ LOCK_log = NONE
    /\ \/ /\ At(a, "queued")
          /\ group' = [group EXCEPT ![a] = SetToSeq(members)]
          /\ pc' = [u \in Actors |-> IF u = a THEN "write"
                                     ELSE IF u \in members THEN "follow" ELSE pc[u]]
       \/ /\ a = FLUSHER /\ At(a, "begin") /\ current < MaxLogs
          /\ Goto(a, "rotate")
          /\ UNCHANGED group
    /\ LOCK_log' = a
    /\ rotated' = [rotated EXCEPT ![a] = 0]
    /\ UNCHANGED <<diskVars, listVars, LOCK_after_binlog_sync, bgVars,
                   log_requests, done, req, to_notify, flush_notify, bg, lost, crashes>>

WriteGroup(a) ==
    /\ At(a, "write")
    /\ blog' = [blog EXCEPT ![current] = @ \o [i \in DOMAIN group[a] |-> Xid(group[a][i])]]
    /\ Goto(a, "sync")
    /\ UNCHANGED <<elog, flushed, synced, first, indexed, inuse, listVars, lockVars, bgVars,
                   log_requests, group, rotated, done, req, to_notify, flush_notify, bg, lost, crashes>>

\* Mutant of flush_and_sync: the file is flushed and not synced.
flush_and_sync_Flushed(n) == synced' = synced

(* flush_and_sync() of the current file, which has n records then: with    *)
(* sync_binlog = 1 every call syncs, with 0 none does, else one of several.*)
flush_and_sync(n) ==
    /\ synced' \in {synced, n}
    /\ sync_period = 1 => synced' = n
    /\ sync_period = 0 => synced' = synced

(* flush_and_sync(), and mark_xids_active() for those that will unlog().   *)
(* Then the file may be full, and is rotated.                              *)
SyncGroup(a) ==
    /\ At(a, "sync")
    /\ flush_and_sync(Len(blog[current]))
    /\ xid_count' = [xid_count EXCEPT ![current] =
           @ + Cardinality(Range(group[a]) \cap NeedUnlog)]
    /\ \/ Goto(a, "next_stage")
       \/ current < MaxLogs /\ Goto(a, "rotate")
    /\ UNCHANGED <<elog, flushed, blog, first, indexed, inuse, current, head, lockVars,
                   bgVars, log_requests, group, rotated, done, req, to_notify, flush_notify, bg,
                   lost, crashes>>

-----------------------------------------------------------------------------
(* rotate(): under LOCK_log *)

\* Mutant of RotateMark: no count is held until the checkpoint request.
RotateMark_NotHeld(a) == xid_count' = xid_count

\* mark_xids_active(binlog_id, 1): the entry stays until the checkpoint request
RotateMark(a) == xid_count' = [xid_count EXCEPT ![current] = @ + 1]

(* close() syncs the old file, whatever sync_binlog is.  The new one starts *)
(* with a checkpoint: the first file of the list with pending transactions,*)
(* or else itself.  It is synced, not yet indexed.                         *)
RotateBegin(a) ==
    LET pending == {l \in head..current : xid_count'[l] # 0} IN
    /\ At(a, "rotate")
    /\ RotateMark(a)
    /\ rotated' = [rotated EXCEPT ![a] = current]
    /\ blog' = [blog EXCEPT ![current + 1] =
           <<Checkpoint(IF pending = {} THEN current + 1 ELSE Min(pending))>>]
    /\ synced' = Len(blog[current])
    /\ Goto(a, "rotate_index")
    /\ UNCHANGED <<elog, flushed, first, indexed, inuse, current, head, lockVars, bgVars,
                   log_requests, group, done, req, to_notify, flush_notify, bg, lost, crashes>>

(* The index is synced; from here on the new file is the last one.         *)
RotateIndex(a) ==
    /\ At(a, "rotate_index")
    /\ indexed' = current + 1
    /\ inuse' = inuse \cup {current + 1}
    /\ synced' = 1
    /\ Goto(a, "rotate_list")
    /\ UNCHANGED <<elog, flushed, blog, first, listVars, lockVars, bgVars, log_requests, group,
                   rotated, done, req, to_notify, flush_notify, bg, lost, crashes>>

(* The list gets the new entry, and loses initial ones without pending     *)
(* transactions; the old file is no longer in use.                         *)
RotateList(a) ==
    LET pending == {l \in head..current : xid_count[l] # 0} IN
    /\ At(a, "rotate_list")
    /\ current' = current + 1
    /\ head' = IF pending = {} THEN current + 1 ELSE Min(pending)
    /\ inuse' = inuse \ {current}
    /\ Goto(a, "next_stage")
    /\ UNCHANGED <<elog, flushed, blog, synced, first, indexed, xid_count, lockVars, bgVars,
                   log_requests, group, rotated, done, req, to_notify, flush_notify, bg, lost, crashes>>

-----------------------------------------------------------------------------
(* The later stages of group commit, with chained mutexes *)

AfterSync(a) ==
    /\ At(a, "next_stage") /\ LOCK_after_binlog_sync = NONE
    /\ LOCK_after_binlog_sync' = a /\ LOCK_log' = NONE
    /\ Goto(a, "order")
    /\ UNCHANGED <<diskVars, listVars, bgVars, log_requests, group, rotated,
                   done, req, to_notify, flush_notify, bg, lost, crashes>>

AfterOrder(a) == IF rotated[a] # 0 THEN "checkpoint" ELSE "unlog"

(* With LOCK_commit_ordered, innobase_commit_ordered() of every member,    *)
(* which writes commit records but does not flush them; the members go on, *)
(* and the leader requests a checkpoint if it rotated.  Nobody else looks  *)
(* at what LOCK_commit_ordered protects here, so this is one step.         *)
RunCommitOrdered(a) ==
    /\ At(a, "order")
    /\ elog' = elog \o [i \in DOMAIN group[a] |-> EngineRecord("commit", group[a][i])]
    /\ LOCK_after_binlog_sync' = NONE
    /\ pc' = [u \in Actors |-> IF u = a THEN AfterOrder(a)
                               ELSE IF u \in Range(group[a]) THEN "unlog" ELSE pc[u]]
    /\ group' = [group EXCEPT ![a] = <<>>]
    /\ UNCHANGED <<flushed, blog, synced, first, indexed, inuse, listVars, LOCK_log, bgVars,
                   log_requests, rotated, done, req, to_notify, flush_notify, bg, lost, crashes>>

-----------------------------------------------------------------------------
(* mark_xid_done(): a subroutine of several threads *)

CallDone(a, log, label) ==
    /\ done' = [done EXCEPT ![a] = [log |-> log, to |-> label]]
    /\ Goto(a, "done")

DoneReturns(a) == done' = [done EXCEPT ![a] = NotDone[a]] /\ Goto(a, done[a].to)

(* Decrement the count; a checkpoint is reached if it was the first entry  *)
(* of the list, is not the current one and has no more pending.            *)
MarkXidDone(a) ==
    LET log == done[a].log
        reached == log # current /\ xid_count[log] = 1 /\ log = head
    IN
    /\ At(a, "done")
    /\ xid_count' = [xid_count EXCEPT ![log] = @ - 1]
    /\ IF reached THEN Goto(a, "done_lock") /\ UNCHANGED done ELSE DoneReturns(a)
    /\ UNCHANGED <<diskVars, current, head, lockVars, bgVars, log_requests, group, rotated, req,
                   to_notify, flush_notify, bg, lost, crashes>>

(* LOCK_log, then LOCK_xid_list again: drop initial entries with no        *)
(* pending transactions, but not the current one.                          *)
DropEntries(a) ==
    LET kept == {l \in head..current : l = current \/ xid_count[l] > 0} IN
    /\ At(a, "done_lock") /\ LOCK_log = NONE
    /\ LOCK_log' = a
    /\ head' = Min(kept)
    /\ Goto(a, "done_write")
    /\ UNCHANGED <<diskVars, current, xid_count, LOCK_after_binlog_sync, bgVars, log_requests, group, rotated, done, req, to_notify, flush_notify, bg,
                   lost, crashes>>

\* Mutant of CheckpointTarget: names the current file, whatever is pending.
CheckpointTarget_Current == current

\* the first entry that is left in the list
CheckpointTarget == head

(* write_binlog_checkpoint_event_already_locked(): write and perhaps sync. *)
WriteCheckpoint(a) ==
    /\ At(a, "done_write")
    /\ blog' = [blog EXCEPT ![current] = Append(@, Checkpoint(CheckpointTarget))]
    /\ flush_and_sync(Len(blog[current]) + 1)
    /\ LOCK_log' = NONE
    /\ DoneReturns(a)
    /\ UNCHANGED <<elog, flushed, first, indexed, inuse, listVars, LOCK_after_binlog_sync,
                   bgVars, log_requests, group, rotated, req, to_notify,
                   flush_notify, bg, lost, crashes>>

(* unlog() by a transaction of an engine that made its commit durable      *)
(* itself; other transactions rely on the checkpoint.                      *)
LogOf(t) == CHOOSE l \in Logs : Xid(t) \in Range(blog[l])

Unlog(t) ==
    /\ At(t, "unlog")
    /\ \/ t \in NeedUnlog /\ flushed >= Lsn("commit", t) /\ CallDone(t, LogOf(t), "end")
       \/ t \notin NeedUnlog /\ Goto(t, "end") /\ UNCHANGED done
    /\ UNCHANGED <<diskVars, listVars, lockVars, bgVars, log_requests, group, rotated, req, to_notify,
                   flush_notify, bg, lost, crashes>>

-----------------------------------------------------------------------------
(* The binlog background thread *)

(* commit_checkpoint_notify(): push the entry.  InnoDB is the only engine  *)
(* that answers later and answers once per request, so the entry is never  *)
(* found in the queue, and its notify_count stays zero.                    *)
Notify(l) == next_in_queue' = [next_in_queue EXCEPT ![l] = bg_queue] /\ bg_queue' = l

BgGrab ==
    /\ At(BG, "idle") /\ bg = 0 /\ bg_queue # 0
    /\ bg' = bg_queue /\ bg_queue' = 0
    /\ UNCHANGED <<diskVars, listVars, lockVars, next_in_queue, log_requests, pc, group,
                   rotated, done, req, to_notify, flush_notify, lost, crashes>>

BgProcess ==
    /\ At(BG, "idle") /\ bg # 0
    /\ CallDone(BG, bg, "idle")
    /\ bg' = next_in_queue[bg]
    /\ UNCHANGED <<diskVars, listVars, lockVars, bg_queue, next_in_queue, log_requests, group, rotated,
                   req, to_notify, flush_notify, lost, crashes>>

-----------------------------------------------------------------------------
(* do_checkpoint_request() and InnoDB's log flush requests *)

\* the leading requests of the list that are complete at LSN n
Complete(list, n) ==
    LET last == Max({i \in 0..Len(list) : \A j \in 1..i : list[j].lsn <= n})
    IN SubSeq(list, 1, last)
LogsOf(list) == [i \in DOMAIN list |-> list[i].log]
Rest(list, n) == SubSeq(list, Len(Complete(list, n)) + 1, Len(list))

(* ha_commit_checkpoint_request(): count and ask every engine.             *)
(* innodb_log_flush_request() first reads the flushed and the current LSN. *)
RequestCheckpoint(a) ==
    LET l == rotated[a] IN
    /\ At(a, "checkpoint")
    /\ xid_count' = [xid_count EXCEPT ![l] = @ + 1]
    /\ req' = [req EXCEPT ![a] = [flush_lsn |-> flushed, lsn |-> Len(elog)]]
    /\ Goto(a, "request")
    /\ UNCHANGED <<diskVars, current, head, lockVars, bgVars, log_requests, group, rotated, done,
                   to_notify, flush_notify, bg, lost, crashes>>

\* Mutant of RequestLsn: flushed LSN not read again after the list was empty.
RequestLsn_NotReread(a) == req[a].flush_lsn

\* the flushed LSN up to which a new request completes the old ones
RequestLsn(a) == IF log_requests = <<>> THEN flushed ELSE req[a].flush_lsn

(* All is durable: notify old requests and this one.  Else append the      *)
(* request, under log_requests.mutex, and detach the complete ones.        *)
FlushRequest(a) ==
    LET r == req[a]
        list == Append(log_requests, [log |-> rotated[a], lsn |-> r.lsn])
    IN
    /\ At(a, "request")
    /\ IF r.flush_lsn >= r.lsn
       THEN /\ to_notify' = [to_notify EXCEPT ![a] =
                   Append(LogsOf(Complete(log_requests, r.flush_lsn)), rotated[a])]
            /\ log_requests' = Rest(log_requests, r.flush_lsn)
       ELSE /\ to_notify' = [to_notify EXCEPT ![a] = LogsOf(Complete(list, RequestLsn(a)))]
            /\ log_requests' = Rest(list, RequestLsn(a))
    /\ req' = [req EXCEPT ![a] = NoRequest[a]] /\ Goto(a, "notify")
    /\ UNCHANGED <<diskVars, listVars, lockVars, bgVars, group, rotated, done,
                   flush_notify, bg, lost, crashes>>

(* commit_checkpoint_notify_ha() of the detached requests; then the count  *)
(* that rotate() held is released.                                         *)
RequestNotify(a) ==
    /\ At(a, "notify")
    /\ IF to_notify[a] # <<>>
       THEN /\ Notify(Head(to_notify[a]))
            /\ to_notify' = [to_notify EXCEPT ![a] = Tail(@)]
            /\ UNCHANGED <<pc, done, rotated>>
       ELSE /\ CallDone(a, rotated[a], IF a = FLUSHER THEN "end" ELSE "unlog")
            /\ rotated' = [rotated EXCEPT ![a] = 0]
            /\ UNCHANGED <<bgVars, to_notify>>
    /\ UNCHANGED <<diskVars, listVars, lockVars, log_requests, group, req, flush_notify, bg,
                   lost, crashes>>

(* InnoDB's redo log is written and flushed (RedoLog), and then            *)
(* log_flush_notify() detaches and notifies the requests now complete.     *)
FlushLog ==
    /\ Running /\ flush_notify.state = "idle" /\ flushed < Len(elog)
    /\ \E n \in (flushed + 1)..Len(elog) :
          /\ flushed' = n
          /\ flush_notify' = [state |-> "flushed", lsn |-> n, list |-> <<>>]
    /\ UNCHANGED <<elog, blog, synced, first, indexed, inuse, listVars, lockVars, bgVars, log_requests,
                   pc, group, rotated, done, req, to_notify, bg, lost, crashes>>

FlushNotify ==
    /\ Running /\ flush_notify.state = "flushed"
    /\ flush_notify' = [flush_notify EXCEPT !.state = "notify",
                            !.list = LogsOf(Complete(log_requests, flush_notify.lsn))]
    /\ log_requests' = Rest(log_requests, flush_notify.lsn)
    /\ UNCHANGED <<diskVars, listVars, lockVars, bgVars, pc, group, rotated, done, req,
                   to_notify, bg, lost, crashes>>

FlushNotifyNext ==
    /\ Running /\ flush_notify.state = "notify"
    /\ IF flush_notify.list # <<>>
       THEN /\ Notify(Head(flush_notify.list))
            /\ flush_notify' = [flush_notify EXCEPT !.list = Tail(@)]
       ELSE /\ flush_notify' = NoFlush
            /\ UNCHANGED bgVars
    /\ UNCHANGED <<diskVars, listVars, lockVars, log_requests, pc, group, rotated, done, req, to_notify,
                   bg, lost, crashes>>

-----------------------------------------------------------------------------
(* purge, crash and recovery *)

\* Mutant of CanPurge: only the active file is kept.
CanPurge_NotActive(l) == l # current

\* can_purge_log(): neither active nor in binlog_xid_count_list
CanPurge(l) == l < head

(* purge_logs() of the oldest file, under LOCK_index only: it may run      *)
(* while mark_xid_done() is under way, between the zero count or the       *)
(* dropped list entry and the synced checkpoint event.                     *)
Purge ==
    /\ Running /\ first < indexed /\ CanPurge(first)
    /\ PurgeInWindow \/ \A a \in Actors : pc[a] \notin {"done_lock", "done_write"}
    /\ first' = first + 1
    /\ UNCHANGED <<elog, flushed, blog, synced, indexed, inuse, listVars, lockVars, bgVars, log_requests,
                   ctlVars>>

(* The server crashes: any part of what was written but not synced may     *)
(* survive, in order; a file that is not in the index is ignored.          *)
Crash ==
    /\ Running /\ crashes < MaxCrashes
    /\ \E n \in flushed..Len(elog) : elog' = SubSeq(elog, 1, n) /\ flushed' = n
    /\ \E n \in synced..Len(blog[indexed]) :
          /\ blog' = [l \in Logs |-> IF l < indexed THEN blog[l]
                                     ELSE IF l = indexed THEN SubSeq(blog[l], 1, n) ELSE <<>>]
          /\ synced' = n
    /\ pc' = [a \in Actors |-> "crashed"]
    /\ crashes' = crashes + 1
    /\ MemoryLost
    /\ UNCHANGED <<first, indexed, inuse, lost>>

(* TC_LOG_BINLOG::recover(): if the last file was in use, the last         *)
(* checkpoint in it names the file to scan from; a prepared transaction    *)
(* found in the binlog is committed, any other rolled back.                *)
LastCheckpoint ==
    LET cps == {i \in DOMAIN blog[indexed] : blog[indexed][i].type = "checkpoint"}
    IN blog[indexed][Max(cps)].arg
Scanned == {t \in Trx : \E l \in LastCheckpoint..indexed : Xid(t) \in Range(blog[l])}
InDoubt == {t \in Trx : InEngine("prepare", t) /\ ~InEngine("commit", t)
                        /\ ~InEngine("rollback", t)}

Recover ==
    /\ ~Running /\ ~lost /\ indexed < MaxLogs
    /\ IF indexed \in inuse /\ LastCheckpoint < first
       THEN \* "Binlog file not found in binlog index, needed for recovery"
            lost' = TRUE /\ UNCHANGED <<diskVars, current, head, pc>>
       ELSE /\ elog' = IF indexed \notin inuse THEN elog
                       ELSE elog \o SetToSeq({EngineRecord("commit", t) : t \in InDoubt \cap Scanned}
                                       \cup {EngineRecord("rollback", t) : t \in InDoubt \ Scanned})
            /\ flushed' = Len(elog')
            \* open() starts a new file, and its list has this one entry
            /\ indexed' = indexed + 1 /\ inuse' = {indexed + 1}
            /\ blog' = [blog EXCEPT ![indexed + 1] = <<Checkpoint(indexed + 1)>>]
            /\ synced' = 1
            /\ current' = indexed + 1 /\ head' = indexed + 1
            /\ pc' = [a \in Actors |-> IF a = BG THEN "idle"
                        ELSE IF a \in Trx /\ ~InEngine("prepare", a) THEN "begin" ELSE "end"]
            /\ UNCHANGED <<first, lost>>
    /\ UNCHANGED <<xid_count, lockVars, bgVars, log_requests, group, rotated, done, req, to_notify,
                   flush_notify, bg, crashes>>

-----------------------------------------------------------------------------
Committing(a) ==
    \/ Lead(a) \/ WriteGroup(a) \/ SyncGroup(a) \/ RotateBegin(a) \/ RotateIndex(a)
    \/ RotateList(a) \/ AfterSync(a) \/ RunCommitOrdered(a)
    \/ RequestCheckpoint(a) \/ FlushRequest(a) \/ RequestNotify(a)

MarkingDone(a) == MarkXidDone(a) \/ DropEntries(a) \/ WriteCheckpoint(a)

Background == BgGrab \/ BgProcess

Flushing == FlushLog \/ FlushNotify \/ FlushNotifyNext

Steps ==
    \/ \E t \in Trx : Prepare(t) \/ Prepared(t) \/ Unlog(t)
    \/ \E a \in Threads : Committing(a)
    \/ \E a \in Actors : MarkingDone(a)
    \/ Background \/ Flushing
    \/ Purge \/ Crash \/ Recover

Next == Steps /\ UNCHANGED sync_period

BinlogXaSpec == Init /\ [][Next]_vars
-----------------------------------------------------------------------------
(* Properties *)

BinlogXaTypeOK ==
    /\ flushed \in 0..Len(elog)
    /\ indexed \in Logs /\ first \in 1..indexed /\ inuse \subseteq Logs
    /\ synced \in 0..Len(blog[indexed])
    /\ current \in Logs /\ head \in 1..current
    /\ xid_count \in [Logs -> Nat]
    /\ bg_queue \in 0..MaxLogs /\ bg \in 0..MaxLogs
    /\ next_in_queue \in [Logs -> 0..MaxLogs]

(* Engine and binlog agree after a crash: a transaction that is not under  *)
(* way is committed in InnoDB if and only if it is in the binlog, and no   *)
(* transaction is left prepared.  This is what sync_binlog = 1 is for; with *)
(* any other value a crash may take what was written and not synced.       *)
CrashConsistent ==
    sync_period = 1 /\ Running => \A t \in Trx : At(t, "end") /\ InEngine("prepare", t) =>
        /\ InEngine("commit", t) <=> InBinlog(t)
        /\ InEngine("commit", t) \/ InEngine("rollback", t)

(* Recovery never needs a file that was purged, if sync_binlog = 1.  With  *)
(* another value a crash may take the checkpoint event that allowed the    *)
(* purge, and recovery starts at an older file.                            *)
RecoveryFindsFiles == sync_period = 1 => ~lost

(* The entries the background thread has still to process: the heads of   *)
(* its two lists, and whatever follows an entry of a list.                 *)
Queued ==
    LET closed(S) == /\ {bg_queue, bg} \subseteq S \cup {0}
                     /\ \A l \in S : next_in_queue[l] \in S \cup {0}
    IN {l \in Logs : \A S \in SUBSET Logs : closed(S) => l \in S}

(* The DBUG_ASSERTs of mark_xids_active() and mark_xid_done(): the entry   *)
(* is still in the list, and its count is positive when decremented; the   *)
(* background thread has no dangling entry in its hands.                   *)
EntriesPresent ==
    /\ \A a \in Actors : At(a, "done") => done[a].log >= head /\ xid_count[done[a].log] > 0
    /\ \A a \in Threads : pc[a] \in {"checkpoint", "request", "notify"} => rotated[a] >= head
    /\ Running => \A l \in Queued : l >= head /\ xid_count[l] > 0

(* A binlog checkpoint leaves behind only files whose transactions are all *)
(* durably committed in the engine, so recovery need not see them.         *)
CheckpointIsSafe ==
    \A t \in Trx, l \in 1..(LastCheckpoint - 1) :
        Xid(t) \in Range(blog[l]) =>
            InEngine("rollback", t) \/ (InEngine("commit", t) /\ Lsn("commit", t) <= flushed)

(* do_checkpoint_request(): every rotated file is left behind by a         *)
(* checkpoint in the end.  When all threads are done and all of the redo   *)
(* log is flushed, no notification has been lost between InnoDB's request  *)
(* list, the background thread's queue and the counts.                     *)
Settled ==
    /\ \A a \in Threads : pc[a] \in {"begin", "end"}
    /\ At(BG, "idle") /\ bg = 0 /\ bg_queue = 0
    /\ flush_notify = NoFlush /\ flushed = Len(elog)
NoNotificationLost == Settled => head = current /\ LastCheckpoint = current
=============================================================================
