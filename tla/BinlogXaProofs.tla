---------------------------- MODULE BinlogXaProofs ----------------------------
(***************************************************************************)
(* Proofs about BinlogXa, for every set of transactions, number of files   *)
(* and number of crashes, and any value of sync_binlog: a checkpoint is    *)
(* safe, entries of binlog_xid_count_list are present when they are used,  *)
(* no notification is lost; and if sync_binlog = 1, engine and binlog      *)
(* agree after any crash, and recovery finds its files.                    *)
(*                                                                         *)
(* The invariant FullInv has three parts.                                  *)
(*                                                                         *)
(* Disk.  Every transaction of the binlog is durably prepared and not      *)
(* rolled back; if sync_binlog = 1, a commit record is written only for    *)
(* one that is in a synced file: what is not synced belongs to a group at  *)
(* its sync (SyncedOk), and its members are not committed (MembersOk).     *)
(* So a crash leaves a disk with the same property, and recovery need      *)
(* only know that the files before the last checkpoint are done            *)
(* (CheckpointsOk).                                                        *)
(*                                                                         *)
(* The count of a file (CountsOk) is the number of its transactions that   *)
(* have still to call unlog(), plus one while the thread that rotated it   *)
(* holds it, plus one while the file is on its way from the checkpoint     *)
(* request to the background thread: `at' says where, and it is in one     *)
(* place at a time (PlacesOk).                                             *)
(*                                                                         *)
(* A file left behind is done, or its checkpoint request is still to       *)
(* complete (LeftOk): its transactions have commit records up to the LSN   *)
(* of the request (RequestOk), and a request is detached only when that    *)
(* LSN is flushed.  So a file whose count is zero is done, and head, the   *)
(* next checkpoint, may pass it.                                           *)
(***************************************************************************)
EXTENDS BinlogXa, FiniteSetTheorems, SequenceTheorems, FunctionTheorems,
        WellFoundedInduction, TLAPS

\* the records of InnoDB's log and of the binlog, and the checkpoint requests
EngineRecords == [type : {"prepare", "commit", "rollback"}, arg : Trx]
LogRecords == [type : {"xid"}, arg : Trx] \cup [type : {"checkpoint"}, arg : Logs]
Requests == [log : Logs, lsn : Nat]

\* who has LOCK_log; who has a group; who asks for a checkpoint; who is in
\* mark_xid_done(); and the labels of each thread
LogHolders == {"write", "sync", "rotate", "rotate_index", "rotate_list", "next_stage", "done_write"}
Leading == {"write", "sync", "rotate", "rotate_index", "rotate_list", "next_stage", "order"}
Requesting == {"checkpoint", "request", "notify"}
Marking == {"done", "done_lock", "done_write"}
FlusherLabels == {"begin", "rotate", "rotate_index", "rotate_list", "next_stage", "order",
                  "checkpoint", "request", "notify", "done", "done_lock", "done_write",
                  "unlog", "end", "crashed"}
TrxLabels == {"prepare_flush", "queued", "follow", "write", "sync"} \cup FlusherLabels
BgLabels == {"idle", "crashed"} \cup Marking

\* the type of every variable
XaTypes ==
    /\ elog \in Seq(EngineRecords) /\ flushed \in 0..Len(elog)
    /\ blog \in [Logs -> Seq(LogRecords)]
    /\ indexed \in Logs /\ synced \in 1..Len(blog[indexed]) /\ first \in 1..indexed
    /\ current \in Logs /\ head \in 1..current /\ xid_count \in [Logs -> Nat]
    /\ bg_queue \in 0..MaxLogs /\ bg \in 0..MaxLogs
    /\ next_in_queue \in [Logs -> 0..MaxLogs] /\ log_requests \in Seq(Requests)
    /\ pc \in [Actors -> TrxLabels \cup BgLabels]
    /\ group \in [Threads -> Seq(Trx)] /\ rotated \in [Threads -> 0..MaxLogs]
    /\ done \in [Actors -> [log : 0..MaxLogs, to : {"none", "idle", "unlog", "end"}]]
    /\ req \in [Threads -> [flush_lsn : Nat, lsn : Nat]]
    /\ to_notify \in [Threads -> Seq(Logs)]
    /\ flush_notify \in [state : {"idle", "flushed", "notify"}, lsn : Nat, list : Seq(Logs)]

\* who may be where; a crash stops everybody
LabelsOk ==
    /\ \A t \in Trx : pc[t] \in TrxLabels
    /\ pc[FLUSHER] \in FlusherLabels /\ pc[BG] \in BgLabels
    /\ \A a \in Actors : pc[a] = "crashed" <=> pc[BG] = "crashed"

\* the holders of the two mutexes of group commit
LocksOk ==
    \A a \in Actors : /\ LOCK_log = a <=> pc[a] \in LogHolders
                      /\ LOCK_after_binlog_sync = a <=> pc[a] = "order"

\* a transaction is in one group, and its leader is under way
GroupsOk ==
    /\ \A a \in Threads : \A t \in Range(group[a]) :
          a \in Trx /\ pc[a] \in Leading /\ (t = a \/ pc[t] = "follow")
    /\ \A a, b \in Threads : \A i \in DOMAIN group[a], j \in DOMAIN group[b] :
          group[a][i] = group[b][j] => a = b /\ i = j
    /\ \A a \in Trx : pc[a] \in Leading => a \in Range(group[a])
\* which file a thread has rotated
RotatedOk ==
    \A a \in Threads :
        /\ rotated[a] # 0 => pc[a] \in {"rotate_index", "rotate_list", "next_stage", "order",
                                        "checkpoint", "request", "notify"}
        /\ pc[a] \in {"rotate_index", "rotate_list"} => rotated[a] = current
        /\ pc[a] = "next_stage" => rotated[a] \in {0, current - 1}
        /\ pc[a] \in {"order", "checkpoint", "request", "notify"} => rotated[a] < current
        /\ pc[a] \in Requesting => rotated[a] # 0
        /\ pc[a] \in {"rotate", "rotate_index"} => current < MaxLogs
InFile(t, l) == Xid(t) \in Range(blog[l])
\* the index ends with the current file, but for the middle of a rotation
IndexOk ==
    /\ indexed \in inuse /\ first <= head /\ blog[indexed][1].type = "checkpoint"
    /\ \A a \in Threads : pc[a] = "rotate_list" => indexed = current + 1
    /\ (\A a \in Threads : pc[a] # "rotate_list") => indexed = current
    /\ \A t \in Trx, l \in Logs : InFile(t, l) => l <= current
\* what is not synced is the group that is about to be synced
SyncedOk == sync_period = 1 =>
    \A i \in DOMAIN blog[indexed] : i > synced =>
        \E a \in Threads : pc[a] = "sync" /\ \E t \in Range(group[a]) : blog[indexed][i] = Xid(t)

\* every record is in the log once
Distinct(s) == \A i, j \in DOMAIN s : s[i] = s[j] => i = j
Durable(k, t) == \E i \in 1..flushed : elog[i] = EngineRecord(k, t)
\* what the disks say of a transaction
DiskOk(t) ==
    /\ \A l, m \in Logs : InFile(t, l) /\ InFile(t, m) => l = m
    /\ InBinlog(t) => Durable("prepare", t) /\ ~InEngine("rollback", t)
    /\ InEngine("commit", t) => /\ Durable("prepare", t) /\ ~InEngine("rollback", t)
                                /\ sync_period = 1 => InBinlog(t)
    /\ InEngine("rollback", t) => Durable("rollback", t) /\ Durable("prepare", t)
\* what its thread knows of it
TrxOk(t) ==
    /\ pc[t] = "begin" => ~InEngine("prepare", t)
    /\ pc[t] \in {"prepare_flush", "queued"} =>
          InEngine("prepare", t) /\ ~InEngine("rollback", t) /\ ~InEngine("commit", t) /\ ~InBinlog(t)
    /\ pc[t] = "queued" => Durable("prepare", t)
    /\ pc[t] \in {"unlog"} \cup Requesting \cup Marking => InEngine("commit", t) /\ InBinlog(t)
    /\ pc[t] = "end" => InEngine("commit", t) \/ InEngine("rollback", t)
\* the file that a group is written to, and what is known of its members
FileOf(a) == IF rotated[a] = 0 THEN current ELSE rotated[a]
MemberOk(a, t) ==
    /\ Durable("prepare", t) /\ ~InEngine("rollback", t) /\ ~InEngine("commit", t)
    /\ pc[a] = "write" => ~InBinlog(t)
    /\ pc[a] \in Leading \ {"write", "order"} => InFile(t, FileOf(a))
    /\ pc[a] = "order" => InBinlog(t)
MembersOk ==
    /\ \A a \in Threads : \A t \in Range(group[a]) : MemberOk(a, t)
    /\ Running => \A t \in Trx : InBinlog(t) /\ ~InEngine("commit", t) =>
          \E a \in Threads : t \in Range(group[a])
DisksOk == Distinct(elog) /\ \A t \in Trx : DiskOk(t)
TrxsOk == \A t \in Trx : TrxOk(t)

\* all transactions of file l have committed in the engine's log before n
CommitBy(l, n) == \A t \in Trx : InFile(t, l) =>
    \E i \in DOMAIN elog : i <= n /\ elog[i] = EngineRecord("commit", t)
DoneLog(l) == CommitBy(l, flushed)
\* a request waits for an LSN by which its file has been committed
RequestOk ==
    /\ \A a \in Threads :
          /\ pc[a] = "checkpoint" => CommitBy(rotated[a], Len(elog))
          /\ pc[a] = "request" => /\ CommitBy(rotated[a], req[a].lsn) /\ req[a].lsn <= Len(elog)
                                  /\ req[a].flush_lsn <= flushed
    /\ \A i \in DOMAIN log_requests :
          CommitBy(log_requests[i].log, log_requests[i].lsn) /\ log_requests[i].lsn <= Len(elog)
\* log_flush_notify() has still to look at the list, or nothing in it is
\* complete
FlushOk ==
    /\ flush_notify.state = "flushed" => flush_notify.lsn = flushed
    /\ flush_notify.state # "flushed" => log_requests = <<>> \/ log_requests[1].lsn > flushed
    /\ flush_notify.state # "notify" => flush_notify.list = <<>>
\* the last checkpoint of a file; and while one is being written
IsLast(s, c) == \E i \in DOMAIN s :
    s[i] = Checkpoint(c) /\ \A j \in DOMAIN s : j > i => s[j].type # "checkpoint"
Window == \E a \in Actors : pc[a] \in {"done_lock", "done_write"}
\* what a checkpoint leaves behind is done
CheckpointsOk ==
    \A l \in Logs : \A i \in DOMAIN blog[l] : blog[l][i].type = "checkpoint" =>
        blog[l][i].arg <= l /\ blog[l][i].arg <= current /\ \A m \in 1..(blog[l][i].arg - 1) : DoneLog(m)
\* the last checkpoint follows the list, and purge does not overtake it
LastOk ==
    /\ \A a \in Threads : pc[a] = "rotate_index" =>
          \E c \in head..current : blog[current + 1] = <<Checkpoint(c)>>
    /\ \E c \in Logs : /\ IsLast(blog[indexed], c)
                       /\ ~PurgeInWindow /\ sync_period = 1 => first <= c
                       /\ Running /\ ~Window => head <= c
    /\ head # current /\ xid_count[head] = 0 => \E a \in Actors : pc[a] = "done_lock"
    /\ \A l \in Logs : l < head => xid_count[l] = 0
    /\ ~PurgeInWindow /\ sync_period = 1 => ~lost

\* who holds the count of a rotated file, and which transactions count
HoldTo(a) == IF a = FLUSHER THEN "end" ELSE "unlog"
Holds(a, l) == \/ rotated[a] = l
               \/ pc[a] = "done" /\ done[a].log = l /\ done[a].to = HoldTo(a)
CountedLabels == {"rotate", "rotate_index", "rotate_list", "next_stage", "order",
                  "checkpoint", "request", "notify", "unlog"}
Counted(t) ==
    \/ pc[t] \in CountedLabels
    \/ pc[t] \in Marking /\ done[t].to = "unlog"
    \/ pc[t] = "done" /\ done[t].to = "end"
    \/ pc[t] = "follow" /\ \E a \in Threads : t \in Range(group[a]) /\ pc[a] \notin {"write", "sync"}
Unlogged(l) == {t \in NeedUnlog : Counted(t) /\ InFile(t, l)}
Bit(b) == IF b THEN 1 ELSE 0
\* what mark_xid_done() is called for
DoneOk ==
    \A a \in Actors : pc[a] \in Marking =>
        /\ done[a].log \in 1..current
        /\ a = BG => done[a].to = "idle" /\ done[a].log < current
        /\ a = FLUSHER => done[a].to = "end"
        /\ a \in Trx => done[a].to \in {"unlog", "end"}
        /\ a \in Trx /\ done[a].to = "end" => a \in NeedUnlog /\ InFile(a, done[a].log)
\* a rotated file is held by one thread
HoldOk ==
    /\ \A a, b \in Threads, l \in Logs : Holds(a, l) /\ Holds(b, l) => a = b
    /\ \A a \in Threads : pc[a] = "done" /\ done[a].to = HoldTo(a) => done[a].log < current

\* where the notification of a rotated file is; q and r are the background
\* thread's queue and the list in its hands
Places == {"none", "request", "list", "notify", "flush", "queue", "bg", "done"}
IsChain(q, from) ==
    /\ from = IF q = <<>> THEN 0 ELSE q[1]
    /\ \A i \in DOMAIN q : next_in_queue[q[i]] = IF i = Len(q) THEN 0 ELSE q[i + 1]
ListsOk(q, r) ==
    /\ IsChain(q, bg_queue) /\ IsChain(r, bg) /\ Distinct(q) /\ Distinct(r)
    /\ Distinct(flush_notify.list)
    /\ \A i, j \in DOMAIN log_requests : log_requests[i].log = log_requests[j].log => i = j
    /\ \A a, b \in Threads : \A i \in DOMAIN to_notify[a], j \in DOMAIN to_notify[b] :
          to_notify[a][i] = to_notify[b][j] => a = b /\ i = j
    /\ \A a \in Threads : to_notify[a] # <<>> => pc[a] = "notify"
PlaceOk(at, q, r, l) ==
    /\ at[l] = "request" <=> \E a \in Threads : pc[a] = "request" /\ rotated[a] = l
    /\ at[l] = "list" <=> \E i \in DOMAIN log_requests : log_requests[i].log = l
    /\ at[l] = "notify" <=> \E a \in Threads : l \in Range(to_notify[a])
    /\ at[l] = "flush" <=> l \in Range(flush_notify.list)
    /\ at[l] = "queue" <=> l \in Range(q)
    /\ at[l] = "bg" <=> l \in Range(r)
    /\ at[l] = "done" <=> pc[BG] = "done" /\ done[BG].log = l
    /\ at[l] # "none" => l < current
PlacesOk(at, q, r) ==
    /\ ListsOk(q, r)
    /\ \A l \in Logs : PlaceOk(at, q, r, l)
    /\ \A a \in Threads : rotated[a] # 0 /\ pc[a] \notin {"request", "notify"} =>
          at[rotated[a]] = "none"
\* what the count of a file consists of
CountsOk(at) == \A l \in Logs :
    xid_count[l] = Cardinality(Unlogged(l)) + Bit(\E a \in Threads : Holds(a, l)) + Bit(at[l] # "none")
\* a file left behind is done or asks to be told when it is
LeftOk(at) == Running => \A l \in 1..(current - 1) :
    \/ DoneLog(l)
    \/ at[l] \in {"request", "list"}
    \/ \E a \in Threads : rotated[a] = l /\ pc[a] \in {"next_stage", "order", "checkpoint"}
TokensOk == \E at \in [Logs -> Places], q \in Seq(Logs), r \in Seq(Logs) :
    PlacesOk(at, q, r) /\ CountsOk(at) /\ LeftOk(at)

\* the inductive invariant, but for what holds after a crash (CrashedOk)
XaInv ==
    /\ XaTypes /\ LabelsOk /\ LocksOk /\ GroupsOk /\ RotatedOk /\ IndexOk /\ SyncedOk
    /\ DisksOk /\ TrxsOk /\ MembersOk /\ RequestOk /\ FlushOk /\ CheckpointsOk /\ LastOk
    /\ DoneOk /\ HoldOk /\ TokensOk
-----------------------------------------------------------------------------
(* Types *)

\* The types of what is on disk and of the list, one by one.
LEMMA DiskTypes ==
    ASSUME XaTypes
    PROVE  /\ elog \in Seq(EngineRecords) /\ Len(elog) \in Nat /\ DOMAIN elog = 1..Len(elog)
           /\ flushed \in Nat /\ flushed <= Len(elog)
           /\ current \in Nat /\ head \in Nat /\ current \in Logs /\ head \in Logs
           /\ 1 <= head /\ head <= current /\ current <= MaxLogs /\ MaxLogs \in Nat
           /\ indexed \in Nat /\ indexed \in Logs /\ first \in Nat /\ synced \in Nat
           /\ \A l \in Logs : /\ blog[l] \in Seq(LogRecords) /\ Len(blog[l]) \in Nat
                              /\ DOMAIN blog[l] = 1..Len(blog[l]) /\ l \in Nat
<1>1. elog \in Seq(EngineRecords) /\ flushed \in 0..Len(elog) /\ blog \in [Logs -> Seq(LogRecords)]
  BY DEF XaTypes
<1>2. Len(elog) \in Nat /\ DOMAIN elog = 1..Len(elog)
  BY <1>1, LenProperties
<1>3. MaxLogs \in Nat
  BY BinlogXaAssumption
<1>4. current \in Logs /\ head \in 1..current /\ indexed \in Logs /\ first \in 1..indexed
      /\ synced \in 1..Len(blog[indexed])
  BY DEF XaTypes
<1>5. ASSUME NEW l \in Logs
      PROVE  /\ blog[l] \in Seq(LogRecords) /\ Len(blog[l]) \in Nat
             /\ DOMAIN blog[l] = 1..Len(blog[l]) /\ l \in Nat
  <2>1. blog[l] \in Seq(LogRecords)
    BY <1>1
  <2> QED BY <2>1, <1>3, LenProperties DEF Logs
<1> QED BY <1>1, <1>2, <1>3, <1>4, <1>5 DEF Logs

\* A file that was rotated is a file.
LEMMA RotatedLog ==
    ASSUME XaTypes, NEW a \in Threads, rotated[a] # 0
    PROVE  rotated[a] \in Logs
<1>1. rotated[a] \in 0..MaxLogs
  BY DEF XaTypes
<1> QED BY <1>1, BinlogXaAssumption DEF Logs

-----------------------------------------------------------------------------
(* What a step leaves alone *)

\* no thread enters or leaves one of the labels in S
Kept(S) == \A a \in Actors : pc'[a] = pc[a] \/ (pc[a] \notin S /\ pc'[a] \notin S)

\* no thread enters or leaves the set of labels S
Within(S) == \A a \in Actors : pc'[a] \in S <=> pc[a] \in S

\* The locks keep their holders if nobody enters or leaves a critical section.
LEMMA LocksFrame ==
    ASSUME LocksOk, UNCHANGED lockVars, Within(LogHolders), Within({"order"})
    PROVE  LocksOk'
  BY DEF LocksOk, lockVars, Within

\* Groups stay as they are if nobody starts or stops leading or following.
LEMMA GroupsFrame ==
    ASSUME GroupsOk, UNCHANGED group, group \in [Threads -> Seq(Trx)], Within(Leading), Within({"follow"})
    PROVE  GroupsOk'
<1>1. \A a \in Actors : /\ pc'[a] \in Leading <=> pc[a] \in Leading
                        /\ pc'[a] = "follow" <=> pc[a] = "follow"
  BY DEF Within
<1>2. \A a \in Threads : a \in Actors /\ Range(group[a]) \subseteq Actors
  <2> SUFFICES ASSUME NEW a \in Threads PROVE Range(group[a]) \subseteq Actors
    BY DEF Actors
  <2>1. group[a] \in Seq(Trx)
    OBVIOUS
  <2> QED BY <2>1 DEF Range, Actors, Threads
<1> QED
  <2>1. ASSUME NEW a \in Threads, NEW t \in Range(group[a])
        PROVE  a \in Trx /\ pc'[a] \in Leading /\ (t = a \/ pc'[t] = "follow")
    <3>1. a \in Trx /\ pc[a] \in Leading /\ (t = a \/ pc[t] = "follow")
      BY DEF GroupsOk
    <3>2. t \in Actors
      BY <1>2
    <3> QED BY <1>1, <1>2, <3>1, <3>2
  <2>2. \A a \in Trx : pc'[a] \in Leading => a \in Range(group[a])
    BY <1>1, <1>2 DEF GroupsOk, Threads
  <2>3. \A a, b \in Threads : \A i \in DOMAIN group[a], j \in DOMAIN group[b] :
          group[a][i] = group[b][j] => a = b /\ i = j
    BY DEF GroupsOk
  <2> QED BY <2>1, <2>2, <2>3 DEF GroupsOk

\* So does what is known of rotated files,
LEMMA RotatedFrame ==
    ASSUME RotatedOk, UNCHANGED <<rotated, current>>,
           Kept((Leading \cup Requesting) \ {"write", "sync"})
    PROVE  RotatedOk'
<1>1. \A a \in Threads : a \in Actors
  BY DEF Actors
<1> QED BY <1>1 DEF RotatedOk, Kept, Leading, Requesting

\* of the index,
LEMMA IndexFrame ==
    ASSUME IndexOk, UNCHANGED <<indexed, inuse, first, head, current, blog>>, Kept({"rotate_list"})
    PROVE  IndexOk'
<1>1. \A a \in Threads : a \in Actors
  BY DEF Actors
<1> QED BY <1>1 DEF IndexOk, Kept, InFile

\* of what is not synced yet,
LEMMA SyncedFrame ==
    ASSUME SyncedOk, UNCHANGED <<blog, indexed, synced, group, sync_period>>, Kept({"sync"})
    PROVE  SyncedOk'
<1>1. \A a \in Threads : a \in Actors
  BY DEF Actors
<1> QED BY <1>1 DEF SyncedOk, Kept

\* of the records on disk,
LEMMA DisksFrame ==
    ASSUME DisksOk, UNCHANGED <<elog, flushed, blog, sync_period>>
    PROVE  DisksOk'
  BY DEF DisksOk, Distinct, DiskOk, InFile, InBinlog, Durable, InEngine

\* of one transaction,
LEMMA TrxFrame ==
    ASSUME NEW t, TrxOk(t), UNCHANGED <<elog, flushed, blog>>, pc'[t] = pc[t]
    PROVE  TrxOk(t)'
  BY DEF TrxOk, InBinlog, Durable, InEngine

\* and of the members of groups.
LEMMA MembersFrame ==
    ASSUME MembersOk, UNCHANGED <<elog, flushed, blog, group, rotated, current>>,
           Within({"write"}), Within(Leading \ {"write", "order"}), Within({"order"}), Within({"crashed"})
    PROVE  MembersOk'
<1>1. \A a \in Threads : a \in Actors
  BY DEF Actors
<1>2. Running' <=> Running
  BY DEF Running, At, Actors, Within
<1>3. \A a \in Threads : \A t \in Range(group[a]) : MemberOk(a, t)'
  <2> SUFFICES ASSUME NEW a \in Threads, NEW t \in Range(group[a]) PROVE MemberOk(a, t)'
    OBVIOUS
  <2>1. MemberOk(a, t)
    BY DEF MembersOk
  <2>2. /\ pc'[a] = "write" <=> pc[a] = "write"
        /\ pc'[a] \in Leading \ {"write", "order"} <=> pc[a] \in Leading \ {"write", "order"}
        /\ pc'[a] = "order" <=> pc[a] = "order"
    BY <1>1 DEF Within
  <2> QED BY <2>1, <2>2 DEF MemberOk, InFile, InBinlog, Durable, InEngine, FileOf
<1> QED BY <1>2, <1>3 DEF MembersOk, InBinlog, InEngine

\* commits that are in the engine's log remain there
Stays(l) == \A n : CommitBy(l, n) => CommitBy(l, n)'

\* Nothing is written.
LEMMA StaysFrame ==
    ASSUME UNCHANGED <<elog, blog>>
    PROVE  \A l : Stays(l)
  BY DEF Stays, CommitBy, InFile

\* Requests stay as they are while the logs grow, but a thread may arrive at
\* its checkpoint request.
LEMMA RequestMove ==
    ASSUME RequestOk, XaTypes, XaTypes', \A l \in Logs : l < current => Stays(l),
           \A i \in DOMAIN log_requests : log_requests[i].log < current,
           Len(elog) <= Len(elog'), flushed <= flushed',
           UNCHANGED <<rotated, req, log_requests>>, Kept({"request"}), RotatedOk,
           \A a \in Threads : pc'[a] = "checkpoint" => pc[a] = "checkpoint" \/ CommitBy(rotated[a], Len(elog))'
    PROVE  RequestOk'
<1>1. \A a \in Threads : a \in Actors
  BY DEF Actors
<1>0. Len(elog) \in Nat /\ Len(elog') \in Nat /\ flushed \in Nat /\ flushed' \in Nat
  <2>1. Len(elog) \in Nat /\ flushed \in Nat
    BY DiskTypes
  <2>2. elog' \in Seq(EngineRecords) /\ flushed' \in 0..Len(elog')
    BY DEF XaTypes
  <2>3. Len(elog') \in Nat
    BY <2>2, LenProperties
  <2> QED BY <2>1, <2>2, <2>3
<1>2. ASSUME NEW a \in Threads, pc'[a] = "checkpoint" PROVE CommitBy(rotated[a], Len(elog))'
  <2> SUFFICES ASSUME pc[a] = "checkpoint" PROVE CommitBy(rotated[a], Len(elog))'
    BY <1>2
  <2>1. pc[a] = "checkpoint"
    OBVIOUS
  <2>2. rotated[a] \in Logs /\ rotated[a] < current
    BY <2>1, RotatedLog DEF RotatedOk, Requesting
  <2>3. CommitBy(rotated[a], Len(elog))
    BY <2>1 DEF RequestOk
  <2>4. Stays(rotated[a])
    BY <2>2
  <2>5. CommitBy(rotated[a], Len(elog))'
    <3>1. \A n : CommitBy(rotated[a], n) => CommitBy(rotated[a], n)'
      BY <2>4 DEF Stays
    <3>2. PICK n : n = Len(elog)
      OBVIOUS
    <3>3. CommitBy(rotated[a], n)'
      BY <2>3, <3>1, <3>2
    <3>4. n <= Len(elog') /\ n \in Nat
      BY <1>0, <3>2
    <3> QED
      <4>1. ASSUME NEW t \in Trx, InFile(t, rotated[a])'
            PROVE  \E i \in DOMAIN elog' : i <= Len(elog') /\ elog'[i] = EngineRecord("commit", t)
        <5>1. elog' \in Seq(EngineRecords)
          BY DEF XaTypes
        <5>2. DOMAIN elog' = 1..Len(elog')
          BY <5>1, LenProperties
        <5>3. PICK i \in DOMAIN elog' : i <= n /\ elog'[i] = EngineRecord("commit", t)
          BY <3>3, <4>1 DEF CommitBy
        <5> QED BY <1>0, <3>4, <5>2, <5>3
      <4> QED BY <4>1 DEF CommitBy
  <2> QED BY <2>5
<1>3. ASSUME NEW a \in Threads, pc'[a] = "request"
      PROVE /\ CommitBy(rotated[a], req[a].lsn)' /\ req'[a].lsn <= Len(elog')
            /\ req'[a].flush_lsn <= flushed'
  <2>1. pc[a] = "request"
    BY <1>1, <1>3 DEF Kept
  <2>2. rotated[a] \in Logs /\ rotated[a] < current
    BY <2>1, RotatedLog DEF RotatedOk, Requesting
  <2>3. CommitBy(rotated[a], req[a].lsn) /\ req[a].lsn <= Len(elog) /\ req[a].flush_lsn <= flushed
    BY <2>1 DEF RequestOk
  <2>4. Stays(rotated[a])
    BY <2>2
  <2>5. CommitBy(rotated[a], req[a].lsn)'
    <3>1. PICK n : n = req[a].lsn
      OBVIOUS
    <3>2. CommitBy(rotated[a], n)'
      BY <2>3, <2>4, <3>1 DEF Stays
    <3> QED BY <3>1, <3>2 DEF CommitBy
  <2>6. req[a].lsn \in Nat /\ req[a].flush_lsn \in Nat
    <3>1. req[a] \in [flush_lsn : Nat, lsn : Nat]
      BY DEF XaTypes
    <3> QED BY <3>1
  <2> QED BY <1>0, <2>3, <2>5, <2>6
<1>4. ASSUME NEW i \in DOMAIN log_requests
      PROVE CommitBy(log_requests[i].log, log_requests[i].lsn)' /\ log_requests[i].lsn <= Len(elog')
  <2>1. log_requests[i].log \in Logs /\ log_requests[i].log < current /\ log_requests[i].lsn \in Nat
    <3>1. log_requests \in Seq(Requests)
      BY DEF XaTypes
    <3>2. log_requests[i] \in Requests
      BY <3>1
    <3> QED BY <3>2 DEF Requests
  <2>2. CommitBy(log_requests[i].log, log_requests[i].lsn) /\ log_requests[i].lsn <= Len(elog)
    BY DEF RequestOk
  <2>3. PICK n, l : n = log_requests[i].lsn /\ l = log_requests[i].log
    OBVIOUS
  <2>4. CommitBy(l, n)'
    BY <2>1, <2>2, <2>3 DEF Stays
  <2> QED BY <1>0, <2>1, <2>2, <2>3, <2>4 DEF CommitBy, InFile
<1> QED BY <1>2, <1>3, <1>4 DEF RequestOk

\* Requests stay as they are while the logs grow.
LEMMA RequestFrame ==
    ASSUME RequestOk, XaTypes, XaTypes', \A l \in Logs : l < current => Stays(l),
           \A i \in DOMAIN log_requests : log_requests[i].log < current,
           Len(elog) <= Len(elog'), flushed <= flushed',
           UNCHANGED <<rotated, req, log_requests>>, Kept({"checkpoint", "request"}), RotatedOk
    PROVE  RequestOk'
<1>1. Kept({"request"}) /\ \A a \in Threads : pc'[a] = "checkpoint" => pc[a] = "checkpoint"
  BY DEF Kept, Actors
<1> QED BY <1>1, RequestMove

\* The list of requests is not touched and nothing is flushed.
LEMMA FlushFrame ==
    ASSUME FlushOk, UNCHANGED <<flush_notify, log_requests, flushed>>
    PROVE  FlushOk'
  BY DEF FlushOk

\* No checkpoint is written.
LEMMA CheckpointsFrame ==
    ASSUME CheckpointsOk, UNCHANGED <<blog, elog, flushed, current>>
    PROVE  CheckpointsOk'
  BY DEF CheckpointsOk, DoneLog, CommitBy, InFile

\* The last checkpoint, the list and the index are not touched.
LEMMA LastFrame ==
    ASSUME LastOk, UNCHANGED <<head, current, blog, indexed, first, xid_count, lost, sync_period>>,
           Kept({"rotate_index", "done_lock", "done_write", "crashed"})
    PROVE  LastOk'
<1>1. \A a \in Threads : a \in Actors
  BY DEF Actors
<1>2. Running' <=> Running
  BY DEF Running, At, Actors, Kept
<1>3. Window' <=> Window
  BY DEF Window, Kept
<1> QED BY <1>1, <1>2, <1>3 DEF LastOk, Kept, IsLast

\* Nobody enters or leaves mark_xid_done().
LEMMA DoneFrame ==
    ASSUME DoneOk, UNCHANGED <<done, current, blog>>, Within(Marking)
    PROVE  DoneOk'
  BY DEF DoneOk, Within, InFile

\* Who holds the count of a rotated file
LEMMA HoldsFrame ==
    ASSUME UNCHANGED <<rotated, done>>, Kept({"done"})
    PROVE  \A a \in Threads : \A l : Holds(a, l)' <=> Holds(a, l)
  BY DEF Holds, Kept, HoldTo, Actors

\* keeps holding it.
LEMMA HoldFrame ==
    ASSUME HoldOk, UNCHANGED <<rotated, done, current>>, Kept({"done"})
    PROVE  HoldOk'
<1>1. \A a \in Threads : \A l : Holds(a, l)' <=> Holds(a, l)
  BY HoldsFrame
<1>2. \A a \in Threads : a \in Actors
  BY DEF Actors
<1> QED BY <1>1, <1>2 DEF HoldOk, Kept, HoldTo

\* The lists of notifications are not touched.
LEMMA ListsFrame ==
    ASSUME NEW q, NEW r, ListsOk(q, r),
           UNCHANGED <<bgVars, bg, log_requests, to_notify>>, flush_notify'.list = flush_notify.list,
           Kept({"notify"})
    PROVE  ListsOk(q, r)'
<1>1. \A a \in Threads : a \in Actors
  BY DEF Actors
<1> QED BY <1>1 DEF ListsOk, bgVars, IsChain, Kept, Distinct

\* Every rotated file stays where it is, while other threads may be done,
LEMMA PlacesStay ==
    ASSUME NEW at, NEW q, NEW r, PlacesOk(at, q, r),
           UNCHANGED <<bgVars, bg, log_requests, to_notify, rotated, current>>,
           flush_notify'.list = flush_notify.list, Kept({"request", "notify"}),
           done'[BG] = done[BG], pc'[BG] = "done" <=> pc[BG] = "done"
    PROVE  PlacesOk(at, q, r)'
<1>1. \A a \in Threads : a \in Actors
  BY DEF Actors
<1>2. ListsOk(q, r)'
  BY ListsFrame DEF PlacesOk, Kept
<1>3. ASSUME NEW l \in Logs PROVE PlaceOk(at, q, r, l)'
  <2>1. PlaceOk(at, q, r, l)
    BY DEF PlacesOk
  <2>2. \A a \in Threads : pc'[a] = "request" <=> pc[a] = "request"
    BY <1>1 DEF Kept
  <2> QED BY <2>1, <2>2 DEF PlaceOk
<1>4. \A a \in Threads : rotated[a] # 0 /\ pc'[a] \notin {"request", "notify"} =>
          at[rotated[a]] = "none"
  BY <1>1 DEF PlacesOk, Kept
<1> QED BY <1>2, <1>3, <1>4 DEF PlacesOk

\* or nobody at all moves.
LEMMA PlacesFrame ==
    ASSUME NEW at, NEW q, NEW r, PlacesOk(at, q, r),
           UNCHANGED <<bgVars, bg, log_requests, to_notify, rotated, done, current>>,
           flush_notify'.list = flush_notify.list,
           Kept({"request", "notify", "done"})
    PROVE  PlacesOk(at, q, r)'
<1>1. pc'[BG] = "done" <=> pc[BG] = "done"
  BY DEF Kept, Actors
<1>2. Kept({"request", "notify"})
  BY DEF Kept
<1> QED BY <1>1, <1>2, PlacesStay

\* A transaction that must unlog() is counted as before,
LEMMA CountedFrame ==
    ASSUME UNCHANGED <<done, group>>, Within(CountedLabels), Within(Marking), Within({"done"}),
           Within({"follow"}), Within({"write", "sync"})
    PROVE  \A t \in Trx : Counted(t)' <=> Counted(t)
<1> SUFFICES ASSUME NEW t \in Trx PROVE Counted(t)' <=> Counted(t)
  OBVIOUS
<1>1. \A a \in Threads : pc'[a] \notin {"write", "sync"} <=> pc[a] \notin {"write", "sync"}
  BY DEF Within, Actors
<1>2. t \in Actors
  BY DEF Actors, Threads
<1>3. /\ pc'[t] \in CountedLabels <=> pc[t] \in CountedLabels
      /\ pc'[t] = "follow" <=> pc[t] = "follow"
      /\ pc'[t] = "done" <=> pc[t] = "done"
      /\ pc'[t] \in Marking <=> pc[t] \in Marking
  BY <1>2 DEF Within
<1> QED BY <1>1, <1>3 DEF Counted

\* and so the counts are right as before.
LEMMA CountsFrame ==
    ASSUME NEW at, CountsOk(at), UNCHANGED <<xid_count, blog>>,
           \A t \in NeedUnlog : Counted(t)' <=> Counted(t),
           \A a \in Threads : \A l : Holds(a, l)' <=> Holds(a, l)
    PROVE  CountsOk(at)'
<1>1. \A l \in Logs : Unlogged(l)' = Unlogged(l)
  BY BinlogXaAssumption DEF Unlogged, InFile
<1>2. \A l \in Logs : (\E a \in Threads : Holds(a, l)') <=> (\E a \in Threads : Holds(a, l))
  OBVIOUS
<1> QED BY <1>1, <1>2 DEF CountsOk, Bit

\* A file left behind is done, or is still seen to by who did it before.
LEMMA LeftFrame ==
    ASSUME NEW at, LeftOk(at), UNCHANGED <<rotated, current>>,
           \A l \in 1..(current - 1) : DoneLog(l) => DoneLog(l)',
           Within({"next_stage", "order", "checkpoint"}), Within({"crashed"})
    PROVE  LeftOk(at)'
<1>1. \A a \in Threads : a \in Actors
  BY DEF Actors
<1>2. Running' <=> Running
  BY DEF Running, At, Actors, Within
<1> QED BY <1>1, <1>2 DEF LeftOk, Within

-----------------------------------------------------------------------------
(* Sets of numbers and sequences *)

\* A nonempty set of natural numbers has a least element.
LEMMA LeastNat ==
    ASSUME NEW T \in SUBSET Nat, T # {}
    PROVE  \E x \in T : \A y \in T : x <= y
<1> DEFINE R == OpToRel(<, Nat)
<1>1. IsWellFoundedOn(R, Nat)
  BY NatLessThanWellFounded
<1>2. PICK x \in T : \A y \in T : ~(<<y, x>> \in R)
  <2> HIDE DEF R
  <2> QED BY <1>1, WFMin
<1>3. \A y \in T : ~(y < x)
  BY <1>2 DEF OpToRel
<1> QED BY <1>3


\* The least element of a set of numbers,
LEMMA MinFacts ==
    ASSUME NEW T \in SUBSET Nat, T # {}
    PROVE  Min(T) \in T /\ \A y \in T : Min(T) <= y
<1>1. \E x \in T : \A y \in T : x <= y
  BY LeastNat
<1> QED BY <1>1 DEF Min

\* and the greatest one of a bounded set.
LEMMA MaxFacts ==
    ASSUME NEW T \in SUBSET Nat, T # {}, NEW n \in Nat, \A y \in T : y <= n
    PROVE  Max(T) \in T /\ \A y \in T : y <= Max(T)
<1> DEFINE U == {n - y : y \in T}
<1>1. U \in SUBSET Nat /\ U # {}
  <2>1. \A y \in T : n - y \in Nat
    OBVIOUS
  <2>2. PICK y \in T : TRUE
    OBVIOUS
  <2>3. n - y \in U
    OBVIOUS
  <2> QED BY <2>1, <2>3
<1>2. PICK u \in U : \A v \in U : u <= v
  <2> HIDE DEF U
  <2> QED BY <1>1, LeastNat
<1>3. PICK x \in T : u = n - x
  BY <1>2
<1>4. \A y \in T : x >= y
  <2> SUFFICES ASSUME NEW y \in T PROVE x >= y
    OBVIOUS
  <2>1. n - y \in U
    OBVIOUS
  <2>2. u <= n - y
    BY <1>2, <2>1
  <2> QED BY <1>3, <2>2
<1>5. \E z \in T : \A y \in T : z >= y
  BY <1>3, <1>4
<1>6. Max(T) \in T /\ \A y \in T : Max(T) >= y
  BY <1>5 DEF Max
<1> QED BY <1>6

\* The elements of a sequence.
LEMMA RangeFacts ==
    ASSUME NEW X, NEW s \in Seq(X)
    PROVE  /\ Range(s) \subseteq X /\ DOMAIN s = 1..Len(s) /\ Len(s) \in Nat
           /\ \A x : x \in Range(s) <=> \E i \in 1..Len(s) : s[i] = x
<1>1. DOMAIN s = 1..Len(s) /\ Len(s) \in Nat
  BY LenProperties
<1>2. \A x : x \in Range(s) <=> \E i \in 1..Len(s) : s[i] = x
  BY <1>1 DEF Range
<1>3. \A i \in 1..Len(s) : s[i] \in X
  BY ElementOfSeq
<1> QED BY <1>1, <1>2, <1>3

\* t begins with s
Extends(s, t) == Len(s) <= Len(t) /\ \A i \in 1..Len(s) : t[i] = s[i]

\* A sequence that is extended by another one,
LEMMA ConcatFacts ==
    ASSUME NEW X, NEW s \in Seq(X), NEW t \in Seq(X)
    PROVE  /\ s \o t \in Seq(X) /\ Extends(s, s \o t) /\ Len(s \o t) = Len(s) + Len(t)
           /\ \A i \in 1..Len(t) : (s \o t)[Len(s) + i] = t[i]
           /\ Range(s \o t) = Range(s) \cup Range(t)
           /\ Distinct(s) /\ Distinct(t) /\ Range(s) \cap Range(t) = {} => Distinct(s \o t)
<1> DEFINE u == s \o t
           m == Len(s)
           n == Len(t)
<1>1. /\ m \in Nat /\ n \in Nat /\ DOMAIN s = 1..m /\ DOMAIN t = 1..n
      /\ \A x : x \in Range(s) <=> \E i \in 1..m : s[i] = x
      /\ \A x : x \in Range(t) <=> \E i \in 1..n : t[i] = x
  BY RangeFacts
<1>2. u \in Seq(X) /\ Len(u) = m + n
      /\ \A i \in 1..(m + n) : u[i] = IF i <= m THEN s[i] ELSE t[i - m]
  BY ConcatProperties
<1>3. DOMAIN u = 1..(m + n) /\ \A x : x \in Range(u) <=> \E i \in 1..(m + n) : u[i] = x
  BY <1>2, RangeFacts
<1> HIDE DEF u, m, n
<1>4. \A i \in 1..m : u[i] = s[i]
  BY <1>1, <1>2
<1>5. \A i \in 1..n : u[m + i] = t[i]
  <2> SUFFICES ASSUME NEW i \in 1..n PROVE u[m + i] = t[i]
    OBVIOUS
  <2>1. PICK k \in 1..(m + n) : k = m + i /\ ~(k <= m) /\ k - m = i
    BY <1>1
  <2>2. u[k] = t[k - m]
    BY <1>1, <1>2, <2>1
  <2> QED BY <2>1, <2>2
<1>6. Range(u) = Range(s) \cup Range(t)
  <2>1. ASSUME NEW x \in Range(u) PROVE x \in Range(s) \cup Range(t)
    <3>1. PICK i \in 1..(m + n) : u[i] = x
      BY <1>3
    <3>2. CASE i <= m
      BY <1>1, <1>4, <3>1, <3>2
    <3>3. CASE ~(i <= m)
      <4>1. i - m \in 1..n /\ u[i] = t[i - m]
        BY <1>1, <1>2, <3>1, <3>3
      <4> QED BY <1>1, <3>1, <4>1
    <3> QED BY <3>2, <3>3
  <2>2. ASSUME NEW x \in Range(s) PROVE x \in Range(u)
    <3>1. PICK i \in 1..m : s[i] = x
      BY <1>1
    <3>2. i \in 1..(m + n) /\ u[i] = x
      BY <1>1, <1>4, <3>1
    <3> QED BY <1>3, <3>2
  <2>3. ASSUME NEW x \in Range(t) PROVE x \in Range(u)
    <3>1. PICK i \in 1..n : t[i] = x
      BY <1>1
    <3>2. m + i \in 1..(m + n) /\ u[m + i] = x
      BY <1>1, <1>5, <3>1
    <3> QED BY <1>3, <3>2
  <2> QED BY <2>1, <2>2, <2>3
<1>7. ASSUME Distinct(s), Distinct(t), Range(s) \cap Range(t) = {} PROVE Distinct(u)
  <2> SUFFICES ASSUME NEW i \in 1..(m + n), NEW j \in 1..(m + n), u[i] = u[j] PROVE i = j
    BY <1>3 DEF Distinct
  <2>1. CASE i <= m /\ j <= m
    <3>1. i \in 1..m /\ j \in 1..m /\ s[i] = s[j]
      BY <1>1, <1>4, <2>1
    <3> QED BY <1>1, <1>7, <3>1 DEF Distinct
  <2>2. CASE ~(i <= m) /\ ~(j <= m)
    <3>1. i - m \in 1..n /\ j - m \in 1..n /\ t[i - m] = t[j - m]
      BY <1>1, <1>2, <2>2
    <3>2. i - m = j - m
      BY <1>1, <1>7, <3>1 DEF Distinct
    <3> QED BY <1>1, <3>2
  <2>3. ASSUME NEW k \in 1..(m + n), NEW l \in 1..(m + n), k <= m, ~(l <= m), u[k] = u[l]
        PROVE FALSE
    <3>1. k \in 1..m /\ u[k] = s[k] /\ l - m \in 1..n /\ u[l] = t[l - m]
      BY <1>1, <1>2, <2>3
    <3>2. s[k] \in Range(s) /\ t[l - m] \in Range(t)
      BY <1>1, <3>1
    <3> QED BY <1>7, <2>3, <3>1, <3>2
  <2> QED BY <2>1, <2>2, <2>3
<1> QED BY <1>1, <1>2, <1>4, <1>5, <1>6, <1>7 DEF u, m, n, Extends

\* a sequence of one element,
LEMMA OneFacts ==
    ASSUME NEW X, NEW x \in X
    PROVE  <<x>> \in Seq(X) /\ Len(<<x>>) = 1 /\ <<x>>[1] = x /\ Range(<<x>>) = {x} /\ Distinct(<<x>>)
<1>1. <<x>> \in Seq(X) /\ Len(<<x>>) = 1 /\ <<x>>[1] = x
  OBVIOUS
<1>2. DOMAIN <<x>> = 1..1
  BY <1>1, LenProperties
<1> QED BY <1>1, <1>2 DEF Range, Distinct

\* and a sequence that is extended by an element.
LEMMA AppendFacts ==
    ASSUME NEW X, NEW s \in Seq(X), NEW x \in X
    PROVE  /\ Append(s, x) \in Seq(X) /\ Extends(s, Append(s, x)) /\ Len(Append(s, x)) = Len(s) + 1
           /\ Append(s, x)[Len(s) + 1] = x
           /\ Range(Append(s, x)) = Range(s) \cup {x}
           /\ Distinct(s) /\ x \notin Range(s) => Distinct(Append(s, x))
<1>1. Append(s, x) = s \o <<x>>
  BY AppendIsConcat
<1>2. <<x>> \in Seq(X) /\ Len(<<x>>) = 1 /\ <<x>>[1] = x /\ Range(<<x>>) = {x} /\ Distinct(<<x>>)
  BY OneFacts
<1>3. 1 \in 1..Len(<<x>>)
  BY <1>2
<1> QED BY <1>1, <1>2, <1>3, ConcatFacts

\* The first n elements of a sequence,
LEMMA FrontFacts ==
    ASSUME NEW X, NEW s \in Seq(X), NEW n \in 0..Len(s)
    PROVE  /\ SubSeq(s, 1, n) \in Seq(X) /\ Len(SubSeq(s, 1, n)) = n
           /\ \A i \in 1..n : SubSeq(s, 1, n)[i] = s[i]
<1>1. Len(s) \in Nat
  BY LenProperties
<1>2. \A i \in 1..n : s[i] \in X
  BY <1>1, ElementOfSeq
<1>3. /\ SubSeq(s, 1, n) \in Seq(X)
      /\ Len(SubSeq(s, 1, n)) = IF 1 <= n THEN n - 1 + 1 ELSE 0
      /\ \A i \in 1..(n - 1 + 1) : SubSeq(s, 1, n)[i] = s[1 + i - 1]
  BY <1>1, <1>2, SubSeqProperties
<1> QED BY <1>1, <1>3

\* and those after the first k.
LEMMA BackFacts ==
    ASSUME NEW X, NEW s \in Seq(X), NEW k \in 0..Len(s)
    PROVE  /\ SubSeq(s, k + 1, Len(s)) \in Seq(X) /\ Len(SubSeq(s, k + 1, Len(s))) = Len(s) - k
           /\ \A i \in 1..(Len(s) - k) : SubSeq(s, k + 1, Len(s))[i] = s[k + i]
<1>1. Len(s) \in Nat
  BY LenProperties
<1>2. \A i \in (k + 1)..Len(s) : s[i] \in X
  BY <1>1, ElementOfSeq
<1>3. /\ SubSeq(s, k + 1, Len(s)) \in Seq(X)
      /\ Len(SubSeq(s, k + 1, Len(s))) = IF k + 1 <= Len(s) THEN Len(s) - (k + 1) + 1 ELSE 0
      /\ \A i \in 1..(Len(s) - (k + 1) + 1) : SubSeq(s, k + 1, Len(s))[i] = s[k + 1 + i - 1]
  BY <1>1, <1>2, SubSeqProperties
<1> QED BY <1>1, <1>3

\* SetToSeq() lists each element of a finite set once.
LEMMA EnumFacts ==
    ASSUME NEW S, IsFiniteSet(S)
    PROVE  SetToSeq(S) \in Seq(S) /\ Range(SetToSeq(S)) = S /\ Distinct(SetToSeq(S))
<1> DEFINE n == Cardinality(S)
           s == SetToSeq(S)
<1>1. n \in Nat
  BY FS_CardinalityType
<1>2. ExistsBijection(1..n, S)
  BY FS_CardinalityType
<1>3. PICK f \in Bijection(1..n, S) : TRUE
  BY <1>2 DEF ExistsBijection
<1>4. f \in [1..n -> S] /\ \A a, b \in 1..n : f[a] = f[b] => a = b
  BY <1>3 DEF Bijection, Injection, IsInjective
<1>5. f \in [1..n -> S] /\ IsInjective(f)
  BY <1>4 DEF IsInjective
<1>6. s \in [1..n -> S] /\ IsInjective(s)
  BY <1>5 DEF SetToSeq
<1> HIDE DEF s, n
<1>7. s \in Seq(S) /\ DOMAIN s = 1..n
  BY <1>1, <1>6
<1>8. Distinct(s)
  BY <1>6, <1>7 DEF Distinct, IsInjective
<1>9. s \in Injection(1..n, S)
  BY <1>6 DEF Injection
<1>10. Range(s) = S
  <2>1. Range(s) \subseteq S
    BY <1>6 DEF Range
  <2>2. IsFiniteSet(1..n) /\ Cardinality(1..n) = n
    BY <1>1, FS_Interval
  <2>3. s \in Surjection(1..n, Range(s))
    BY <1>6 DEF Surjection, Range
  <2> QED BY <1>1, <1>6, <1>9, <2>1, <2>2, <2>3, FS_Injection DEF n, Surjection, Range
<1> QED BY <1>7, <1>8, <1>10 DEF s

\* A sequence with one element in front of it.
LEMMA FirstFacts ==
    ASSUME NEW X, NEW o \in Seq(X), NEW s \in Seq(X), NEW x, Len(o) = 1, o[1] = x, Range(o) = {x}, Distinct(o)
    PROVE  /\ o \o s \in Seq(X) /\ Len(o \o s) = 1 + Len(s) /\ (o \o s)[1] = x
           /\ \A i \in 1..Len(s) : (o \o s)[1 + i] = s[i]
           /\ Range(o \o s) = {x} \cup Range(s)
           /\ Distinct(s) /\ x \notin Range(s) => Distinct(o \o s)
<1>0. o \o s \in Seq(X)
  BY ConcatFacts
<1>5. Extends(o, o \o s)
  BY ConcatFacts
<1>6. Len(o \o s) = Len(o) + Len(s)
  BY ConcatFacts
<1>7. Range(o \o s) = Range(o) \cup Range(s)
  BY ConcatFacts
<1>1. o \o s \in Seq(X) /\ Extends(o, o \o s) /\ Len(o \o s) = Len(o) + Len(s)
      /\ Range(o \o s) = Range(o) \cup Range(s)
  BY <1>0, <1>5, <1>6, <1>7
<1>2. \A i \in 1..Len(s) : (o \o s)[1 + i] = s[i]
  BY ConcatFacts
<1>3. (o \o s)[1] = x
  BY <1>1 DEF Extends
<1>4. Distinct(s) /\ x \notin Range(s) => Distinct(o \o s)
  BY ConcatFacts
<1> QED BY <1>1, <1>2, <1>3, <1>4

\* What is put in front of a list.
LEMMA ConsFacts ==
    ASSUME NEW X, NEW s \in Seq(X), NEW x \in X, NEW p, p = <<x>> \o s
    PROVE  /\ p \in Seq(X) /\ Len(p) = 1 + Len(s) /\ p[1] = x
           /\ \A i \in 1..Len(s) : p[1 + i] = s[i]
           /\ Range(p) = {x} \cup Range(s)
           /\ Distinct(s) /\ x \notin Range(s) => Distinct(p)
<1>1. PICK o : o = <<x>>
  OBVIOUS
<1>2. o \in Seq(X) /\ Len(o) = 1 /\ o[1] = x /\ Range(o) = {x} /\ Distinct(o)
  BY <1>1, OneFacts
<1>3. p = o \o s
  BY <1>1, Zenon
<1> QED BY <1>2, <1>3, FirstFacts
-----------------------------------------------------------------------------
(* Threads, labels and logs that grow *)

\* Transactions, the thread that rotates and the background thread are all
\* different.
LEMMA Who ==
    /\ \A a \in Threads : a \in Actors /\ a # BG
    /\ \A t \in Trx : t \in Threads /\ t \in Actors /\ t # FLUSHER /\ t # BG
    /\ FLUSHER \in Threads /\ BG \in Actors /\ FLUSHER # BG /\ BG \notin Threads
    /\ NONE \notin Actors
    /\ \A a \in Actors : a \in Trx \/ a = FLUSHER \/ a = BG
    /\ \A a \in Threads : a \in Trx \/ a = FLUSHER
  BY BinlogXaAssumption DEF Threads, Actors

\* Goto() moves one thread.
LEMMA GotoFacts ==
    ASSUME XaTypes, NEW a \in Actors, NEW x, Goto(a, x)
    PROVE  pc'[a] = x /\ \A b \in Actors : b # a => pc'[b] = pc[b]
<1>1. pc \in [Actors -> TrxLabels \cup BgLabels]
  BY DEF XaTypes
<1> QED BY <1>1 DEF Goto

\* What a step of one thread from label x to label y leaves alone.
LEMMA GotoKept ==
    ASSUME NEW a \in Actors, \A b \in Actors : b # a => pc'[b] = pc[b],
           NEW S, pc[a] \notin S, pc'[a] \notin S
    PROVE  Kept(S)
  BY DEF Kept

\* A group is a sequence of transactions.
LEMMA GroupTypes ==
    ASSUME XaTypes, NEW a \in Threads
    PROVE  /\ group[a] \in Seq(Trx) /\ Range(group[a]) \subseteq Trx
           /\ DOMAIN group[a] = 1..Len(group[a]) /\ Len(group[a]) \in Nat
<1>1. group[a] \in Seq(Trx)
  BY DEF XaTypes
<1> QED BY <1>1, RangeFacts

\* Records of InnoDB's log stay when it grows or is flushed further.
LEMMA Grows ==
    ASSUME XaTypes, XaTypes', Extends(elog, elog'), flushed <= flushed'
    PROVE  /\ \A k, t : InEngine(k, t) => InEngine(k, t)'
           /\ \A k, t : Durable(k, t) => Durable(k, t)'
           /\ \A l : blog'[l] = blog[l] => Stays(l) /\ (DoneLog(l) => DoneLog(l)')
<1>1. Len(elog) \in Nat /\ DOMAIN elog = 1..Len(elog) /\ flushed \in Nat /\ flushed <= Len(elog)
  BY DiskTypes
<1>2. elog' \in Seq(EngineRecords) /\ flushed' \in 0..Len(elog')
  BY DEF XaTypes
<1>3. Len(elog') \in Nat /\ DOMAIN elog' = 1..Len(elog')
  BY <1>2, LenProperties
<1>4. \A i \in DOMAIN elog : i \in DOMAIN elog' /\ elog'[i] = elog[i]
  BY <1>1, <1>3 DEF Extends
<1>5. \A k, t : InEngine(k, t) => InEngine(k, t)'
  BY <1>4 DEF InEngine, Range
<1>6. \A k, t : Durable(k, t) => Durable(k, t)'
  <2> SUFFICES ASSUME NEW k, NEW t, Durable(k, t) PROVE Durable(k, t)'
    OBVIOUS
  <2>1. PICK i \in 1..flushed : elog[i] = EngineRecord(k, t)
    BY DEF Durable
  <2>2. i \in DOMAIN elog /\ i \in 1..flushed'
    BY <1>1, <1>2, <1>3
  <2> QED BY <1>4, <2>1, <2>2 DEF Durable, EngineRecord
<1>7. ASSUME NEW l, blog'[l] = blog[l], NEW n, CommitBy(l, n) PROVE CommitBy(l, n)'
  BY <1>4, <1>7 DEF CommitBy, InFile
<1>8. ASSUME NEW l, blog'[l] = blog[l], DoneLog(l) PROVE DoneLog(l)'
  <2>1. PICK n : n = flushed
    OBVIOUS
  <2>2. CommitBy(l, n)'
    BY <1>7, <1>8, <2>1 DEF DoneLog
  <2> SUFFICES ASSUME NEW t \in Trx, InFile(t, l)'
               PROVE  \E i \in DOMAIN elog' : i <= flushed' /\ elog'[i] = EngineRecord("commit", t)
    BY DEF DoneLog, CommitBy
  <2>3. PICK i \in DOMAIN elog' : i <= n /\ elog'[i] = EngineRecord("commit", t)
    BY <2>2 DEF CommitBy
  <2>4. i <= flushed'
    BY <1>1, <1>2, <1>3, <2>1, <2>3
  <2> QED BY <2>3, <2>4
<1> QED BY <1>5, <1>6, <1>7, <1>8 DEF Stays

\* Checkpoints stay safe when more is committed or flushed.
LEMMA CheckpointsGrow ==
    ASSUME XaTypes, CheckpointsOk, UNCHANGED <<blog, current>>,
           \A l : DoneLog(l) => DoneLog(l)'
    PROVE  CheckpointsOk'
  BY DEF CheckpointsOk

\* What is durable is in the log.
LEMMA DurableIn ==
    ASSUME XaTypes, NEW k, NEW t, Durable(k, t)
    PROVE  InEngine(k, t)
<1>1. Len(elog) \in Nat /\ DOMAIN elog = 1..Len(elog) /\ flushed \in Nat /\ flushed <= Len(elog)
  BY DiskTypes
<1> QED BY <1>1 DEF Durable, InEngine, Range

\* InnoDB's log gets the records of s, none of which it has yet.
LEMMA ElogGrows ==
    ASSUME XaTypes, NEW s \in Seq(EngineRecords), elog' = elog \o s
    PROVE  /\ elog' \in Seq(EngineRecords) /\ Extends(elog, elog') /\ Len(elog) <= Len(elog')
           /\ \A k, t : InEngine(k, t)' <=> InEngine(k, t) \/ EngineRecord(k, t) \in Range(s)
           /\ Distinct(elog) /\ Distinct(s) /\ Range(elog) \cap Range(s) = {} => Distinct(elog')
           /\ Len(elog') = Len(elog) + Len(s)
<1>1. elog \in Seq(EngineRecords)
  BY DEF XaTypes
<1>2. Range(elog') = Range(elog) \cup Range(s)
  BY <1>1, ConcatFacts
<1>3. \A k, t : InEngine(k, t)' <=> InEngine(k, t) \/ EngineRecord(k, t) \in Range(s)
  BY <1>2 DEF InEngine, EngineRecord
<1> QED BY <1>1, <1>3, ConcatFacts DEF Extends

\* Records of the binlog differ if their transactions or kinds do,
LEMMA XidIs ==
    \A t, u, c : Xid(t) # Checkpoint(c) /\ (Xid(t) = Xid(u) => t = u) /\ Xid(t).type # "checkpoint"
                 /\ Checkpoint(c).type = "checkpoint" /\ Checkpoint(c).arg = c
                 /\ (Checkpoint(c) = Checkpoint(u) => c = u)
  BY DEF Xid, Checkpoint

\* and so do those of InnoDB's log.
LEMMA EngineIs ==
    \A k, t, j, u : EngineRecord(k, t) = EngineRecord(j, u) => k = j /\ t = u
  BY DEF EngineRecord

\* the records of a group, in the binlog and in InnoDB's log
LEMMA XidsFacts ==
    ASSUME NEW g \in Seq(Trx), NEW s, s = [i \in DOMAIN g |-> Xid(g[i])]
    PROVE  /\ s \in Seq(LogRecords) /\ Len(s) = Len(g)
           /\ \A i \in 1..Len(s) : g[i] \in Range(g) /\ s[i] = Xid(g[i])
           /\ \A t : Xid(t) \in Range(s) <=> t \in Range(g)
<1>1. DOMAIN g = 1..Len(g) /\ Len(g) \in Nat /\ \A i \in 1..Len(g) : g[i] \in Trx
  BY RangeFacts DEF Range
<1>2. s \in [1..Len(g) -> LogRecords]
  BY <1>1 DEF Xid, LogRecords
<1>3. s \in Seq(LogRecords) /\ Len(s) = Len(g) /\ DOMAIN s = 1..Len(g)
  BY <1>1, <1>2
<1>4. \A i \in 1..Len(s) : g[i] \in Range(g) /\ s[i] = Xid(g[i])
  BY <1>1, <1>3 DEF Range
<1>5. \A t : Xid(t) \in Range(s) <=> t \in Range(g)
  BY <1>1, <1>3, <1>4, XidIs DEF Range
<1> QED BY <1>3, <1>4, <1>5

\* The commit records of a group.
LEMMA CommitsFacts ==
    ASSUME NEW g \in Seq(Trx), NEW s, s = [i \in DOMAIN g |-> EngineRecord("commit", g[i])]
    PROVE  /\ s \in Seq(EngineRecords) /\ Len(s) = Len(g)
           /\ \A k, t : EngineRecord(k, t) \in Range(s) <=> k = "commit" /\ t \in Range(g)
           /\ \A i \in 1..Len(g) : s[i] = EngineRecord("commit", g[i])
           /\ Distinct(g) => Distinct(s)
<1>1. DOMAIN g = 1..Len(g) /\ Len(g) \in Nat /\ \A i \in 1..Len(g) : g[i] \in Trx
  BY RangeFacts DEF Range
<1>2. s \in [1..Len(g) -> EngineRecords]
  BY <1>1 DEF EngineRecord, EngineRecords
<1>3. s \in Seq(EngineRecords) /\ Len(s) = Len(g) /\ DOMAIN s = 1..Len(g)
  BY <1>1, <1>2
<1>4. \A i \in 1..Len(g) : s[i] = EngineRecord("commit", g[i])
  BY <1>1
<1>5. \A k, t : EngineRecord(k, t) \in Range(s) <=> k = "commit" /\ t \in Range(g)
  BY <1>1, <1>3, <1>4, EngineIs DEF Range
<1>6. Distinct(g) => Distinct(s)
  BY <1>1, <1>3, <1>4, EngineIs DEF Distinct
<1> QED BY <1>3, <1>4, <1>5, <1>6

\* Goto() leads to a label.
LEMMA GotoType ==
    ASSUME XaTypes, NEW a \in Actors, NEW x \in TrxLabels \cup BgLabels, Goto(a, x)
    PROVE  pc' \in [Actors -> TrxLabels \cup BgLabels]
<1>1. pc \in [Actors -> TrxLabels \cup BgLabels]
  BY DEF XaTypes
<1> QED BY <1>1 DEF Goto

\* LOCK_log and LOCK_after_binlog_sync have one holder.
LEMMA OnlyHolder ==
    ASSUME LocksOk, NEW a \in Actors, pc[a] \in LogHolders
    PROVE  LOCK_log = a /\ \A b \in Actors : b # a => pc[b] \notin LogHolders
  BY DEF LocksOk

\* LOCK_after_binlog_sync has one holder.
LEMMA OnlyOrder ==
    ASSUME LocksOk, NEW a \in Actors, pc[a] = "order"
    PROVE  \A b \in Actors : b # a => pc[b] # "order"
  BY DEF LocksOk

\* Only who has LOCK_log, and is between the new index and the new list
\* entry, sees a current file that is not the last one of the index.
LEMMA IndexedIs ==
    ASSUME XaTypes, IndexOk, \A a \in Threads : pc[a] # "rotate_list"
    PROVE  indexed = current
  BY DEF IndexOk

\* A request is about a file before the current one.
LEMMA ListLogs ==
    ASSUME XaTypes, TokensOk
    PROVE  \A i \in DOMAIN log_requests : log_requests[i].log < current
<1>1. PICK at \in [Logs -> Places], q \in Seq(Logs), r \in Seq(Logs) :
        PlacesOk(at, q, r) /\ CountsOk(at) /\ LeftOk(at)
  BY DEF TokensOk
<1> SUFFICES ASSUME NEW i \in DOMAIN log_requests PROVE log_requests[i].log < current
  OBVIOUS
<1>2. log_requests \in Seq(Requests)
  BY DEF XaTypes
<1>3. log_requests[i] \in Requests
  BY <1>2
<1>4. PICK l \in Logs : l = log_requests[i].log
  BY <1>3 DEF Requests
<1>5. at[l] = "list" /\ (at[l] # "none" => l < current)
  BY <1>1, <1>4 DEF PlacesOk, PlaceOk
<1> QED BY <1>4, <1>5

\* What is counted is finite,
LEMMA UnloggedFinite ==
    \A l : IsFiniteSet(Unlogged(l)) /\ Cardinality(Unlogged(l)) \in Nat
<1> SUFFICES ASSUME NEW l PROVE IsFiniteSet(Unlogged(l)) /\ Cardinality(Unlogged(l)) \in Nat
  OBVIOUS
<1>1. IsFiniteSet(Trx) /\ Unlogged(l) \in SUBSET Trx
  BY BinlogXaAssumption DEF Unlogged
<1> QED BY <1>1, FS_Subset, FS_CardinalityType

\* as is every set of transactions.
LEMMA GroupFinite ==
    \A S \in SUBSET Trx : IsFiniteSet(S) /\ Cardinality(S) \in Nat
<1> SUFFICES ASSUME NEW S \in SUBSET Trx PROVE IsFiniteSet(S) /\ Cardinality(S) \in Nat
  OBVIOUS
<1> QED BY BinlogXaAssumption, FS_Subset, FS_CardinalityType

\* A file that is left behind and has nothing pending has been committed.
LEMMA ZeroDone ==
    ASSUME XaTypes, TokensOk, Running, NEW l \in Logs, l < current, xid_count[l] = 0
    PROVE  DoneLog(l)
<1>1. PICK at \in [Logs -> Places], q \in Seq(Logs), r \in Seq(Logs) :
        PlacesOk(at, q, r) /\ CountsOk(at) /\ LeftOk(at)
  BY DEF TokensOk
<1>2. Cardinality(Unlogged(l)) \in Nat
  BY UnloggedFinite
<1>3. xid_count[l] = Cardinality(Unlogged(l)) + Bit(\E a \in Threads : Holds(a, l)) + Bit(at[l] # "none")
  BY <1>1 DEF CountsOk
<1>4. at[l] = "none" /\ ~(\E a \in Threads : Holds(a, l))
  BY <1>2, <1>3 DEF Bit
<1>5. l \in 1..(current - 1)
  BY DiskTypes DEF Logs
<1> QED BY <1>1, <1>4, <1>5 DEF LeftOk, Holds

\* A count that somebody holds is positive.
LEMMA HeldCount ==
    ASSUME XaTypes, TokensOk, NEW l \in Logs, NEW a \in Threads, Holds(a, l)
    PROVE  xid_count[l] > 0
<1>1. PICK at \in [Logs -> Places], q \in Seq(Logs), r \in Seq(Logs) :
        PlacesOk(at, q, r) /\ CountsOk(at) /\ LeftOk(at)
  BY DEF TokensOk
<1>2. Cardinality(Unlogged(l)) \in Nat
  BY UnloggedFinite
<1>3. xid_count[l] = Cardinality(Unlogged(l)) + Bit(\E b \in Threads : Holds(b, l)) + Bit(at[l] # "none")
  BY <1>1 DEF CountsOk
<1> QED BY <1>2, <1>3 DEF Bit
-----------------------------------------------------------------------------
(* The actions: the invariant is kept by each of them *)

\* Rotated files, counts and lists are not touched.
LEMMA TokensFrame ==
    ASSUME TokensOk,
           UNCHANGED <<xid_count, blog, bgVars, bg, log_requests, to_notify,
                       rotated, done, current>>,
           flush_notify'.list = flush_notify.list,
           Kept({"request", "notify", "done"}),
           \A t \in NeedUnlog : Counted(t)' <=> Counted(t),
           \A at : LeftOk(at) => LeftOk(at)'
    PROVE  TokensOk'
<1>1. PICK at \in [Logs -> Places], q \in Seq(Logs), r \in Seq(Logs) :
        PlacesOk(at, q, r) /\ CountsOk(at) /\ LeftOk(at)
  BY DEF TokensOk
<1>2. PlacesOk(at, q, r)'
  BY <1>1, PlacesFrame
<1>3. CountsOk(at)'
  <2>1. \A a \in Threads : \A l : Holds(a, l)' <=> Holds(a, l)
    BY HoldsFrame DEF Kept
  <2> QED BY <1>1, <2>1, CountsFrame
<1>4. LeftOk(at)'
  BY <1>1
<1> QED BY <1>2, <1>3, <1>4 DEF TokensOk

\* LogsOf(Complete(..)) and Rest(..) cut the list of requests in two.
LEMMA CompleteFacts ==
    ASSUME NEW s \in Seq(Requests), NEW n \in Nat
    PROVE  \E k \in 0..Len(s) :
             /\ LogsOf(Complete(s, n)) \in Seq(Logs) /\ Len(LogsOf(Complete(s, n))) = k
             /\ \A i \in 1..k : LogsOf(Complete(s, n))[i] = s[i].log /\ s[i].lsn <= n
             /\ Rest(s, n) \in Seq(Requests) /\ Len(Rest(s, n)) = Len(s) - k
             /\ \A i \in 1..(Len(s) - k) : Rest(s, n)[i] = s[k + i]
             /\ Rest(s, n) = <<>> \/ Rest(s, n)[1].lsn > n
<1> DEFINE T == {i \in 0..Len(s) : \A j \in 1..i : s[j].lsn <= n}
<1>1. Len(s) \in Nat
  BY LenProperties
<1>2. T \in SUBSET Nat /\ T # {} /\ \A y \in T : y <= Len(s)
  <2>1. 0 \in T
    BY <1>1
  <2> QED BY <1>1, <2>1
<1>3. PICK k \in T : k = Max(T) /\ \A y \in T : y <= k
  <2> HIDE DEF T
  <2> QED BY <1>1, <1>2, MaxFacts
<1>4. k \in 0..Len(s) /\ k \in Nat /\ \A j \in 1..k : s[j].lsn <= n
  BY <1>1, <1>3
<1>5. k < Len(s) => s[k + 1].lsn > n
  <2> SUFFICES ASSUME k < Len(s), ~(s[k + 1].lsn > n) PROVE FALSE
    OBVIOUS
  <2>1. k + 1 \in 1..Len(s)
    BY <1>1, <1>4
  <2>2. s[k + 1] \in Requests
    BY <2>1, ElementOfSeq
  <2>3. s[k + 1].lsn <= n
    BY <2>2 DEF Requests
  <2>4. \A j \in 1..(k + 1) : s[j].lsn <= n
    <3> SUFFICES ASSUME NEW j \in 1..(k + 1) PROVE s[j].lsn <= n
      OBVIOUS
    <3>1. CASE j = k + 1
      BY <2>3, <3>1
    <3>2. CASE j # k + 1
      <4>1. j \in 1..k
        BY <1>4, <3>2
      <4> QED BY <1>4, <4>1
    <3> QED BY <3>1, <3>2
  <2>5. k + 1 \in T
    BY <1>1, <1>4, <2>1, <2>4
  <2> QED BY <1>3, <1>4, <2>5
<1>6. Complete(s, n) = SubSeq(s, 1, k)
  BY <1>3 DEF Complete
<1> HIDE DEF T
<1>7. SubSeq(s, 1, k) \in Seq(Requests) /\ Len(SubSeq(s, 1, k)) = k /\ \A i \in 1..k : SubSeq(s, 1, k)[i] = s[i]
  BY <1>4, FrontFacts
<1>8. LogsOf(Complete(s, n)) \in Seq(Logs) /\ Len(LogsOf(Complete(s, n))) = k
      /\ \A i \in 1..k : LogsOf(Complete(s, n))[i] = s[i].log
  <2> DEFINE c == Complete(s, n)
  <2>1. c \in Seq(Requests) /\ Len(c) = k /\ \A i \in 1..k : c[i] = s[i]
    BY <1>6, <1>7
  <2> HIDE DEF c
  <2>2. DOMAIN c = 1..k
    BY <2>1, LenProperties
  <2>3. \A i \in 1..k : c[i].log \in Logs
    <3> SUFFICES ASSUME NEW i \in 1..k PROVE c[i].log \in Logs
      OBVIOUS
    <3>1. c[i] \in Requests
      BY <2>1, ElementOfSeq
    <3> QED BY <3>1 DEF Requests
  <2>4. LogsOf(c) \in [1..k -> Logs] /\ \A i \in 1..k : LogsOf(c)[i] = c[i].log
    BY <2>2, <2>3 DEF LogsOf
  <2>5. LogsOf(c) \in Seq(Logs) /\ Len(LogsOf(c)) = k
    BY <1>4, <2>4
  <2> QED BY <2>1, <2>4, <2>5 DEF c
<1>9. Rest(s, n) = SubSeq(s, k + 1, Len(s))
  BY <1>6, <1>7 DEF Rest
<1>10. Rest(s, n) \in Seq(Requests) /\ Len(Rest(s, n)) = Len(s) - k
       /\ \A i \in 1..(Len(s) - k) : Rest(s, n)[i] = s[k + i]
  BY <1>4, <1>9, BackFacts
<1>11. Rest(s, n) = <<>> \/ Rest(s, n)[1].lsn > n
  <2>1. CASE k < Len(s)
    <3>1. 1 \in 1..(Len(s) - k)
      BY <1>1, <1>4, <2>1
    <3> QED BY <1>5, <1>10, <2>1, <3>1
  <2>2. CASE ~(k < Len(s))
    <3>1. Len(Rest(s, n)) = 0
      BY <1>1, <1>4, <1>10, <2>2
    <3> QED BY <1>10, <3>1, EmptySeq
  <2> QED BY <2>1, <2>2
<1> QED BY <1>4, <1>8, <1>10, <1>11

\* commit_checkpoint_notify() puts an entry that is in neither list at the
\* front of the background thread's queue.
LEMMA NotifyFacts ==
    ASSUME next_in_queue \in [Logs -> 0..MaxLogs],
           NEW q \in Seq(Logs), NEW r \in Seq(Logs), IsChain(q, bg_queue), IsChain(r, bg), Distinct(q),
           NEW l \in Logs, l \notin Range(q), l \notin Range(r), Notify(l), bg' = bg,
           NEW p, p = <<l>> \o q
    PROVE  p \in Seq(Logs) /\ IsChain(p, bg_queue)' /\ IsChain(r, bg)' /\ Distinct(p)
           /\ Range(p) = Range(q) \cup {l}
<1>2. p \in Seq(Logs) /\ Len(p) = 1 + Len(q) /\ p[1] = l
      /\ (\A i \in 1..Len(q) : p[1 + i] = q[i])
      /\ Range(p) = Range(q) \cup {l} /\ Distinct(p)
  <2>1. p \in Seq(Logs) /\ Len(p) = 1 + Len(q) /\ p[1] = l
    BY ConsFacts
  <2>2. \A i \in 1..Len(q) : p[1 + i] = q[i]
    BY ConsFacts
  <2>3. Range(p) = {l} \cup Range(q)
    BY ConsFacts
  <2>4. Distinct(q) /\ l \notin Range(q) => Distinct(p)
    BY ConsFacts
  <2> QED BY <2>1, <2>2, <2>3, <2>4
<1>3. p[1] = l
  BY <1>2
<1>4. bg_queue' = l /\ next_in_queue'[l] = bg_queue /\ \A m \in Logs : m # l => next_in_queue'[m] = next_in_queue[m]
  BY DEF Notify
<1>5. DOMAIN q = 1..Len(q) /\ Len(q) \in Nat /\ DOMAIN p = 1..Len(p) /\ Len(p) \in Nat
      /\ DOMAIN r = 1..Len(r) /\ Len(r) \in Nat
      /\ (\A i \in 1..Len(q) : q[i] \in Logs /\ q[i] # l) /\ (\A i \in 1..Len(r) : r[i] \in Logs /\ r[i] # l)
  BY <1>2, RangeFacts
<1>6. IsChain(r, bg)'
  BY <1>4, <1>5 DEF IsChain
<1>7. p # <<>>
  BY <1>2, <1>5
<1>8. ASSUME NEW i \in 1..Len(p) PROVE next_in_queue'[p[i]] = IF i = Len(p) THEN 0 ELSE p[i + 1]
  <2>1. CASE i = 1
    <3>1. CASE Len(q) = 0
      <4>1. q = <<>>
        BY <3>1, EmptySeq
      <4> QED BY <1>2, <1>3, <1>4, <2>1, <3>1, <4>1 DEF IsChain
    <3>2. CASE Len(q) # 0
      <4>1. q # <<>> /\ 1 \in 1..Len(q) /\ i # Len(p)
        BY <1>2, <1>5, <2>1, <3>2
      <4>2. p[i + 1] = q[1]
        BY <1>2, <2>1, <4>1
      <4> QED BY <1>3, <1>4, <2>1, <4>1, <4>2 DEF IsChain
    <3> QED BY <3>1, <3>2
  <2>2. CASE i # 1
    <3>1. PICK j \in 1..Len(q) : i = 1 + j
      <4>1. i - 1 \in 1..Len(q) /\ i = 1 + (i - 1)
        BY <1>2, <1>5, <2>2
      <4> QED BY <4>1
    <3>2. p[i] = q[j] /\ next_in_queue'[q[j]] = next_in_queue[q[j]]
      BY <1>2, <1>4, <1>5, <3>1
    <3>3. next_in_queue[q[j]] = IF j = Len(q) THEN 0 ELSE q[j + 1]
      BY <1>5 DEF IsChain
    <3>4. j # Len(q) => j + 1 \in 1..Len(q) /\ i + 1 = 1 + (j + 1)
      <4>1. Len(q) \in Nat
        BY <1>5
      <4> QED BY <3>1, <4>1
    <3>5. j # Len(q) => p[i + 1] = q[j + 1]
      BY <1>2, <3>4
    <3>6. i = Len(p) <=> j = Len(q)
      <4>1. Len(q) \in Nat /\ Len(p) = 1 + Len(q)
        BY <1>2, <1>5
      <4> QED BY <3>1, <4>1
    <3> QED BY <3>2, <3>3, <3>5, <3>6
  <2> QED BY <2>1, <2>2
<1>9. IsChain(p, bg_queue)'
  BY <1>3, <1>4, <1>5, <1>7, <1>8 DEF IsChain
<1> QED BY <1>2, <1>6, <1>9

\* The head of a list that is consumed.
LEMMA TailFacts ==
    ASSUME NEW X, NEW s \in Seq(X), s # <<>>
    PROVE  /\ Tail(s) \in Seq(X) /\ Head(s) \in X /\ Head(s) = s[1] /\ Len(Tail(s)) = Len(s) - 1
           /\ Len(s) \in Nat \ {0} /\ DOMAIN Tail(s) = 1..(Len(s) - 1)
           /\ \A i \in 1..(Len(s) - 1) : Tail(s)[i] = s[i + 1]
           /\ Distinct(s) => Distinct(Tail(s)) /\ Range(Tail(s)) = Range(s) \ {Head(s)}
<1>1. Len(s) \in Nat \ {0} /\ DOMAIN s = 1..Len(s)
  BY EmptySeq, LenProperties
<1>2. /\ Tail(s) \in Seq(X) /\ Head(s) \in X /\ Head(s) = s[1] /\ Len(Tail(s)) = Len(s) - 1
      /\ \A i \in 1..(Len(s) - 1) : Tail(s)[i] = s[i + 1]
  BY <1>1, HeadTailProperties, ElementOfSeq
<1>3. DOMAIN Tail(s) = 1..(Len(s) - 1)
  BY <1>2, LenProperties
<1>4. ASSUME Distinct(s) PROVE Distinct(Tail(s)) /\ Range(Tail(s)) = Range(s) \ {Head(s)}
  <2>1. Distinct(Tail(s))
    <3> SUFFICES ASSUME NEW i \in 1..(Len(s) - 1), NEW j \in 1..(Len(s) - 1), Tail(s)[i] = Tail(s)[j] PROVE i = j
      BY <1>3 DEF Distinct
    <3>1. i + 1 \in DOMAIN s /\ j + 1 \in DOMAIN s /\ s[i + 1] = s[j + 1]
      BY <1>1, <1>2
    <3>2. i + 1 = j + 1
      BY <1>4, <3>1 DEF Distinct
    <3> QED BY <3>2
  <2>2. ASSUME NEW x \in Range(Tail(s)) PROVE x \in Range(s) \ {Head(s)}
    <3>1. PICK i \in 1..(Len(s) - 1) : Tail(s)[i] = x
      BY <1>3 DEF Range
    <3>2. i + 1 \in DOMAIN s /\ s[i + 1] = x /\ 1 \in DOMAIN s /\ i + 1 # 1
      BY <1>1, <1>2, <3>1
    <3>3. x # s[1]
      BY <1>4, <3>2 DEF Distinct
    <3> QED BY <1>2, <3>2, <3>3 DEF Range
  <2>3. ASSUME NEW x \in Range(s) \ {Head(s)} PROVE x \in Range(Tail(s))
    <3>1. PICK i \in DOMAIN s : s[i] = x
      BY DEF Range
    <3>2. i # 1
      BY <1>2, <3>1
    <3>3. PICK j \in 1..(Len(s) - 1) : i = j + 1
      <4>1. i - 1 \in 1..(Len(s) - 1) /\ i = (i - 1) + 1
        BY <1>1, <3>2
      <4> QED BY <4>1
    <3> QED BY <1>2, <1>3, <3>1, <3>3 DEF Range
  <2> QED BY <2>1, <2>2, <2>3
<1> QED BY <1>1, <1>2, <1>3, <1>4

-----------------------------------------------------------------------------
(* The entry of a rotated file moves on *)

\* A request that is somewhere stays counted, wherever it moves.
LEMMA CountsMove ==
    ASSUME NEW at, NEW bt, CountsOk(at), UNCHANGED <<xid_count, blog>>,
           \A t \in NeedUnlog : Counted(t)' <=> Counted(t),
           \A l \in Logs : (\E a \in Threads : Holds(a, l)') <=> (\E a \in Threads : Holds(a, l)),
           \A l \in Logs : bt[l] # "none" <=> at[l] # "none"
    PROVE  CountsOk(bt)'
<1>1. \A l \in Logs : Unlogged(l)' = Unlogged(l)
  BY BinlogXaAssumption DEF Unlogged, InFile
<1> SUFFICES ASSUME NEW l \in Logs
             PROVE  xid_count'[l] = Cardinality(Unlogged(l)') + Bit(\E a \in Threads : Holds(a, l)') + Bit(bt[l] # "none")
  BY DEF CountsOk, Bit
<1>2. xid_count[l] = Cardinality(Unlogged(l)) + Bit(\E a \in Threads : Holds(a, l)) + Bit(at[l] # "none")
  BY DEF CountsOk
<1>3. Bit(\E a \in Threads : Holds(a, l)') = Bit(\E a \in Threads : Holds(a, l)) /\ Bit(bt[l] # "none") = Bit(at[l] # "none")
  BY DEF Bit
<1> QED BY <1>1, <1>2, <1>3

\* A file that is not done yet still has somebody who will see to it.
LEMMA LeftMove ==
    ASSUME NEW at, NEW bt, XaTypes, LeftOk(at), Running, UNCHANGED current,
           \A l \in Logs : l < current /\ DoneLog(l) => DoneLog(l)',
           \A l \in Logs : at[l] \in {"request", "list"} => bt[l] \in {"request", "list"} \/ DoneLog(l)',
           \A a \in Threads : rotated[a] # 0 /\ pc[a] \in {"next_stage", "order", "checkpoint"} =>
               \/ rotated'[a] = rotated[a] /\ pc'[a] \in {"next_stage", "order", "checkpoint"}
               \/ bt[rotated[a]] \in {"request", "list"}
    PROVE  LeftOk(bt)'
<1> SUFFICES ASSUME Running', NEW l \in 1..(current - 1)
             PROVE  \/ DoneLog(l)' \/ bt[l] \in {"request", "list"}
                    \/ \E a \in Threads : rotated'[a] = l /\ pc'[a] \in {"next_stage", "order", "checkpoint"}
  BY DEF LeftOk
<1>1. l \in Logs /\ l < current /\ l # 0
  BY DiskTypes DEF Logs
<1>2. \/ DoneLog(l) \/ at[l] \in {"request", "list"}
      \/ \E a \in Threads : rotated[a] = l /\ pc[a] \in {"next_stage", "order", "checkpoint"}
  BY DEF LeftOk
<1> QED BY <1>1, <1>2

\* A list from which the chain starts is empty if and only if the chain is.
LEMMA ChainStart ==
    ASSUME NEW q \in Seq(Logs), NEW from, IsChain(q, from)
    PROVE  (from = 0 <=> q = <<>>) /\ (q # <<>> => from = q[1] /\ from \in Logs)
<1>1. from = IF q = <<>> THEN 0 ELSE q[1]
  BY DEF IsChain
<1>2. q # <<>> => q[1] \in Logs
  <2> SUFFICES ASSUME q # <<>> PROVE q[1] \in Logs
    OBVIOUS
  <2>1. Len(q) \in Nat \ {0}
    BY EmptySeq, LenProperties
  <2> QED BY <2>1, ElementOfSeq
<1>3. 0 \notin Logs
  BY BinlogXaAssumption DEF Logs
<1> QED BY <1>1, <1>2, <1>3

\* the list s of requests is cut into the completed files c and the rest d
SplitOk(s, n, c, d) ==
    /\ c \in Seq(Logs) /\ d \in Seq(Requests) /\ Distinct(c)
    /\ \A i, j \in DOMAIN d : d[i].log = d[j].log => i = j
    /\ \A m : (\E i \in DOMAIN s : s[i].log = m) <=> m \in Range(c) \/ \E i \in DOMAIN d : d[i].log = m
    /\ \A m \in Range(c) : ~(\E i \in DOMAIN d : d[i].log = m)
    /\ \A m \in Range(c) : \E i \in DOMAIN s : s[i].log = m /\ s[i].lsn <= n
    /\ \A i \in DOMAIN d : \E j \in DOMAIN s : d[i] = s[j]
    /\ d = <<>> \/ d[1].lsn > n
    /\ d = <<>> \/ s[1].lsn <= n \/ d[1] = s[1]

\* Requests that are complete leave the list, each of them once.
LEMMA SplitFacts ==
    ASSUME NEW s \in Seq(Requests), NEW n \in Nat,
           \A i, j \in DOMAIN s : s[i].log = s[j].log => i = j,
           NEW c, NEW d, c = LogsOf(Complete(s, n)), d = Rest(s, n)
    PROVE  SplitOk(s, n, c, d)
<1>1. PICK k \in 0..Len(s) :
        /\ c \in Seq(Logs) /\ Len(c) = k
        /\ \A i \in 1..k : c[i] = s[i].log /\ s[i].lsn <= n
        /\ d \in Seq(Requests) /\ Len(d) = Len(s) - k
        /\ \A i \in 1..(Len(s) - k) : d[i] = s[k + i]
        /\ d = <<>> \/ d[1].lsn > n
  BY CompleteFacts
<1>2. /\ DOMAIN s = 1..Len(s) /\ Len(s) \in Nat /\ DOMAIN c = 1..k /\ DOMAIN d = 1..(Len(s) - k)
      /\ \A m : m \in Range(c) <=> \E i \in 1..k : c[i] = m
  BY <1>1, RangeFacts
<1>3. \A i \in 1..k : i \in DOMAIN s /\ c[i] = s[i].log /\ s[i].lsn <= n
  BY <1>1, <1>2
<1>4. ASSUME NEW i \in DOMAIN d PROVE k + i \in DOMAIN s /\ d[i] = s[k + i] /\ k + i \notin 1..k /\ i \in Nat
  BY <1>1, <1>2
<1>5. Distinct(c)
  BY <1>2, <1>3 DEF Distinct
<1>6. ASSUME NEW i \in DOMAIN d, NEW j \in DOMAIN d, d[i].log = d[j].log PROVE i = j
  <2>1. k + i = k + j
    BY <1>4, <1>6
  <2> QED BY <1>1, <1>4, <2>1
<1>7. ASSUME NEW i \in DOMAIN s PROVE i \in 1..k \/ \E j \in DOMAIN d : i = k + j
  <2>1. CASE i <= k
    BY <1>2, <2>1
  <2>2. CASE ~(i <= k)
    <3>1. i \in 1..Len(s) /\ Len(s) \in Nat /\ k \in 0..Len(s)
      BY <1>2
    <3>2. i - k \in 1..(Len(s) - k) /\ i = k + (i - k)
      BY <2>2, <3>1
    <3> QED BY <1>2, <3>2
  <2> QED BY <2>1, <2>2
<1>8. \A m : (\E i \in DOMAIN s : s[i].log = m) <=> m \in Range(c) \/ \E i \in DOMAIN d : d[i].log = m
  <2> SUFFICES ASSUME NEW m
               PROVE  (\E i \in DOMAIN s : s[i].log = m) <=> m \in Range(c) \/ \E i \in DOMAIN d : d[i].log = m
    OBVIOUS
  <2>1. ASSUME NEW i \in DOMAIN s, s[i].log = m PROVE m \in Range(c) \/ \E j \in DOMAIN d : d[j].log = m
    BY <1>2, <1>3, <1>4, <1>7, <2>1
  <2>2. ASSUME m \in Range(c) PROVE \E i \in DOMAIN s : s[i].log = m
    BY <1>2, <1>3, <2>2
  <2>3. ASSUME NEW i \in DOMAIN d, d[i].log = m PROVE \E j \in DOMAIN s : s[j].log = m
    BY <1>4, <2>3
  <2> QED BY <2>1, <2>2, <2>3
<1>9. ASSUME NEW m \in Range(c), NEW i \in DOMAIN d, d[i].log = m PROVE FALSE
  <2>1. PICK j \in 1..k : j \in DOMAIN s /\ s[j].log = m
    BY <1>2, <1>3, <1>9
  <2>2. k + i \in DOMAIN s /\ s[k + i].log = m /\ k + i # j
    BY <1>4, <1>9
  <2> QED BY <2>1, <2>2
<1>10. \A m \in Range(c) : \E i \in DOMAIN s : s[i].log = m /\ s[i].lsn <= n
  BY <1>2, <1>3
<1>11. d = <<>> \/ s[1].lsn <= n \/ d[1] = s[1]
  <2>1. CASE k = 0
    <3>1. d # <<>> => 1 \in DOMAIN d
      <4>1. d # <<>> => Len(d) \in Nat \ {0}
        BY <1>1, EmptySeq, LenProperties
      <4> QED BY <1>1, <1>2, <4>1
    <3>2. k + 1 = 1
      BY <2>1
    <3>3. d # <<>> => d[1] = s[k + 1]
      BY <1>4, <3>1
    <3> QED BY <3>2, <3>3, Zenon
  <2>2. CASE k # 0
    <3>1. 1 \in 1..k
      BY <2>2
    <3> QED BY <1>3, <3>1
  <2> QED BY <2>1, <2>2
<1> QED BY <1>1, <1>4, <1>5, <1>6, <1>8, <1>9, <1>10, <1>11 DEF SplitOk

\* Who has committed by n has committed by any later position.
LEMMA CommitLater ==
    ASSUME XaTypes, NEW l, NEW m \in Nat, NEW n \in Nat, CommitBy(l, m), m <= n
    PROVE  CommitBy(l, n)
<1>1. DOMAIN elog \subseteq Nat
  BY DiskTypes
<1> QED BY <1>1 DEF CommitBy

\* What is taken from a list of notifications, and what is left of it.
LEMMA HeadTail ==
    ASSUME NEW s \in Seq(Logs), s # <<>>, Distinct(s)
    PROVE  /\ Tail(s) \in Seq(Logs) /\ Head(s) \in Logs /\ Head(s) \in Range(s) /\ Distinct(Tail(s))
           /\ Range(Tail(s)) = Range(s) \ {Head(s)}
<1>1. /\ Tail(s) \in Seq(Logs) /\ Head(s) \in Logs /\ Head(s) = s[1] /\ Len(s) \in Nat \ {0}
      /\ Distinct(Tail(s)) /\ Range(Tail(s)) = Range(s) \ {Head(s)}
  BY TailFacts
<1>2. 1 \in DOMAIN s
  <2>1. DOMAIN s = 1..Len(s)
    BY LenProperties
  <2> QED BY <1>1, <2>1
<1>3. Head(s) \in Range(s)
  BY <1>1, <1>2 DEF Range
<1> QED BY <1>1, <1>3
\* Prepared() moves one transaction to the queue.
LEMMA PreparedStep ==
    ASSUME XaInv, NEW t \in Trx, Prepared(t), UNCHANGED sync_period
    PROVE  XaInv'
<1>1. /\ XaTypes /\ LabelsOk /\ LocksOk /\ GroupsOk /\ RotatedOk /\ IndexOk /\ SyncedOk /\ DisksOk /\ TrxsOk
      /\ MembersOk /\ RequestOk /\ FlushOk /\ CheckpointsOk /\ LastOk /\ DoneOk /\ HoldOk /\ TokensOk
  BY DEF XaInv
<1>2. /\ t \in Actors /\ pc[t] = "prepare_flush" /\ pc'[t] = "queued"
      /\ \A b \in Actors : b # t => pc'[b] = pc[b]
  BY <1>1, Who, GotoFacts DEF Prepared, At
<1>3. UNCHANGED <<elog, flushed, blog, synced, first, indexed, inuse, current, head, xid_count, LOCK_log,
                  LOCK_after_binlog_sync, bg_queue, next_in_queue, log_requests, group, rotated, done,
                  req, to_notify, flush_notify, bg, lost, crashes>>
  BY DEF Prepared, diskVars, listVars, lockVars, bgVars, ctlVars
<1>types. XaTypes'
  <2>1. pc' \in [Actors -> TrxLabels \cup BgLabels]
    BY <1>1, <1>2, GotoType DEF Prepared, TrxLabels, FlusherLabels, BgLabels, Marking
  <2> QED BY <1>1, <1>3, <2>1 DEF XaTypes
<1>labels. LabelsOk'
  BY <1>1, <1>2, Who DEF LabelsOk, TrxLabels, FlusherLabels, BgLabels, Marking
<1>locks. LocksOk'
  <2>1. Within(LogHolders) /\ Within({"order"})
    BY <1>2, <1>3 DEF Within, LogHolders
  <2> QED BY <1>1, <1>3, <2>1, LocksFrame DEF lockVars
<1>groups. GroupsOk'
  <2>1. Within(Leading) /\ Within({"follow"})
    BY <1>2, <1>3 DEF Within, Leading
  <2>2. group \in [Threads -> Seq(Trx)]
    BY <1>1 DEF XaTypes
  <2> QED BY <1>1, <1>3, <2>1, <2>2, GroupsFrame
<1>rotated. RotatedOk'
  <2>1. Kept((Leading \cup Requesting) \ {"write", "sync"})
    BY <1>2, <1>3 DEF Kept, Leading, Requesting
  <2> QED BY <1>1, <1>3, <2>1, RotatedFrame
<1>index. IndexOk'
  <2>1. Kept({"rotate_list"})
    BY <1>2, <1>3 DEF Kept
  <2> QED BY <1>1, <1>3, <2>1, IndexFrame
<1>synced. SyncedOk'
  <2>1. Kept({"sync"})
    BY <1>2, <1>3 DEF Kept
  <2> QED BY <1>1, <1>3, <2>1, SyncedFrame
<1>disks. DisksOk'
  BY <1>1, <1>3, DisksFrame
<1>trxs. TrxsOk'
  <2> SUFFICES ASSUME NEW u \in Trx PROVE TrxOk(u)'
    BY DEF TrxsOk
  <2>1. TrxOk(u) /\ u \in Actors
    BY <1>1, Who DEF TrxsOk
  <2>2. CASE u # t
    BY <1>2, <1>3, <2>1, <2>2, TrxFrame
  <2>3. CASE u = t
    <3>1. InEngine("prepare", t) /\ ~InEngine("rollback", t) /\ ~InEngine("commit", t) /\ ~InBinlog(t)
      BY <1>2, <2>1, <2>3 DEF TrxOk
    <3>2. Lsn("prepare", t) \in DOMAIN elog /\ elog[Lsn("prepare", t)] = EngineRecord("prepare", t)
      <4>1. \E i \in DOMAIN elog : elog[i] = EngineRecord("prepare", t)
        BY <3>1 DEF InEngine, Range
      <4> QED BY <4>1 DEF Lsn
    <3>3. Len(elog) \in Nat /\ DOMAIN elog = 1..Len(elog) /\ flushed \in Nat /\ flushed <= Len(elog)
      BY <1>1, DiskTypes
    <3>4. Lsn("prepare", t) \in 1..flushed
      <4>1. flushed >= Lsn("prepare", t)
        BY DEF Prepared
      <4> QED BY <3>2, <3>3, <4>1
    <3>5. Durable("prepare", t)
      BY <3>2, <3>4 DEF Durable
    <3> QED BY <1>2, <1>3, <2>3, <3>1, <3>5 DEF TrxOk, InBinlog, Durable, InEngine, Requesting, Marking
  <2> QED BY <2>2, <2>3
<1>members. MembersOk'
  <2>1. Within({"write"}) /\ Within(Leading \ {"write", "order"}) /\ Within({"order"}) /\ Within({"crashed"})
    BY <1>2, <1>3 DEF Within, Leading
  <2> QED BY <1>1, <1>3, <2>1, MembersFrame
<1>request. RequestOk'
  <2>1. Kept({"checkpoint", "request"})
    BY <1>2, <1>3 DEF Kept
  <2>2. \A l \in Logs : Stays(l)
    BY <1>3, StaysFrame
  <2>3. Len(elog') = Len(elog) /\ Len(elog) \in Nat /\ flushed' = flushed /\ flushed \in Nat
    BY <1>1, <1>3, DiskTypes
  <2>4. Len(elog) <= Len(elog') /\ flushed <= flushed'
    BY <2>3
  <2> QED BY <1>1, <1>3, <2>1, <2>2, <2>4, <1>types, RequestFrame, ListLogs
<1>flush. FlushOk'
  BY <1>1, <1>3, FlushFrame
<1>checks. CheckpointsOk'
  BY <1>1, <1>3, CheckpointsFrame
<1>last. LastOk'
  <2>1. Kept({"rotate_index", "done_lock", "done_write", "crashed"})
    BY <1>2, <1>3 DEF Kept
  <2> QED BY <1>1, <1>3, <2>1, LastFrame
<1>dones. DoneOk'
  <2>1. Within(Marking)
    BY <1>2, <1>3 DEF Within, Marking
  <2> QED BY <1>1, <1>3, <2>1, DoneFrame
<1>hold. HoldOk'
  <2>1. Kept({"done"})
    BY <1>2, <1>3 DEF Kept
  <2> QED BY <1>1, <1>3, <2>1, HoldFrame
<1>tokens. TokensOk'
  <2>1. Kept({"request", "notify", "done"})
    BY <1>2, <1>3 DEF Kept
  <2>2. \A u \in NeedUnlog : Counted(u)' <=> Counted(u)
    <3>1. Within(CountedLabels) /\ Within(Marking) /\ Within({"done"}) /\ Within({"follow"}) /\ Within({"write", "sync"})
      BY <1>2, <1>3 DEF Within, CountedLabels, Marking
    <3> QED BY <1>3, <3>1, CountedFrame, BinlogXaAssumption
  <2>3. ASSUME NEW at, LeftOk(at) PROVE LeftOk(at)'
    <3>1. Within({"next_stage", "order", "checkpoint"}) /\ Within({"crashed"})
      BY <1>2, <1>3 DEF Within
    <3>2. \A l : DoneLog(l) => DoneLog(l)'
      BY <1>3 DEF DoneLog, CommitBy, InFile
    <3> QED BY <1>3, <2>3, <3>1, <3>2, LeftFrame
  <2> QED BY <1>1, <1>3, <2>1, <2>2, <2>3, TokensFrame DEF bgVars
<1> QED BY <1>types, <1>labels, <1>locks, <1>groups, <1>rotated, <1>index, <1>synced, <1>disks, <1>trxs,
     <1>members, <1>request, <1>flush, <1>checks, <1>last, <1>dones, <1>hold, <1>tokens DEF XaInv

\* The new prepare record is the first one of its transaction.
LEMMA PrepareStep ==
    ASSUME XaInv, NEW t \in Trx, Prepare(t), UNCHANGED sync_period
    PROVE  XaInv'
<1>1. /\ XaTypes /\ LabelsOk /\ LocksOk /\ GroupsOk /\ RotatedOk /\ IndexOk /\ SyncedOk /\ DisksOk /\ TrxsOk
      /\ MembersOk /\ RequestOk /\ FlushOk /\ CheckpointsOk /\ LastOk /\ DoneOk /\ HoldOk /\ TokensOk
  BY DEF XaInv
<1>2. /\ t \in Actors /\ pc[t] = "begin" /\ pc'[t] = "prepare_flush"
      /\ \A b \in Actors : b # t => pc'[b] = pc[b]
  BY <1>1, Who, GotoFacts DEF Prepare, At
<1>3. UNCHANGED <<flushed, blog, synced, first, indexed, inuse, current, head, xid_count, LOCK_log,
                  LOCK_after_binlog_sync, bg_queue, next_in_queue, log_requests, group, rotated, done,
                  req, to_notify, flush_notify, bg, lost, crashes>>
  BY DEF Prepare, diskVars, listVars, lockVars, bgVars, ctlVars
<1>4. /\ elog' \in Seq(EngineRecords) /\ Extends(elog, elog') /\ Len(elog) <= Len(elog')
      /\ \A k, u : InEngine(k, u)' <=> InEngine(k, u) \/ (k = "prepare" /\ u = t)
      /\ Distinct(elog) /\ ~InEngine("prepare", t) => Distinct(elog')
  <2> DEFINE s == <<EngineRecord("prepare", t)>>
  <2>1. EngineRecord("prepare", t) \in EngineRecords
    BY DEF EngineRecord, EngineRecords
  <2>2. s \in Seq(EngineRecords) /\ Range(s) = {EngineRecord("prepare", t)} /\ Distinct(s)
    BY <2>1, OneFacts
  <2>3. elog \in Seq(EngineRecords)
    BY <1>1 DEF XaTypes
  <2>4. elog' = elog \o s
    BY <2>1, <2>3, AppendIsConcat DEF Prepare
  <2> HIDE DEF s
  <2> QED BY <1>1, <2>2, <2>4, ElogGrows, EngineIs DEF InEngine
<1>5. Len(elog) \in Nat /\ Len(elog') \in Nat /\ flushed \in Nat /\ flushed <= Len(elog)
  <2>1. Len(elog') \in Nat
    BY <1>4, LenProperties
  <2> QED BY <1>1, <2>1, DiskTypes
<1>types. XaTypes'
  <2>1. pc' \in [Actors -> TrxLabels \cup BgLabels]
    BY <1>1, <1>2, GotoType DEF Prepare, TrxLabels, FlusherLabels, BgLabels, Marking
  <2>2. flushed' \in 0..Len(elog')
    BY <1>3, <1>4, <1>5
  <2> QED BY <1>1, <1>3, <2>1, <2>2, <1>4 DEF XaTypes
<1>grow. /\ \A k, u : Durable(k, u) => Durable(k, u)'
         /\ \A l : Stays(l) /\ (DoneLog(l) => DoneLog(l)')
         /\ Len(elog) <= Len(elog') /\ flushed <= flushed'
  <2>1. flushed <= flushed' /\ \A l : blog'[l] = blog[l]
    BY <1>3, <1>5
  <2> QED BY <1>1, <1>4, <1>types, <2>1, Grows
<1>6. ~InEngine("prepare", t) /\ ~InEngine("rollback", t) /\ ~InEngine("commit", t) /\ ~InBinlog(t)
  <2>1. ~InEngine("prepare", t)
    BY <1>1, <1>2 DEF TrxsOk, TrxOk
  <2>2. ~Durable("prepare", t)
    BY <1>1, <2>1, DurableIn
  <2> QED BY <1>1, <2>1, <2>2 DEF DisksOk, DiskOk
<1>labels. LabelsOk'
  BY <1>1, <1>2, Who DEF LabelsOk, TrxLabels, FlusherLabels, BgLabels, Marking
<1>locks. LocksOk'
  <2>1. Within(LogHolders) /\ Within({"order"})
    BY <1>2, <1>3 DEF Within, LogHolders
  <2> QED BY <1>1, <1>3, <2>1, LocksFrame DEF lockVars
<1>groups. GroupsOk'
  <2>1. Within(Leading) /\ Within({"follow"})
    BY <1>2, <1>3 DEF Within, Leading
  <2>2. group \in [Threads -> Seq(Trx)]
    BY <1>1 DEF XaTypes
  <2> QED BY <1>1, <1>3, <2>1, <2>2, GroupsFrame
<1>rotated. RotatedOk'
  <2>1. Kept((Leading \cup Requesting) \ {"write", "sync"})
    BY <1>2, <1>3 DEF Kept, Leading, Requesting
  <2> QED BY <1>1, <1>3, <2>1, RotatedFrame
<1>index. IndexOk'
  <2>1. Kept({"rotate_list"})
    BY <1>2, <1>3 DEF Kept
  <2> QED BY <1>1, <1>3, <2>1, IndexFrame
<1>synced. SyncedOk'
  <2>1. Kept({"sync"})
    BY <1>2, <1>3 DEF Kept
  <2> QED BY <1>1, <1>3, <2>1, SyncedFrame
<1>disks. DisksOk'
  <2>1. ASSUME NEW u \in Trx PROVE DiskOk(u)'
    <3>1. DiskOk(u)
      BY <1>1 DEF DisksOk
    <3>2. InBinlog(u)' <=> InBinlog(u)
      BY <1>3 DEF InBinlog
    <3>3. \A l \in Logs : InFile(u, l)' <=> InFile(u, l)
      BY <1>3 DEF InFile
    <3> QED BY <1>4, <1>grow, <3>1, <3>2, <3>3 DEF DiskOk
  <2>2. Distinct(elog')
    BY <1>1, <1>4, <1>6 DEF DisksOk
  <2> QED BY <2>1, <2>2 DEF DisksOk, Distinct
<1>trxs. TrxsOk'
  <2> SUFFICES ASSUME NEW u \in Trx PROVE TrxOk(u)'
    BY DEF TrxsOk
  <2>1. TrxOk(u) /\ u \in Actors
    BY <1>1, Who DEF TrxsOk
  <2>2. InBinlog(u)' <=> InBinlog(u)
    BY <1>3 DEF InBinlog
  <2>3. CASE u # t
    BY <1>2, <1>4, <1>grow, <2>1, <2>2, <2>3 DEF TrxOk
  <2>4. CASE u = t
    BY <1>2, <1>4, <1>6, <2>2, <2>4 DEF TrxOk, Requesting, Marking
  <2> QED BY <2>3, <2>4
<1>members. MembersOk'
  <2>1. \A u : InBinlog(u)' <=> InBinlog(u)
    BY <1>3 DEF InBinlog
  <2>2. ASSUME NEW a \in Threads, NEW u \in Range(group[a]) PROVE MemberOk(a, u)'
    <3>1. MemberOk(a, u) /\ pc[a] \in Leading
      BY <1>1 DEF MembersOk, GroupsOk
    <3>2. pc'[a] = pc[a]
      BY <1>2, <3>1, Who DEF Leading
    <3>3. FileOf(a)' = FileOf(a) /\ \A l : InFile(u, l)' <=> InFile(u, l)
      BY <1>3 DEF FileOf, InFile
    <3> QED BY <1>4, <1>grow, <2>1, <3>1, <3>2, <3>3 DEF MemberOk
  <2>3. Running' <=> Running
    BY <1>2, Who DEF Running, At
  <2> QED BY <1>1, <1>3, <1>4, <2>1, <2>2, <2>3 DEF MembersOk
<1>request. RequestOk'
  <2>1. Kept({"checkpoint", "request"})
    BY <1>2, <1>3 DEF Kept
  <2>2. \A l \in Logs : Stays(l)
    BY <1>3, <1>grow
  <2> QED BY <1>1, <1>3, <2>1, <2>2, <1>types, <1>grow, RequestFrame, ListLogs
<1>flush. FlushOk'
  BY <1>1, <1>3, FlushFrame
<1>checks. CheckpointsOk'
  BY <1>1, <1>3, <1>grow, CheckpointsGrow
<1>last. LastOk'
  <2>1. Kept({"rotate_index", "done_lock", "done_write", "crashed"})
    BY <1>2, <1>3 DEF Kept
  <2> QED BY <1>1, <1>3, <2>1, LastFrame
<1>dones. DoneOk'
  <2>1. Within(Marking)
    BY <1>2, <1>3 DEF Within, Marking
  <2> QED BY <1>1, <1>3, <2>1, DoneFrame
<1>hold. HoldOk'
  <2>1. Kept({"done"})
    BY <1>2, <1>3 DEF Kept
  <2> QED BY <1>1, <1>3, <2>1, HoldFrame
<1>tokens. TokensOk'
  <2>1. Kept({"request", "notify", "done"})
    BY <1>2, <1>3 DEF Kept
  <2>2. \A u \in NeedUnlog : Counted(u)' <=> Counted(u)
    <3>1. Within(CountedLabels) /\ Within(Marking) /\ Within({"done"}) /\ Within({"follow"}) /\ Within({"write", "sync"})
      BY <1>2, <1>3 DEF Within, CountedLabels, Marking
    <3> QED BY <1>3, <3>1, CountedFrame, BinlogXaAssumption
  <2>3. ASSUME NEW at, LeftOk(at) PROVE LeftOk(at)'
    <3>1. Within({"next_stage", "order", "checkpoint"}) /\ Within({"crashed"})
      BY <1>2, <1>3 DEF Within
    <3>2. \A l : DoneLog(l) => DoneLog(l)'
      BY <1>3, <1>grow
    <3> QED BY <1>3, <2>3, <3>1, <3>2, LeftFrame
  <2> QED BY <1>1, <1>3, <2>1, <2>2, <2>3, TokensFrame DEF bgVars
<1> QED BY <1>types, <1>labels, <1>locks, <1>groups, <1>rotated, <1>index, <1>synced, <1>disks, <1>trxs,
     <1>members, <1>request, <1>flush, <1>checks, <1>last, <1>dones, <1>hold, <1>tokens DEF XaInv

\* More of InnoDB's log is durable.
LEMMA FlushLogStep ==
    ASSUME XaInv, FlushLog, UNCHANGED sync_period
    PROVE  XaInv'
<1>1. /\ XaTypes /\ LabelsOk /\ LocksOk /\ GroupsOk /\ RotatedOk /\ IndexOk /\ SyncedOk /\ DisksOk /\ TrxsOk
      /\ MembersOk /\ RequestOk /\ FlushOk /\ CheckpointsOk /\ LastOk /\ DoneOk /\ HoldOk /\ TokensOk
  BY DEF XaInv
<1>3. UNCHANGED <<elog, blog, synced, first, indexed, inuse, current, head, xid_count, LOCK_log,
                  LOCK_after_binlog_sync, bg_queue, next_in_queue, log_requests, pc, group, rotated, done,
                  req, to_notify, bg, lost, crashes>>
  BY DEF FlushLog, diskVars, listVars, lockVars, bgVars, ctlVars
<1>4. /\ flush_notify.state = "idle" /\ flushed' \in (flushed + 1)..Len(elog)
      /\ flush_notify' = [state |-> "flushed", lsn |-> flushed', list |-> <<>>]
  BY DEF FlushLog
<1>5. elog \in Seq(EngineRecords) /\ Len(elog) \in Nat /\ flushed \in Nat
  BY <1>1, DiskTypes
<1>6. flush_notify'.list = flush_notify.list /\ flush_notify'.list = <<>> /\ flush_notify'.lsn = flushed'
      /\ flush_notify'.state = "flushed"
  BY <1>1, <1>4 DEF FlushOk
<1>types. XaTypes'
  <2>2. flush_notify' \in [state : {"idle", "flushed", "notify"}, lsn : Nat, list : Seq(Logs)]
    BY <1>4, <1>5
  <2>3. flushed' \in 0..Len(elog)
    BY <1>4, <1>5
  <2> QED BY <1>1, <1>3, <2>2, <2>3 DEF XaTypes
<1>grow. /\ \A k, u : Durable(k, u) => Durable(k, u)'
         /\ \A l : Stays(l) /\ (DoneLog(l) => DoneLog(l)')
         /\ Len(elog) <= Len(elog') /\ flushed <= flushed'
  <2>1. flushed <= flushed' /\ Len(elog) <= Len(elog') /\ Extends(elog, elog') /\ \A l : blog'[l] = blog[l]
    BY <1>3, <1>4, <1>5 DEF Extends
  <2> QED BY <1>1, <1>types, <2>1, Grows
<1>labels. LabelsOk'
  BY <1>1, <1>3 DEF LabelsOk
<1>locks. LocksOk'
  <2>1. Within(LogHolders) /\ Within({"order"})
    BY <1>3 DEF Within, LogHolders
  <2> QED BY <1>1, <1>3, <2>1, LocksFrame DEF lockVars
<1>groups. GroupsOk'
  <2>1. Within(Leading) /\ Within({"follow"})
    BY <1>3 DEF Within, Leading
  <2>2. group \in [Threads -> Seq(Trx)]
    BY <1>1 DEF XaTypes
  <2> QED BY <1>1, <1>3, <2>1, <2>2, GroupsFrame
<1>rotated. RotatedOk'
  <2>1. Kept((Leading \cup Requesting) \ {"write", "sync"})
    BY <1>3 DEF Kept, Leading, Requesting
  <2> QED BY <1>1, <1>3, <2>1, RotatedFrame
<1>index. IndexOk'
  <2>1. Kept({"rotate_list"})
    BY <1>3 DEF Kept
  <2> QED BY <1>1, <1>3, <2>1, IndexFrame
<1>synced. SyncedOk'
  <2>1. Kept({"sync"})
    BY <1>3 DEF Kept
  <2> QED BY <1>1, <1>3, <2>1, SyncedFrame
<1>disks. DisksOk'
  <2>1. ASSUME NEW u \in Trx PROVE DiskOk(u)'
    <3>1. DiskOk(u)
      BY <1>1 DEF DisksOk
    <3> QED BY <1>3, <1>grow, <3>1 DEF DiskOk, InBinlog, InFile, InEngine
  <2> QED BY <1>1, <1>3, <2>1 DEF DisksOk, Distinct
<1>trxs. TrxsOk'
  <2> SUFFICES ASSUME NEW u \in Trx PROVE TrxOk(u)'
    BY DEF TrxsOk
  <2>1. TrxOk(u)
    BY <1>1 DEF TrxsOk
  <2> QED BY <1>3, <1>grow, <2>1 DEF TrxOk, InBinlog, InEngine
<1>members. MembersOk'
  <2>1. ASSUME NEW a \in Threads, NEW u \in Range(group[a]) PROVE MemberOk(a, u)'
    <3>1. MemberOk(a, u)
      BY <1>1 DEF MembersOk
    <3> QED BY <1>3, <1>grow, <3>1 DEF MemberOk, FileOf, InFile, InBinlog, InEngine
  <2> QED BY <1>1, <1>3, <2>1 DEF MembersOk, InBinlog, InEngine, Running, At
<1>request. RequestOk'
  <2>1. Kept({"checkpoint", "request"})
    BY <1>3 DEF Kept
  <2>2. \A l \in Logs : Stays(l)
    BY <1>3, <1>grow
  <2> QED BY <1>1, <1>3, <2>1, <2>2, <1>types, <1>grow, RequestFrame, ListLogs
<1>flush. FlushOk'
  BY <1>6 DEF FlushOk
<1>checks. CheckpointsOk'
  BY <1>1, <1>3, <1>grow, CheckpointsGrow
<1>last. LastOk'
  <2>1. Kept({"rotate_index", "done_lock", "done_write", "crashed"})
    BY <1>3 DEF Kept
  <2> QED BY <1>1, <1>3, <2>1, LastFrame
<1>dones. DoneOk'
  <2>1. Within(Marking)
    BY <1>3 DEF Within, Marking
  <2> QED BY <1>1, <1>3, <2>1, DoneFrame
<1>hold. HoldOk'
  <2>1. Kept({"done"})
    BY <1>3 DEF Kept
  <2> QED BY <1>1, <1>3, <2>1, HoldFrame
<1>tokens. TokensOk'
  <2>1. Kept({"request", "notify", "done"})
    BY <1>3 DEF Kept
  <2>2. \A u \in NeedUnlog : Counted(u)' <=> Counted(u)
    <3>1. Within(CountedLabels) /\ Within(Marking) /\ Within({"done"}) /\ Within({"follow"}) /\ Within({"write", "sync"})
      BY <1>3 DEF Within, CountedLabels, Marking
    <3> QED BY <1>3, <3>1, CountedFrame, BinlogXaAssumption
  <2>3. ASSUME NEW at, LeftOk(at) PROVE LeftOk(at)'
    <3>1. Within({"next_stage", "order", "checkpoint"}) /\ Within({"crashed"})
      BY <1>3 DEF Within
    <3>2. \A l : DoneLog(l) => DoneLog(l)'
      BY <1>3, <1>grow
    <3> QED BY <1>3, <2>3, <3>1, <3>2, LeftFrame
  <2> QED BY <1>1, <1>3, <1>6, <2>1, <2>2, <2>3, TokensFrame DEF bgVars
<1> QED BY <1>types, <1>labels, <1>locks, <1>groups, <1>rotated, <1>index, <1>synced, <1>disks, <1>trxs,
     <1>members, <1>request, <1>flush, <1>checks, <1>last, <1>dones, <1>hold, <1>tokens DEF XaInv

\* A file before the list, and before the last checkpoint outside of mark_xid_done(), is purged.
LEMMA PurgeStep ==
    ASSUME XaInv, Purge, UNCHANGED sync_period
    PROVE  XaInv'
<1>1. /\ XaTypes /\ LabelsOk /\ LocksOk /\ GroupsOk /\ RotatedOk /\ IndexOk /\ SyncedOk /\ DisksOk /\ TrxsOk
      /\ MembersOk /\ RequestOk /\ FlushOk /\ CheckpointsOk /\ LastOk /\ DoneOk /\ HoldOk /\ TokensOk
  BY DEF XaInv
<1>3. UNCHANGED <<elog, flushed, blog, synced, indexed, inuse, current, head, xid_count, LOCK_log,
                  LOCK_after_binlog_sync, bg_queue, next_in_queue, log_requests, pc, group, rotated, done,
                  req, to_notify, flush_notify, bg, lost, crashes>>
  BY DEF Purge, diskVars, listVars, lockVars, bgVars, ctlVars
<1>4. first' = first + 1 /\ first < indexed /\ first < head
      /\ (PurgeInWindow \/ \A a \in Actors : pc[a] \notin {"done_lock", "done_write"})
  BY DEF Purge, CanPurge
<1>5. first \in Nat /\ head \in Nat /\ indexed \in Nat
  BY <1>1, DiskTypes
<1>types. XaTypes'
  <2>1. first' \in 1..indexed
    BY <1>4, <1>5
  <2> QED BY <1>1, <1>3, <2>1 DEF XaTypes
<1>labels. LabelsOk'
  BY <1>1, <1>3 DEF LabelsOk
<1>locks. LocksOk'
  <2>1. Within(LogHolders) /\ Within({"order"})
    BY <1>3 DEF Within, LogHolders
  <2> QED BY <1>1, <1>3, <2>1, LocksFrame DEF lockVars
<1>groups. GroupsOk'
  <2>1. Within(Leading) /\ Within({"follow"})
    BY <1>3 DEF Within, Leading
  <2>2. group \in [Threads -> Seq(Trx)]
    BY <1>1 DEF XaTypes
  <2> QED BY <1>1, <1>3, <2>1, <2>2, GroupsFrame
<1>rotated. RotatedOk'
  <2>1. Kept((Leading \cup Requesting) \ {"write", "sync"})
    BY <1>3 DEF Kept, Leading, Requesting
  <2> QED BY <1>1, <1>3, <2>1, RotatedFrame
<1>index. IndexOk'
  <2>1. first' <= head
    BY <1>4, <1>5
  <2> QED BY <1>1, <1>3, <2>1 DEF IndexOk, InFile
<1>synced. SyncedOk'
  <2>1. Kept({"sync"})
    BY <1>3 DEF Kept
  <2> QED BY <1>1, <1>3, <2>1, SyncedFrame
<1>disks. DisksOk'
  BY <1>1, <1>3, DisksFrame
<1>trxs. TrxsOk'
  <2> SUFFICES ASSUME NEW u \in Trx PROVE TrxOk(u)'
    BY DEF TrxsOk
  <2>1. TrxOk(u)
    BY <1>1 DEF TrxsOk
  <2> QED BY <1>3, <2>1, TrxFrame
<1>members. MembersOk'
  <2>1. Within({"write"}) /\ Within(Leading \ {"write", "order"}) /\ Within({"order"}) /\ Within({"crashed"})
    BY <1>3 DEF Within, Leading
  <2> QED BY <1>1, <1>3, <2>1, MembersFrame
<1>request. RequestOk'
  <2>1. Kept({"checkpoint", "request"})
    BY <1>3 DEF Kept
  <2>2. \A l \in Logs : Stays(l)
    BY <1>3, StaysFrame
  <2>3. Len(elog') = Len(elog) /\ Len(elog) \in Nat /\ flushed' = flushed /\ flushed \in Nat
    BY <1>1, <1>3, DiskTypes
  <2>4. Len(elog) <= Len(elog') /\ flushed <= flushed'
    BY <2>3
  <2> QED BY <1>1, <1>3, <2>1, <2>2, <2>4, <1>types, RequestFrame, ListLogs
<1>flush. FlushOk'
  BY <1>1, <1>3, FlushFrame
<1>checks. CheckpointsOk'
  BY <1>1, <1>3, CheckpointsFrame
<1>last. LastOk'
  <2>1. PICK c \in Logs : /\ IsLast(blog[indexed], c)
                          /\ ~PurgeInWindow /\ sync_period = 1 => first <= c
                          /\ Running /\ ~Window => head <= c
    BY <1>1 DEF LastOk
  <2>2. ~PurgeInWindow /\ sync_period = 1 => first' <= c
    <3>1. Running
      BY DEF Purge
    <3>2. ~PurgeInWindow /\ sync_period = 1 => head <= c
      BY <1>4, <2>1, <3>1 DEF Window
    <3> QED BY <1>4, <1>5, <3>2, BinlogXaAssumption DEF Logs
  <2>3. IsLast(blog[indexed], c)' /\ ((Running /\ ~Window)' => head <= c)
    BY <1>3, <2>1 DEF IsLast, Running, At, Window
  <2> QED BY <1>1, <1>3, <2>2, <2>3 DEF LastOk
<1>dones. DoneOk'
  <2>1. Within(Marking)
    BY <1>3 DEF Within, Marking
  <2> QED BY <1>1, <1>3, <2>1, DoneFrame
<1>hold. HoldOk'
  <2>1. Kept({"done"})
    BY <1>3 DEF Kept
  <2> QED BY <1>1, <1>3, <2>1, HoldFrame
<1>tokens. TokensOk'
  <2>1. Kept({"request", "notify", "done"})
    BY <1>3 DEF Kept
  <2>2. \A u \in NeedUnlog : Counted(u)' <=> Counted(u)
    <3>1. Within(CountedLabels) /\ Within(Marking) /\ Within({"done"}) /\ Within({"follow"}) /\ Within({"write", "sync"})
      BY <1>3 DEF Within, CountedLabels, Marking
    <3> QED BY <1>3, <3>1, CountedFrame, BinlogXaAssumption
  <2>3. ASSUME NEW at, LeftOk(at) PROVE LeftOk(at)'
    <3>1. Within({"next_stage", "order", "checkpoint"}) /\ Within({"crashed"})
      BY <1>3 DEF Within
    <3>2. \A l : DoneLog(l) => DoneLog(l)'
      BY <1>3 DEF DoneLog, CommitBy, InFile
    <3> QED BY <1>3, <2>3, <3>1, <3>2, LeftFrame
  <2> QED BY <1>1, <1>3, <2>1, <2>2, <2>3, TokensFrame DEF bgVars
<1> QED BY <1>types, <1>labels, <1>locks, <1>groups, <1>rotated, <1>index, <1>synced, <1>disks, <1>trxs,
     <1>members, <1>request, <1>flush, <1>checks, <1>last, <1>dones, <1>hold, <1>tokens DEF XaInv

\* The new file is in the index: its first record names a file of the list.
LEMMA RotateIndexStep ==
    ASSUME XaInv, NEW a \in Threads, RotateIndex(a), UNCHANGED sync_period
    PROVE  XaInv'
<1>1. /\ XaTypes /\ LabelsOk /\ LocksOk /\ GroupsOk /\ RotatedOk /\ IndexOk /\ SyncedOk /\ DisksOk /\ TrxsOk
      /\ MembersOk /\ RequestOk /\ FlushOk /\ CheckpointsOk /\ LastOk /\ DoneOk /\ HoldOk /\ TokensOk
  BY DEF XaInv
<1>2. /\ a \in Actors /\ pc[a] = "rotate_index" /\ pc'[a] = "rotate_list"
      /\ \A b \in Actors : b # a => pc'[b] = pc[b]
  BY <1>1, Who, GotoFacts DEF RotateIndex, At
<1>3. UNCHANGED <<elog, flushed, blog, first, current, head, xid_count, LOCK_log, LOCK_after_binlog_sync,
                  bg_queue, next_in_queue, log_requests, group, rotated, done, req, to_notify,
                  flush_notify, bg, lost, crashes>>
  BY DEF RotateIndex, diskVars, listVars, lockVars, bgVars, ctlVars
<1>only. \A b \in Actors : b # a => pc[b] \notin LogHolders
  BY <1>1, <1>2, OnlyHolder DEF LogHolders
<1>nat. /\ current \in Nat /\ head \in Nat /\ indexed \in Nat /\ first \in Nat /\ MaxLogs \in Nat
        /\ 1 <= head /\ head <= current /\ current <= MaxLogs
  BY <1>1, DiskTypes
<1>idx. indexed = current
  <2>1. \A b \in Threads : pc[b] # "rotate_list"
    BY <1>2, <1>only, Who DEF LogHolders
  <2> QED BY <1>1, <2>1, IndexedIs
<1>4. indexed' = current + 1 /\ inuse' = inuse \cup {current + 1} /\ synced' = 1
  BY DEF RotateIndex
<1>5. PICK c \in head..current : blog[current + 1] = <<Checkpoint(c)>>
  BY <1>1, <1>2 DEF LastOk
<1>6. current + 1 \in Logs /\ c \in Logs /\ c \in Nat
  BY <1>1, <1>2, <1>nat DEF RotatedOk, Logs
<1>7. Len(blog[current + 1]) = 1 /\ blog[current + 1][1] = Checkpoint(c) /\ DOMAIN blog[current + 1] = 1..1
  BY <1>5
<1>types. XaTypes'
  <2>1. pc' \in [Actors -> TrxLabels \cup BgLabels]
    BY <1>1, <1>2, GotoType DEF RotateIndex, TrxLabels, FlusherLabels, BgLabels, Marking
  <2>2. indexed' \in Logs /\ synced' \in 1..Len(blog[indexed'])
    BY <1>4, <1>6, <1>7
  <2>3. first \in 1..indexed'
    <3>1. first \in 1..indexed
      BY <1>1 DEF XaTypes
    <3> QED BY <1>4, <1>nat, <1>idx, <3>1
  <2> QED BY <1>1, <1>3, <2>1, <2>2, <2>3 DEF XaTypes
<1>labels. LabelsOk'
  BY <1>1, <1>2, Who DEF LabelsOk, TrxLabels, FlusherLabels, BgLabels, Marking
<1>locks. LocksOk'
  <2>1. Within(LogHolders) /\ Within({"order"})
    BY <1>2, <1>3 DEF Within, LogHolders
  <2> QED BY <1>1, <1>3, <2>1, LocksFrame DEF lockVars
<1>groups. GroupsOk'
  <2>1. Within(Leading) /\ Within({"follow"})
    BY <1>2, <1>3 DEF Within, Leading
  <2>2. group \in [Threads -> Seq(Trx)]
    BY <1>1 DEF XaTypes
  <2> QED BY <1>1, <1>3, <2>1, <2>2, GroupsFrame
<1>rotated. RotatedOk'
  BY <1>1, <1>2, <1>3, Who DEF RotatedOk, Requesting
<1>index. IndexOk'
  <2>1. \A b \in Threads : pc'[b] = "rotate_list" => indexed' = current' + 1
    BY <1>3, <1>4
  <2>2. blog[current + 1][1].type = "checkpoint"
    BY <1>7, XidIs
  <2> QED BY <1>1, <1>2, <1>3, <1>4, <2>1, <2>2 DEF IndexOk, InFile
<1>synced. SyncedOk'
  BY <1>3, <1>4, <1>7 DEF SyncedOk
<1>disks. DisksOk'
  BY <1>1, <1>3, DisksFrame
<1>trxs. TrxsOk'
  <2> SUFFICES ASSUME NEW u \in Trx PROVE TrxOk(u)'
    BY DEF TrxsOk
  <2>1. TrxOk(u) /\ u \in Actors
    BY <1>1, Who DEF TrxsOk
  <2>2. CASE u # a
    BY <1>2, <1>3, <2>1, <2>2, TrxFrame
  <2>3. CASE u = a
    BY <1>2, <1>3, <2>1, <2>3 DEF TrxOk, InBinlog, Durable, InEngine, Requesting, Marking
  <2> QED BY <2>2, <2>3
<1>members. MembersOk'
  <2>1. Within({"write"}) /\ Within(Leading \ {"write", "order"}) /\ Within({"order"}) /\ Within({"crashed"})
    BY <1>2, <1>3 DEF Within, Leading
  <2> QED BY <1>1, <1>3, <2>1, MembersFrame
<1>request. RequestOk'
  <2>1. Kept({"checkpoint", "request"})
    BY <1>2, <1>3 DEF Kept
  <2>2. \A l \in Logs : Stays(l)
    BY <1>3, StaysFrame
  <2>3. Len(elog') = Len(elog) /\ Len(elog) \in Nat /\ flushed' = flushed /\ flushed \in Nat
    BY <1>1, <1>3, DiskTypes
  <2>4. Len(elog) <= Len(elog') /\ flushed <= flushed'
    BY <2>3
  <2> QED BY <1>1, <1>3, <2>1, <2>2, <2>4, <1>types, RequestFrame, ListLogs
<1>flush. FlushOk'
  BY <1>1, <1>3, FlushFrame
<1>checks. CheckpointsOk'
  BY <1>1, <1>3, CheckpointsFrame
<1>last. LastOk'
  <2>1. \A b \in Threads : pc'[b] # "rotate_index"
    BY <1>2, <1>only, Who DEF LogHolders
  <2>2. IsLast(blog[indexed], c)'
    BY <1>3, <1>4, <1>7 DEF IsLast
  <2>3. head' <= c /\ first' <= c
    BY <1>1, <1>3, <1>5, <1>6, <1>nat DEF IndexOk
  <2>4. \A b \in Actors : pc'[b] = "done_lock" <=> pc[b] = "done_lock"
    BY <1>2
  <2> QED BY <1>1, <1>3, <1>6, <2>1, <2>2, <2>3, <2>4 DEF LastOk
<1>dones. DoneOk'
  <2>1. Within(Marking)
    BY <1>2, <1>3 DEF Within, Marking
  <2> QED BY <1>1, <1>3, <2>1, DoneFrame
<1>hold. HoldOk'
  <2>1. Kept({"done"})
    BY <1>2, <1>3 DEF Kept
  <2> QED BY <1>1, <1>3, <2>1, HoldFrame
<1>tokens. TokensOk'
  <2>1. Kept({"request", "notify", "done"})
    BY <1>2, <1>3 DEF Kept
  <2>2. \A u \in NeedUnlog : Counted(u)' <=> Counted(u)
    <3>1. Within(CountedLabels) /\ Within(Marking) /\ Within({"done"}) /\ Within({"follow"}) /\ Within({"write", "sync"})
      BY <1>2, <1>3 DEF Within, CountedLabels, Marking
    <3> QED BY <1>3, <3>1, CountedFrame, BinlogXaAssumption
  <2>3. ASSUME NEW at, LeftOk(at) PROVE LeftOk(at)'
    <3>1. Within({"next_stage", "order", "checkpoint"}) /\ Within({"crashed"})
      BY <1>2, <1>3 DEF Within
    <3>2. \A l : DoneLog(l) => DoneLog(l)'
      BY <1>3 DEF DoneLog, CommitBy, InFile
    <3> QED BY <1>3, <2>3, <3>1, <3>2, LeftFrame
  <2> QED BY <1>1, <1>3, <2>1, <2>2, <2>3, TokensFrame DEF bgVars
<1> QED BY <1>types, <1>labels, <1>locks, <1>groups, <1>rotated, <1>index, <1>synced, <1>disks, <1>trxs,
     <1>members, <1>request, <1>flush, <1>checks, <1>last, <1>dones, <1>hold, <1>tokens DEF XaInv

\* LOCK_after_binlog_sync is taken before LOCK_log is released.
LEMMA AfterSyncStep ==
    ASSUME XaInv, NEW a \in Threads, AfterSync(a), UNCHANGED sync_period
    PROVE  XaInv'
<1>1. /\ XaTypes /\ LabelsOk /\ LocksOk /\ GroupsOk /\ RotatedOk /\ IndexOk /\ SyncedOk /\ DisksOk /\ TrxsOk
      /\ MembersOk /\ RequestOk /\ FlushOk /\ CheckpointsOk /\ LastOk /\ DoneOk /\ HoldOk /\ TokensOk
  BY DEF XaInv
<1>2. /\ a \in Actors /\ pc[a] = "next_stage" /\ pc'[a] = "order"
      /\ \A b \in Actors : b # a => pc'[b] = pc[b]
  BY <1>1, Who, GotoFacts DEF AfterSync, At
<1>3. UNCHANGED <<elog, flushed, blog, synced, first, indexed, inuse, current, head, xid_count, bg_queue,
                  next_in_queue, log_requests, group, rotated, done, req, to_notify, flush_notify, bg,
                  lost, crashes>>
  BY DEF AfterSync, diskVars, listVars, lockVars, bgVars, ctlVars
<1>only. \A b \in Actors : b # a => pc[b] \notin LogHolders
  BY <1>1, <1>2, OnlyHolder DEF LogHolders
<1>nat. /\ current \in Nat /\ head \in Nat /\ indexed \in Nat /\ first \in Nat /\ MaxLogs \in Nat
        /\ 1 <= head /\ head <= current /\ current <= MaxLogs
  BY <1>1, DiskTypes
<1>4. LOCK_after_binlog_sync = NONE /\ LOCK_after_binlog_sync' = a /\ LOCK_log' = NONE
  BY DEF AfterSync
<1>types. XaTypes'
  <2>1. pc' \in [Actors -> TrxLabels \cup BgLabels]
    BY <1>1, <1>2, GotoType DEF AfterSync, TrxLabels, FlusherLabels, BgLabels, Marking
  <2> QED BY <1>1, <1>3, <2>1 DEF XaTypes
<1>labels. LabelsOk'
  BY <1>1, <1>2, Who DEF LabelsOk, TrxLabels, FlusherLabels, BgLabels, Marking
<1>locks. LocksOk'
  <2>1. \A b \in Actors : pc[b] # "order"
    BY <1>1, <1>4, Who DEF LocksOk
  <2> QED BY <1>2, <1>4, <1>only, <2>1, Who DEF LocksOk, LogHolders
<1>groups. GroupsOk'
  <2>1. Within(Leading) /\ Within({"follow"})
    BY <1>2, <1>3 DEF Within, Leading
  <2>2. group \in [Threads -> Seq(Trx)]
    BY <1>1 DEF XaTypes
  <2> QED BY <1>1, <1>3, <2>1, <2>2, GroupsFrame
<1>rotated. RotatedOk'
  BY <1>1, <1>2, <1>3, <1>nat, Who DEF RotatedOk, Requesting
<1>index. IndexOk'
  <2>1. Kept({"rotate_list"})
    BY <1>2, <1>3 DEF Kept
  <2> QED BY <1>1, <1>3, <2>1, IndexFrame
<1>synced. SyncedOk'
  <2>1. Kept({"sync"})
    BY <1>2, <1>3 DEF Kept
  <2> QED BY <1>1, <1>3, <2>1, SyncedFrame
<1>disks. DisksOk'
  BY <1>1, <1>3, DisksFrame
<1>trxs. TrxsOk'
  <2> SUFFICES ASSUME NEW u \in Trx PROVE TrxOk(u)'
    BY DEF TrxsOk
  <2>1. TrxOk(u) /\ u \in Actors
    BY <1>1, Who DEF TrxsOk
  <2>2. CASE u # a
    BY <1>2, <1>3, <2>1, <2>2, TrxFrame
  <2>3. CASE u = a
    BY <1>2, <1>3, <2>1, <2>3 DEF TrxOk, InBinlog, Durable, InEngine, Requesting, Marking
  <2> QED BY <2>2, <2>3
<1>members. MembersOk'
  <2>1. ASSUME NEW b \in Threads, NEW u \in Range(group[b]) PROVE MemberOk(b, u)'
    <3>1. MemberOk(b, u) /\ pc[b] \in Leading
      BY <1>1 DEF MembersOk, GroupsOk
    <3>2. FileOf(b)' = FileOf(b) /\ (\A l : InFile(u, l)' <=> InFile(u, l)) /\ (InBinlog(u)' <=> InBinlog(u))
          /\ (\A k : (Durable(k, u)' <=> Durable(k, u)) /\ (InEngine(k, u)' <=> InEngine(k, u)))
      BY <1>3 DEF FileOf, InFile, InBinlog, Durable, InEngine
    <3>3. CASE b # a
      <4>1. pc'[b] = pc[b]
        BY <1>2, <3>3, Who
      <4> QED BY <3>1, <3>2, <4>1 DEF MemberOk
    <3>4. CASE b = a
      <4>1. InFile(u, FileOf(a))
        BY <1>2, <3>1, <3>4 DEF MemberOk, Leading
      <4>2. FileOf(a) \in Logs
        <5>1. rotated[a] # 0 => rotated[a] \in Logs
          BY <1>1, RotatedLog
        <5> QED BY <1>1, <5>1, DiskTypes DEF FileOf
      <4>3. InBinlog(u)
        BY <4>1, <4>2 DEF InBinlog, InFile
      <4> QED BY <1>2, <3>1, <3>2, <3>4, <4>3 DEF MemberOk
    <3> QED BY <3>3, <3>4
  <2>2. Running' <=> Running
    BY <1>2, Who DEF Running, At
  <2> QED BY <1>1, <1>3, <2>1, <2>2 DEF MembersOk, InBinlog, InEngine
<1>request. RequestOk'
  <2>1. Kept({"checkpoint", "request"})
    BY <1>2, <1>3 DEF Kept
  <2>2. \A l \in Logs : Stays(l)
    BY <1>3, StaysFrame
  <2>3. Len(elog') = Len(elog) /\ Len(elog) \in Nat /\ flushed' = flushed /\ flushed \in Nat
    BY <1>1, <1>3, DiskTypes
  <2>4. Len(elog) <= Len(elog') /\ flushed <= flushed'
    BY <2>3
  <2> QED BY <1>1, <1>3, <2>1, <2>2, <2>4, <1>types, RequestFrame, ListLogs
<1>flush. FlushOk'
  BY <1>1, <1>3, FlushFrame
<1>checks. CheckpointsOk'
  BY <1>1, <1>3, CheckpointsFrame
<1>last. LastOk'
  <2>1. Kept({"rotate_index", "done_lock", "done_write", "crashed"})
    BY <1>2, <1>3 DEF Kept
  <2> QED BY <1>1, <1>3, <2>1, LastFrame
<1>dones. DoneOk'
  <2>1. Within(Marking)
    BY <1>2, <1>3 DEF Within, Marking
  <2> QED BY <1>1, <1>3, <2>1, DoneFrame
<1>hold. HoldOk'
  <2>1. Kept({"done"})
    BY <1>2, <1>3 DEF Kept
  <2> QED BY <1>1, <1>3, <2>1, HoldFrame
<1>tokens. TokensOk'
  <2>1. Kept({"request", "notify", "done"})
    BY <1>2, <1>3 DEF Kept
  <2>2. \A u \in NeedUnlog : Counted(u)' <=> Counted(u)
    <3>1. Within(CountedLabels) /\ Within(Marking) /\ Within({"done"}) /\ Within({"follow"}) /\ Within({"write", "sync"})
      BY <1>2, <1>3 DEF Within, CountedLabels, Marking
    <3> QED BY <1>3, <3>1, CountedFrame, BinlogXaAssumption
  <2>3. ASSUME NEW at, LeftOk(at) PROVE LeftOk(at)'
    <3>1. Within({"next_stage", "order", "checkpoint"}) /\ Within({"crashed"})
      BY <1>2, <1>3 DEF Within
    <3>2. \A l : DoneLog(l) => DoneLog(l)'
      BY <1>3 DEF DoneLog, CommitBy, InFile
    <3> QED BY <1>3, <2>3, <3>1, <3>2, LeftFrame
  <2> QED BY <1>1, <1>3, <2>1, <2>2, <2>3, TokensFrame DEF bgVars
<1> QED BY <1>types, <1>labels, <1>locks, <1>groups, <1>rotated, <1>index, <1>synced, <1>disks, <1>trxs,
     <1>members, <1>request, <1>flush, <1>checks, <1>last, <1>dones, <1>hold, <1>tokens DEF XaInv

\* Initial entries without pending transactions leave the list.
LEMMA DropEntriesStep ==
    ASSUME XaInv, NEW a \in Actors, DropEntries(a), UNCHANGED sync_period
    PROVE  XaInv'
<1>1. /\ XaTypes /\ LabelsOk /\ LocksOk /\ GroupsOk /\ RotatedOk /\ IndexOk /\ SyncedOk /\ DisksOk /\ TrxsOk
      /\ MembersOk /\ RequestOk /\ FlushOk /\ CheckpointsOk /\ LastOk /\ DoneOk /\ HoldOk /\ TokensOk
  BY DEF XaInv
<1>2. /\ a \in Actors /\ pc[a] = "done_lock" /\ pc'[a] = "done_write"
      /\ \A b \in Actors : b # a => pc'[b] = pc[b]
  BY <1>1, Who, GotoFacts DEF DropEntries, At
<1>3. UNCHANGED <<elog, flushed, blog, synced, first, indexed, inuse, current, xid_count,
                  LOCK_after_binlog_sync, bg_queue, next_in_queue, log_requests, group, rotated, done,
                  req, to_notify, flush_notify, bg, lost, crashes>>
  BY DEF DropEntries, diskVars, listVars, lockVars, bgVars, ctlVars
<1>4. LOCK_log = NONE /\ LOCK_log' = a /\ head' = Min({l \in head..current : l = current \/ xid_count[l] > 0})
  BY DEF DropEntries
<1>nat. /\ current \in Nat /\ head \in Nat /\ indexed \in Nat /\ first \in Nat /\ MaxLogs \in Nat
        /\ 1 <= head /\ head <= current /\ current <= MaxLogs
  BY <1>1, DiskTypes
<1>only. \A b \in Actors : pc[b] \notin LogHolders
  BY <1>1, <1>4, Who DEF LocksOk
<1>idx. indexed = current
  <2>1. \A b \in Threads : pc[b] # "rotate_list"
    BY <1>only, Who DEF LogHolders
  <2> QED BY <1>1, <2>1, IndexedIs
<1>5. head' \in head..current /\ (head' = current \/ xid_count[head'] > 0)
      /\ \A l \in head..current : l < head' => l # current /\ ~(xid_count[l] > 0)
  <2> DEFINE kept == {l \in head..current : l = current \/ xid_count[l] > 0}
  <2>1. kept \in SUBSET Nat /\ kept # {}
    <3>1. current \in kept
      BY <1>nat
    <3> QED BY <1>nat, <3>1
  <2>2. head' = Min(kept)
    BY <1>4
  <2>3. head' \in kept /\ \A y \in kept : head' <= y
    <3> HIDE DEF kept
    <3> QED BY <2>1, <2>2, MinFacts
  <2>4. ASSUME NEW l \in head..current, l < head' PROVE l # current /\ ~(xid_count[l] > 0)
    <3>1. l \notin kept
      BY <1>nat, <2>3, <2>4
    <3> QED BY <3>1
  <2> QED BY <2>3, <2>4
<1>6. \A l \in Logs : xid_count[l] \in Nat
  BY <1>1 DEF XaTypes
<1>types. XaTypes'
  <2>1. pc' \in [Actors -> TrxLabels \cup BgLabels]
    BY <1>1, <1>2, GotoType DEF DropEntries, TrxLabels, FlusherLabels, BgLabels, Marking
  <2>2. head' \in 1..current
    BY <1>5, <1>nat
  <2> QED BY <1>1, <1>3, <2>1, <2>2 DEF XaTypes
<1>labels. LabelsOk'
  BY <1>1, <1>2, Who DEF LabelsOk, TrxLabels, FlusherLabels, BgLabels, Marking
<1>locks. LocksOk'
  BY <1>1, <1>2, <1>3, <1>4, <1>only, Who DEF LocksOk, LogHolders
<1>groups. GroupsOk'
  <2>1. Within(Leading) /\ Within({"follow"})
    BY <1>2, <1>3 DEF Within, Leading
  <2>2. group \in [Threads -> Seq(Trx)]
    BY <1>1 DEF XaTypes
  <2> QED BY <1>1, <1>3, <2>1, <2>2, GroupsFrame
<1>rotated. RotatedOk'
  <2>1. Kept((Leading \cup Requesting) \ {"write", "sync"})
    BY <1>2, <1>3 DEF Kept, Leading, Requesting
  <2> QED BY <1>1, <1>3, <2>1, RotatedFrame
<1>index. IndexOk'
  <2>1. first <= head'
    BY <1>1, <1>5, <1>nat DEF IndexOk
  <2>2. \A b \in Threads : pc'[b] # "rotate_list"
    BY <1>2, <1>only, Who DEF LogHolders
  <2> QED BY <1>1, <1>3, <1>idx, <2>1, <2>2 DEF IndexOk, InFile
<1>synced. SyncedOk'
  <2>1. Kept({"sync"})
    BY <1>2, <1>3 DEF Kept
  <2> QED BY <1>1, <1>3, <2>1, SyncedFrame
<1>disks. DisksOk'
  BY <1>1, <1>3, DisksFrame
<1>trxs. TrxsOk'
  <2> SUFFICES ASSUME NEW u \in Trx PROVE TrxOk(u)'
    BY DEF TrxsOk
  <2>1. TrxOk(u) /\ u \in Actors
    BY <1>1, Who DEF TrxsOk
  <2>2. CASE u # a
    BY <1>2, <1>3, <2>1, <2>2, TrxFrame
  <2>3. CASE u = a
    BY <1>2, <1>3, <2>1, <2>3 DEF TrxOk, InBinlog, Durable, InEngine, Requesting, Marking
  <2> QED BY <2>2, <2>3
<1>members. MembersOk'
  <2>1. Within({"write"}) /\ Within(Leading \ {"write", "order"}) /\ Within({"order"}) /\ Within({"crashed"})
    BY <1>2, <1>3 DEF Within, Leading
  <2> QED BY <1>1, <1>3, <2>1, MembersFrame
<1>request. RequestOk'
  <2>1. Kept({"checkpoint", "request"})
    BY <1>2, <1>3 DEF Kept
  <2>2. \A l \in Logs : Stays(l)
    BY <1>3, StaysFrame
  <2>3. Len(elog') = Len(elog) /\ Len(elog) \in Nat /\ flushed' = flushed /\ flushed \in Nat
    BY <1>1, <1>3, DiskTypes
  <2>4. Len(elog) <= Len(elog') /\ flushed <= flushed'
    BY <2>3
  <2> QED BY <1>1, <1>3, <2>1, <2>2, <2>4, <1>types, RequestFrame, ListLogs
<1>flush. FlushOk'
  BY <1>1, <1>3, FlushFrame
<1>checks. CheckpointsOk'
  BY <1>1, <1>3, CheckpointsFrame
<1>last. LastOk'
  <2>1. \A b \in Threads : pc'[b] # "rotate_index"
    BY <1>2, <1>only, Who DEF LogHolders
  <2>2. Window'
    BY <1>2 DEF Window
  <2>3. PICK c \in Logs : IsLast(blog[indexed], c) /\ (~PurgeInWindow /\ sync_period = 1 => first <= c)
    BY <1>1 DEF LastOk
  <2>4. IsLast(blog[indexed], c)' /\ (~PurgeInWindow /\ sync_period = 1 => first' <= c)
    BY <1>3, <2>3 DEF IsLast
  <2>5. ~(head' # current' /\ xid_count'[head'] = 0)
    <3>1. head' \in Logs
      BY <1>5, <1>nat DEF Logs
    <3> QED BY <1>3, <1>5, <1>6, <3>1
  <2>6. ASSUME NEW l \in Logs, l < head' PROVE xid_count'[l] = 0
    <3>1. CASE l < head
      BY <1>1, <1>3, <3>1 DEF LastOk
    <3>2. CASE ~(l < head)
      <4>1. l \in head..current
        BY <1>5, <1>nat, <2>6, <3>2 DEF Logs
      <4> QED BY <1>3, <1>5, <1>6, <2>6, <4>1
    <3> QED BY <3>1, <3>2
  <2> QED BY <1>1, <1>3, <2>1, <2>2, <2>4, <2>5, <2>6 DEF LastOk
<1>dones. DoneOk'
  <2>1. Within(Marking)
    BY <1>2, <1>3 DEF Within, Marking
  <2> QED BY <1>1, <1>3, <2>1, DoneFrame
<1>hold. HoldOk'
  <2>1. Kept({"done"})
    BY <1>2, <1>3 DEF Kept
  <2> QED BY <1>1, <1>3, <2>1, HoldFrame
<1>tokens. TokensOk'
  <2>1. Kept({"request", "notify", "done"})
    BY <1>2, <1>3 DEF Kept
  <2>2. \A u \in NeedUnlog : Counted(u)' <=> Counted(u)
    <3>1. Within(CountedLabels) /\ Within(Marking) /\ Within({"done"}) /\ Within({"follow"}) /\ Within({"write", "sync"})
      BY <1>2, <1>3 DEF Within, CountedLabels, Marking
    <3> QED BY <1>3, <3>1, CountedFrame, BinlogXaAssumption
  <2>3. ASSUME NEW at, LeftOk(at) PROVE LeftOk(at)'
    <3>1. Within({"next_stage", "order", "checkpoint"}) /\ Within({"crashed"})
      BY <1>2, <1>3 DEF Within
    <3>2. \A l : DoneLog(l) => DoneLog(l)'
      BY <1>3 DEF DoneLog, CommitBy, InFile
    <3> QED BY <1>3, <2>3, <3>1, <3>2, LeftFrame
  <2> QED BY <1>1, <1>3, <2>1, <2>2, <2>3, TokensFrame DEF bgVars
<1> QED BY <1>types, <1>labels, <1>locks, <1>groups, <1>rotated, <1>index, <1>synced, <1>disks, <1>trxs,
     <1>members, <1>request, <1>flush, <1>checks, <1>last, <1>dones, <1>hold, <1>tokens DEF XaInv

\* The group's records come last in the current file; none is counted before it is synced.
LEMMA WriteGroupStep ==
    ASSUME XaInv, NEW a \in Threads, WriteGroup(a), UNCHANGED sync_period
    PROVE  XaInv'
<1>1. /\ XaTypes /\ LabelsOk /\ LocksOk /\ GroupsOk /\ RotatedOk /\ IndexOk /\ SyncedOk /\ DisksOk /\ TrxsOk
      /\ MembersOk /\ RequestOk /\ FlushOk /\ CheckpointsOk /\ LastOk /\ DoneOk /\ HoldOk /\ TokensOk
  BY DEF XaInv
<1>2. /\ a \in Actors /\ pc[a] = "write" /\ pc'[a] = "sync"
      /\ \A b \in Actors : b # a => pc'[b] = pc[b]
  BY <1>1, Who, GotoFacts DEF WriteGroup, At
<1>3. UNCHANGED <<elog, flushed, synced, first, indexed, inuse, current, head, xid_count, LOCK_log,
                  LOCK_after_binlog_sync, bg_queue, next_in_queue, log_requests, group, rotated, done,
                  req, to_notify, flush_notify, bg, lost, crashes>>
  BY DEF WriteGroup, diskVars, listVars, lockVars, bgVars, ctlVars
<1>only. \A b \in Actors : b # a => pc[b] \notin LogHolders
  BY <1>1, <1>2, OnlyHolder DEF LogHolders
<1>nat. /\ current \in Nat /\ head \in Nat /\ indexed \in Nat /\ first \in Nat /\ MaxLogs \in Nat
        /\ 1 <= head /\ head <= current /\ current <= MaxLogs
  BY <1>1, DiskTypes
<1>idx. indexed = current
  <2>1. \A b \in Threads : pc[b] # "rotate_list"
    BY <1>2, <1>only, Who DEF LogHolders
  <2> QED BY <1>1, <2>1, IndexedIs
<1>grp. group[a] \in Seq(Trx) /\ Range(group[a]) \subseteq Trx /\ rotated[a] = 0
  BY <1>1, <1>2, GroupTypes DEF RotatedOk
<1>cur. current \in Logs /\ blog[current] \in Seq(LogRecords) /\ Len(blog[current]) \in Nat
        /\ DOMAIN blog[current] = 1..Len(blog[current]) /\ synced \in 1..Len(blog[current])
  BY <1>1, <1>idx, DiskTypes DEF XaTypes
<1>4. PICK s \in Seq(LogRecords) :
        /\ Len(s) \in Nat
        /\ \A i \in 1..Len(s) : \E t \in Range(group[a]) : s[i] = Xid(t)
        /\ \A t : Xid(t) \in Range(s) <=> t \in Range(group[a])
        /\ blog' = [blog EXCEPT ![current] = blog[current] \o s]
  <2>1. PICK s : s = [i \in DOMAIN group[a] |-> Xid(group[a][i])]
    OBVIOUS
  <2>2. /\ s \in Seq(LogRecords) /\ \A i \in 1..Len(s) : \E t \in Range(group[a]) : s[i] = Xid(t)
        /\ \A t : Xid(t) \in Range(s) <=> t \in Range(group[a])
    BY <1>grp, <2>1, XidsFacts
  <2>3. blog' = [blog EXCEPT ![current] = blog[current] \o s]
    BY <2>1 DEF WriteGroup
  <2> QED BY <2>2, <2>3, LenProperties
<1>5. /\ \A l \in Logs : l # current => blog'[l] = blog[l]
      /\ blog' \in [Logs -> Seq(LogRecords)]
      /\ Len(blog'[current]) = Len(blog[current]) + Len(s)
      /\ \A i \in 1..Len(blog[current]) : blog'[current][i] = blog[current][i]
      /\ \A i \in 1..Len(s) : blog'[current][Len(blog[current]) + i] = s[i]
      /\ \A t : \A l \in Logs : InFile(t, l)' <=> InFile(t, l) \/ (l = current /\ t \in Range(group[a]))
      /\ DOMAIN blog'[current] = 1..Len(blog'[current])
  <2>1. blog \in [Logs -> Seq(LogRecords)]
    BY <1>1 DEF XaTypes
  <2>2. blog'[current] = blog[current] \o s /\ \A l \in Logs : l # current => blog'[l] = blog[l]
    BY <1>4, <1>cur, <2>1
  <2>3. /\ blog'[current] \in Seq(LogRecords) /\ Extends(blog[current], blog'[current])
        /\ Len(blog'[current]) = Len(blog[current]) + Len(s)
        /\ \A i \in 1..Len(s) : blog'[current][Len(blog[current]) + i] = s[i]
        /\ Range(blog'[current]) = Range(blog[current]) \cup Range(s)
    BY <1>cur, <2>2, ConcatFacts
  <2>4. blog' \in [Logs -> Seq(LogRecords)]
    BY <1>4, <1>cur, <2>1, <2>2, <2>3
  <2>5. ASSUME NEW t, NEW l \in Logs
        PROVE InFile(t, l)' <=> InFile(t, l) \/ (l = current /\ t \in Range(group[a]))
    <3>1. CASE l = current
      BY <1>4, <2>3, <3>1 DEF InFile, Xid
    <3>2. CASE l # current
      BY <2>2, <3>2 DEF InFile
    <3> QED BY <3>1, <3>2
  <2>6. DOMAIN blog'[current] = 1..Len(blog'[current])
    BY <2>3, LenProperties
  <2> QED BY <2>2, <2>3, <2>4, <2>5, <2>6 DEF Extends
<1>6. /\ \A t : InBinlog(t)' <=> InBinlog(t) \/ t \in Range(group[a])
      /\ \A l \in Logs : l < current => Stays(l) /\ (DoneLog(l) => DoneLog(l)')
      /\ \A k, t : (InEngine(k, t)' <=> InEngine(k, t)) /\ (Durable(k, t)' <=> Durable(k, t))
  <2>1. \A t : InBinlog(t)' <=> InBinlog(t) \/ t \in Range(group[a])
    BY <1>5, <1>cur DEF InBinlog, InFile
  <2>2. ASSUME NEW l \in Logs, l < current PROVE Stays(l) /\ (DoneLog(l) => DoneLog(l)')
    <3>1. blog'[l] = blog[l]
      BY <1>5, <1>nat, <2>2
    <3> QED BY <1>3, <3>1 DEF Stays, DoneLog, CommitBy, InFile
  <2> QED BY <1>3, <2>1, <2>2 DEF InEngine, Durable
<1>types. XaTypes'
  <2>1. pc' \in [Actors -> TrxLabels \cup BgLabels]
    BY <1>1, <1>2, GotoType DEF WriteGroup, TrxLabels, FlusherLabels, BgLabels, Marking
  <2>2. synced \in 1..Len(blog'[indexed])
    <3>1. synced \in 1..Len(blog[indexed])
      BY <1>1 DEF XaTypes
    <3> QED BY <1>4, <1>5, <1>cur, <1>idx, <3>1
  <2> QED BY <1>1, <1>3, <2>1, <2>2, <1>5 DEF XaTypes
<1>labels. LabelsOk'
  BY <1>1, <1>2, Who DEF LabelsOk, TrxLabels, FlusherLabels, BgLabels, Marking
<1>locks. LocksOk'
  <2>1. Within(LogHolders) /\ Within({"order"})
    BY <1>2, <1>3 DEF Within, LogHolders
  <2> QED BY <1>1, <1>3, <2>1, LocksFrame DEF lockVars
<1>groups. GroupsOk'
  <2>1. Within(Leading) /\ Within({"follow"})
    BY <1>2, <1>3 DEF Within, Leading
  <2>2. group \in [Threads -> Seq(Trx)]
    BY <1>1 DEF XaTypes
  <2> QED BY <1>1, <1>3, <2>1, <2>2, GroupsFrame
<1>rotated. RotatedOk'
  <2>1. Kept((Leading \cup Requesting) \ {"write", "sync"})
    BY <1>2, <1>3 DEF Kept, Leading, Requesting
  <2> QED BY <1>1, <1>3, <2>1, RotatedFrame
<1>index. IndexOk'
  <2>1. \A t \in Trx, l \in Logs : InFile(t, l)' => l <= current
    BY <1>1, <1>5, <1>nat DEF IndexOk
  <2>2. \A b \in Threads : pc'[b] # "rotate_list"
    BY <1>2, <1>only, Who DEF LogHolders
  <2>3. blog'[indexed][1] = blog[indexed][1]
    BY <1>5, <1>cur, <1>idx
  <2> QED BY <1>1, <1>3, <1>idx, <2>1, <2>2, <2>3 DEF IndexOk
<1>synced. SyncedOk'
  <2> SUFFICES ASSUME sync_period = 1, NEW i \in DOMAIN blog'[current], i > synced
               PROVE  \E t \in Range(group[a]) : blog'[current][i] = Xid(t)
    BY <1>2, <1>3, <1>idx DEF SyncedOk
  <2>1. ~(i <= Len(blog[current]))
    <3> SUFFICES ASSUME i <= Len(blog[current]) PROVE FALSE
      OBVIOUS
    <3>1. i \in DOMAIN blog[indexed]
      BY <1>5, <1>cur, <1>idx
    <3>2. \E b \in Threads : pc[b] = "sync"
      BY <1>1, <3>1 DEF SyncedOk
    <3> QED BY <1>2, <1>only, <3>2, Who DEF LogHolders
  <2>2. PICK j \in 1..Len(s) : i = Len(blog[current]) + j
    <3>1. i - Len(blog[current]) \in 1..Len(s)
      BY <1>4, <1>5, <1>cur, <2>1
    <3> QED BY <1>5, <1>cur, <3>1
  <2> QED BY <1>4, <1>5, <2>2
<1>disks. DisksOk'
  <2>1. ASSUME NEW u \in Trx PROVE DiskOk(u)'
    <3>1. DiskOk(u)
      BY <1>1 DEF DisksOk
    <3>2. CASE u \in Range(group[a])
      <4>1. Durable("prepare", u) /\ ~InEngine("rollback", u) /\ ~InBinlog(u)
        BY <1>1, <1>2, <3>2 DEF MembersOk, MemberOk
      <4>2. \A l \in Logs : ~InFile(u, l)
        BY <4>1 DEF InBinlog, InFile
      <4>3. \A l, m \in Logs : InFile(u, l)' /\ InFile(u, m)' => l = m
        BY <1>5, <4>2
      <4> QED BY <1>6, <3>1, <4>1, <4>3 DEF DiskOk
    <3>3. CASE u \notin Range(group[a])
      <4>1. \A l, m \in Logs : InFile(u, l)' /\ InFile(u, m)' => l = m
        BY <1>5, <3>1, <3>3 DEF DiskOk
      <4> QED BY <1>6, <3>1, <3>3, <4>1 DEF DiskOk
    <3> QED BY <3>2, <3>3
  <2> QED BY <1>1, <1>3, <2>1 DEF DisksOk, Distinct
<1>trxs. TrxsOk'
  <2> SUFFICES ASSUME NEW u \in Trx PROVE TrxOk(u)'
    BY DEF TrxsOk
  <2>1. TrxOk(u) /\ u \in Actors
    BY <1>1, Who DEF TrxsOk
  <2>2. CASE u = a
    BY <1>2, <2>2 DEF TrxOk, Requesting, Marking
  <2>3. CASE u # a
    <3>1. pc'[u] = pc[u]
      BY <1>2, <2>1, <2>3
    <3>2. u \in Range(group[a]) => pc[u] = "follow"
      BY <1>1, <2>3 DEF GroupsOk
    <3> QED BY <1>6, <2>1, <3>1, <3>2 DEF TrxOk
  <2> QED BY <2>2, <2>3
<1>members. MembersOk'
  <2>1. ASSUME NEW b \in Threads, NEW u \in Range(group[b]) PROVE MemberOk(b, u)'
    <3>1. MemberOk(b, u) /\ pc[b] \in Leading
      BY <1>1 DEF MembersOk, GroupsOk
    <3>2. CASE b = a
      <4>1. FileOf(a)' = current
        BY <1>3, <1>grp DEF FileOf
      <4>2. InFile(u, FileOf(a))'
        <5>1. \A l \in Logs : l = current => Xid(u) \in Range(blog'[l])
          BY <1>5, <3>2 DEF InFile
        <5> QED BY <1>3, <1>cur, <4>1, <5>1 DEF InFile
      <4> QED BY <1>2, <1>6, <3>1, <3>2, <4>2 DEF MemberOk
    <3>3. CASE b # a
      <4>1. pc[b] = "order" /\ pc'[b] = "order"
        BY <1>2, <1>only, <3>1, <3>3, Who DEF LogHolders, Leading
      <4> QED BY <1>6, <3>1, <4>1 DEF MemberOk, Leading
    <3> QED BY <3>2, <3>3
  <2>2. Running' <=> Running
    BY <1>2, Who DEF Running, At
  <2> QED BY <1>1, <1>3, <1>6, <2>1, <2>2 DEF MembersOk
<1>request. RequestOk'
  <2>1. Kept({"checkpoint", "request"})
    BY <1>2, <1>3 DEF Kept
  <2>2. \A l \in Logs : l < current => Stays(l)
    BY <1>6
  <2>3. Len(elog') = Len(elog) /\ Len(elog) \in Nat /\ flushed' = flushed /\ flushed \in Nat
    BY <1>1, <1>3, DiskTypes
  <2>4. Len(elog) <= Len(elog') /\ flushed <= flushed'
    BY <2>3
  <2> QED BY <1>1, <1>3, <2>1, <2>2, <2>4, <1>types, RequestFrame, ListLogs
<1>flush. FlushOk'
  BY <1>1, <1>3, FlushFrame
<1>checks. CheckpointsOk'
  <2> SUFFICES ASSUME NEW l \in Logs, NEW i \in DOMAIN blog'[l], blog'[l][i].type = "checkpoint"
               PROVE  /\ blog'[l][i].arg <= l /\ blog'[l][i].arg <= current
                      /\ \A m \in 1..(blog'[l][i].arg - 1) : DoneLog(m)'
    BY <1>3 DEF CheckpointsOk
  <2>1. i \in DOMAIN blog[l] /\ blog'[l][i] = blog[l][i]
    <3>1. CASE l # current
      BY <1>5, <3>1
    <3>2. CASE l = current
      <4>1. CASE i <= Len(blog[current])
        BY <1>5, <1>cur, <3>2, <4>1
      <4>2. CASE ~(i <= Len(blog[current]))
        <5>1. i - Len(blog[current]) \in 1..Len(s)
          BY <1>4, <1>5, <1>cur, <3>2, <4>2
        <5>2. PICK j \in 1..Len(s) : i = Len(blog[current]) + j
          BY <1>5, <1>cur, <3>2, <5>1
        <5>3. PICK t \in Range(group[a]) : blog'[l][i] = Xid(t)
          BY <1>4, <1>5, <3>2, <5>2
        <5> QED BY <5>3, XidIs
      <4> QED BY <4>1, <4>2
    <3> QED BY <3>1, <3>2
  <2>2. /\ blog[l][i].arg <= l /\ blog[l][i].arg <= current
        /\ \A m \in 1..(blog[l][i].arg - 1) : DoneLog(m)
    BY <1>1, <2>1 DEF CheckpointsOk
  <2>3. blog[l][i].arg \in Logs
    <3>1. blog[l][i] \in LogRecords
      BY <1>1, <2>1, DiskTypes
    <3> QED BY <2>1, <3>1 DEF LogRecords
  <2>4. ASSUME NEW m \in 1..(blog[l][i].arg - 1) PROVE DoneLog(m)'
    <3>1. m \in Logs /\ m < current
      BY <1>nat, <2>2, <2>3 DEF Logs
    <3> QED BY <1>6, <2>2, <3>1
  <2> QED BY <2>1, <2>2, <2>4
<1>last. LastOk'
  <2>1. \A b \in Threads : pc'[b] # "rotate_index"
    BY <1>2, <1>only, Who DEF LogHolders
  <2>2. PICK c \in Logs : /\ IsLast(blog[indexed], c)
                          /\ ~PurgeInWindow /\ sync_period = 1 => first <= c
                          /\ Running /\ ~Window => head <= c
    BY <1>1 DEF LastOk
  <2>3. IsLast(blog[indexed], c)'
    <3>1. PICK i \in 1..Len(blog[current]) : /\ blog[current][i] = Checkpoint(c)
                              /\ \A j \in 1..Len(blog[current]) : j > i => blog[current][j].type # "checkpoint"
      BY <1>cur, <1>idx, <2>2 DEF IsLast
    <3>2. i \in DOMAIN blog'[current] /\ blog'[current][i] = Checkpoint(c)
      BY <1>4, <1>5, <1>cur, <3>1
    <3>3. ASSUME NEW j \in DOMAIN blog'[current], j > i PROVE blog'[current][j].type # "checkpoint"
      <4>1. CASE j <= Len(blog[current])
        <5>1. j \in 1..Len(blog[current])
          BY <1>5, <1>cur, <3>3, <4>1
        <5>2. blog'[current][j] = blog[current][j]
          BY <1>5, <5>1
        <5> QED BY <3>1, <3>3, <5>1, <5>2
      <4>2. CASE ~(j <= Len(blog[current]))
        <5>1. j - Len(blog[current]) \in 1..Len(s)
          BY <1>4, <1>5, <1>cur, <4>2
        <5>2. PICK k \in 1..Len(s) : j = Len(blog[current]) + k
          BY <1>5, <1>cur, <5>1
        <5>3. PICK t \in Range(group[a]) : blog'[current][j] = Xid(t)
          BY <1>4, <1>5, <5>2
        <5> QED BY <5>3, XidIs
      <4> QED BY <4>1, <4>2
    <3> QED BY <1>3, <1>idx, <3>2, <3>3 DEF IsLast, Checkpoint
  <2>4. (Running' <=> Running) /\ (Window' <=> Window)
    BY <1>2, Who DEF Running, At, Window
  <2>5. \A b \in Actors : pc'[b] = "done_lock" <=> pc[b] = "done_lock"
    BY <1>2
  <2> QED BY <1>1, <1>3, <2>1, <2>2, <2>3, <2>4, <2>5 DEF LastOk
<1>dones. DoneOk'
  <2> SUFFICES ASSUME NEW b \in Actors, pc'[b] \in Marking
               PROVE  /\ done[b].log \in 1..current
                      /\ b = BG => done[b].to = "idle" /\ done[b].log < current
                      /\ b = FLUSHER => done[b].to = "end"
                      /\ b \in Trx => done[b].to \in {"unlog", "end"}
                      /\ b \in Trx /\ done[b].to = "end" => b \in NeedUnlog /\ InFile(b, done[b].log)'
    BY <1>3 DEF DoneOk, InFile
  <2>1. pc[b] \in Marking
    BY <1>2 DEF Marking
  <2>2. done[b].log \in 1..current
    BY <1>1, <2>1 DEF DoneOk
  <2>3. done[b].log \in Logs
    BY <1>nat, <2>2 DEF Logs
  <2>4. InFile(b, done[b].log) => InFile(b, done[b].log)'
    <3>1. \A l \in Logs : InFile(b, l) => Xid(b) \in Range(blog'[l])
      BY <1>5 DEF InFile
    <3> QED BY <1>3, <2>3, <3>1 DEF InFile
  <2> QED BY <1>1, <2>1, <2>4 DEF DoneOk
<1>hold. HoldOk'
  <2>1. Kept({"done"})
    BY <1>2, <1>3 DEF Kept
  <2> QED BY <1>1, <1>3, <2>1, HoldFrame
<1>tokens. TokensOk'
  <2>1. PICK at \in [Logs -> Places], q \in Seq(Logs), r \in Seq(Logs) :
          PlacesOk(at, q, r) /\ CountsOk(at) /\ LeftOk(at)
    BY <1>1 DEF TokensOk
  <2>2. Kept({"request", "notify", "done"}) /\ Kept({"done"})
    BY <1>2, <1>3 DEF Kept
  <2>3. PlacesOk(at, q, r)'
    BY <1>3, <2>1, <2>2, PlacesFrame DEF bgVars
  <2>4. LeftOk(at)'
    <3>1. Within({"next_stage", "order", "checkpoint"}) /\ Within({"crashed"})
      BY <1>2 DEF Within
    <3>2. \A l \in 1..(current - 1) : DoneLog(l) => DoneLog(l)'
      BY <1>6, <1>nat DEF Logs
    <3> QED BY <1>3, <2>1, <3>1, <3>2, LeftFrame
  <2>5. \A u \in Trx : Counted(u)' <=> Counted(u)
    <3>1. Within(CountedLabels) /\ Within(Marking) /\ Within({"done"}) /\ Within({"follow"}) /\ Within({"write", "sync"})
      BY <1>2 DEF Within, CountedLabels, Marking
    <3> QED BY <1>3, <3>1, CountedFrame
  <2>6. \A u \in Range(group[a]) : ~Counted(u)
    <3> SUFFICES ASSUME NEW u \in Range(group[a]) PROVE ~Counted(u)
      OBVIOUS
    <3>1. u = a \/ pc[u] = "follow"
      BY <1>1 DEF GroupsOk
    <3>2. \A b \in Threads : u \in Range(group[b]) => b = a
      BY <1>1 DEF GroupsOk, Range
    <3> QED BY <1>2, <3>1, <3>2 DEF Counted, CountedLabels, Marking
  <2>7. \A l \in Logs : Unlogged(l)' = Unlogged(l)
    BY <1>5, <2>5, <2>6, BinlogXaAssumption DEF Unlogged
  <2>8. \A b \in Threads : \A l : Holds(b, l)' <=> Holds(b, l)
    BY <1>3, <2>2, HoldsFrame
  <2>9. CountsOk(at)'
    <3>1. \A l \in Logs : (\E b \in Threads : Holds(b, l)') <=> (\E b \in Threads : Holds(b, l))
      BY <2>8
    <3> QED BY <1>3, <2>1, <2>7, <3>1 DEF CountsOk, Bit
  <2> QED BY <2>3, <2>4, <2>9 DEF TokensOk
<1> QED BY <1>types, <1>labels, <1>locks, <1>groups, <1>rotated, <1>index, <1>synced, <1>disks, <1>trxs,
     <1>members, <1>request, <1>flush, <1>checks, <1>last, <1>dones, <1>hold, <1>tokens DEF XaInv

\* The group is synced, and its members that will call unlog() are counted.
LEMMA SyncGroupStep ==
    ASSUME XaInv, NEW a \in Threads, SyncGroup(a), UNCHANGED sync_period
    PROVE  XaInv'
<1>1. /\ XaTypes /\ LabelsOk /\ LocksOk /\ GroupsOk /\ RotatedOk /\ IndexOk /\ SyncedOk /\ DisksOk /\ TrxsOk
      /\ MembersOk /\ RequestOk /\ FlushOk /\ CheckpointsOk /\ LastOk /\ DoneOk /\ HoldOk /\ TokensOk
  BY DEF XaInv
<1>2. /\ a \in Actors /\ pc[a] = "sync" /\ pc'[a] \in {"next_stage", "rotate"} /\ (pc'[a] = "rotate" => current < MaxLogs)
      /\ \A b \in Actors : b # a => pc'[b] = pc[b]
  BY <1>1, Who, GotoFacts DEF SyncGroup, At
<1>3. UNCHANGED <<elog, flushed, blog, first, indexed, inuse, current, head, LOCK_log,
                  LOCK_after_binlog_sync, bg_queue, next_in_queue, log_requests, group, rotated, done,
                  req, to_notify, flush_notify, bg, lost, crashes>>
  BY DEF SyncGroup, diskVars, listVars, lockVars, bgVars, ctlVars
<1>only. \A b \in Actors : b # a => pc[b] \notin LogHolders
  BY <1>1, <1>2, OnlyHolder DEF LogHolders
<1>nat. /\ current \in Nat /\ head \in Nat /\ indexed \in Nat /\ first \in Nat /\ MaxLogs \in Nat
        /\ 1 <= head /\ head <= current /\ current <= MaxLogs
  BY <1>1, DiskTypes
<1>idx. indexed = current
  <2>1. \A b \in Threads : pc[b] # "rotate_list"
    BY <1>2, <1>only, Who DEF LogHolders
  <2> QED BY <1>1, <2>1, IndexedIs
<1>grp. Range(group[a]) \subseteq Trx /\ rotated[a] = 0 /\ a \in Trx
  BY <1>1, <1>2, GroupTypes, Who DEF RotatedOk, LabelsOk, FlusherLabels
<1>cur. current \in Logs /\ Len(blog[current]) \in Nat /\ DOMAIN blog[current] = 1..Len(blog[current])
  BY <1>1, DiskTypes
<1>new. Range(group[a]) \cap NeedUnlog \subseteq Trx /\ Cardinality(Range(group[a]) \cap NeedUnlog) \in Nat
        /\ IsFiniteSet(Range(group[a]) \cap NeedUnlog)
  BY <1>grp, GroupFinite
<1>4. /\ synced' \in {synced, Len(blog[current])} /\ (sync_period = 1 => synced' = Len(blog[current]))
      /\ xid_count' = [xid_count EXCEPT ![current] = @ + Cardinality(Range(group[a]) \cap NeedUnlog)]
  BY DEF SyncGroup, flush_and_sync
<1>5. /\ xid_count \in [Logs -> Nat] /\ xid_count'[current] = xid_count[current] + Cardinality(Range(group[a]) \cap NeedUnlog)
      /\ \A l \in Logs : l # current => xid_count'[l] = xid_count[l]
  <2>1. xid_count \in [Logs -> Nat]
    BY <1>1 DEF XaTypes
  <2> QED BY <1>4, <1>cur, <2>1
<1>types. XaTypes'
  <2>1. pc' \in [Actors -> TrxLabels \cup BgLabels]
    <3>1. "next_stage" \in TrxLabels \cup BgLabels /\ "rotate" \in TrxLabels \cup BgLabels
      BY DEF TrxLabels, FlusherLabels
    <3> QED BY <1>1, <1>2, <3>1, GotoType DEF SyncGroup
  <2>2. synced' \in 1..Len(blog[indexed])
    <3>1. synced \in 1..Len(blog[indexed])
      BY <1>1 DEF XaTypes
    <3> QED BY <1>4, <1>cur, <1>idx, <3>1
  <2>3. xid_count' \in [Logs -> Nat]
    BY <1>4, <1>5, <1>new, <1>cur
  <2> QED BY <1>1, <1>3, <2>1, <2>2, <2>3 DEF XaTypes
<1>labels. LabelsOk'
  BY <1>1, <1>2, Who DEF LabelsOk, TrxLabels, FlusherLabels, BgLabels, Marking
<1>locks. LocksOk'
  <2>1. Within(LogHolders) /\ Within({"order"})
    BY <1>2, <1>3 DEF Within, LogHolders
  <2> QED BY <1>1, <1>3, <2>1, LocksFrame DEF lockVars
<1>groups. GroupsOk'
  <2>1. Within(Leading) /\ Within({"follow"})
    BY <1>2, <1>3 DEF Within, Leading
  <2>2. group \in [Threads -> Seq(Trx)]
    BY <1>1 DEF XaTypes
  <2> QED BY <1>1, <1>3, <2>1, <2>2, GroupsFrame
<1>rotated. RotatedOk'
  BY <1>1, <1>2, <1>3, <1>grp, <1>nat, Who DEF RotatedOk, Requesting
<1>index. IndexOk'
  <2>1. Kept({"rotate_list"})
    BY <1>2, <1>3 DEF Kept
  <2> QED BY <1>1, <1>3, <2>1, IndexFrame
<1>synced. SyncedOk'
  <2>1. sync_period = 1 => \A i \in DOMAIN blog'[indexed'] : ~(i > synced')
    BY <1>3, <1>4, <1>cur, <1>idx
  <2> QED BY <2>1 DEF SyncedOk
<1>disks. DisksOk'
  BY <1>1, <1>3, DisksFrame
<1>trxs. TrxsOk'
  <2> SUFFICES ASSUME NEW u \in Trx PROVE TrxOk(u)'
    BY DEF TrxsOk
  <2>1. TrxOk(u) /\ u \in Actors
    BY <1>1, Who DEF TrxsOk
  <2>2. CASE u # a
    BY <1>2, <1>3, <2>1, <2>2, TrxFrame
  <2>3. CASE u = a
    BY <1>2, <1>3, <2>1, <2>3 DEF TrxOk, InBinlog, Durable, InEngine, Requesting, Marking
  <2> QED BY <2>2, <2>3
<1>members. MembersOk'
  <2>1. Within({"write"}) /\ Within(Leading \ {"write", "order"}) /\ Within({"order"}) /\ Within({"crashed"})
    BY <1>2, <1>3 DEF Within, Leading
  <2> QED BY <1>1, <1>3, <2>1, MembersFrame
<1>request. RequestOk'
  <2>1. Kept({"checkpoint", "request"})
    BY <1>2, <1>3 DEF Kept
  <2>2. \A l \in Logs : Stays(l)
    BY <1>3, StaysFrame
  <2>3. Len(elog') = Len(elog) /\ Len(elog) \in Nat /\ flushed' = flushed /\ flushed \in Nat
    BY <1>1, <1>3, DiskTypes
  <2>4. Len(elog) <= Len(elog') /\ flushed <= flushed'
    BY <2>3
  <2> QED BY <1>1, <1>3, <2>1, <2>2, <2>4, <1>types, RequestFrame, ListLogs
<1>flush. FlushOk'
  BY <1>1, <1>3, FlushFrame
<1>checks. CheckpointsOk'
  BY <1>1, <1>3, CheckpointsFrame
<1>last. LastOk'
  <2>1. \A b \in Threads : pc'[b] # "rotate_index"
    BY <1>2, <1>only, Who DEF LogHolders
  <2>2. PICK c \in Logs : /\ IsLast(blog[indexed], c)
                          /\ ~PurgeInWindow /\ sync_period = 1 => first <= c
                          /\ Running /\ ~Window => head <= c
    BY <1>1 DEF LastOk
  <2>3. IsLast(blog[indexed], c)'
    BY <1>3, <2>2 DEF IsLast
  <2>4. (Running' <=> Running) /\ (Window' <=> Window)
    BY <1>2, Who DEF Running, At, Window
  <2>5. \A b \in Actors : pc'[b] = "done_lock" <=> pc[b] = "done_lock"
    BY <1>2
  <2>6. head # current => xid_count'[head] = xid_count[head]
    BY <1>1, <1>5, DiskTypes
  <2>7. \A l \in Logs : l < head => xid_count'[l] = 0
    BY <1>1, <1>5, <1>nat DEF LastOk
  <2> QED BY <1>1, <1>3, <2>1, <2>2, <2>3, <2>4, <2>5, <2>6, <2>7 DEF LastOk
<1>dones. DoneOk'
  <2>1. Within(Marking)
    BY <1>2, <1>3 DEF Within, Marking
  <2> QED BY <1>1, <1>3, <2>1, DoneFrame
<1>hold. HoldOk'
  <2>1. Kept({"done"})
    BY <1>2, <1>3 DEF Kept
  <2> QED BY <1>1, <1>3, <2>1, HoldFrame
<1>tokens. TokensOk'
  <2>1. PICK at \in [Logs -> Places], q \in Seq(Logs), r \in Seq(Logs) :
          PlacesOk(at, q, r) /\ CountsOk(at) /\ LeftOk(at)
    BY <1>1 DEF TokensOk
  <2>2. Kept({"request", "notify", "done"}) /\ Kept({"done"})
    BY <1>2, <1>3 DEF Kept
  <2>3. PlacesOk(at, q, r)'
    BY <1>3, <2>1, <2>2, PlacesFrame DEF bgVars
  <2>4. LeftOk(at)'
    <3>1. \A l : DoneLog(l)' <=> DoneLog(l)
      BY <1>3 DEF DoneLog, CommitBy, InFile
    <3>2. \A b \in Threads, l \in Logs : rotated[b] = l /\ pc[b] \in {"next_stage", "order", "checkpoint"}
             => pc'[b] \in {"next_stage", "order", "checkpoint"}
      BY <1>2, Who
    <3>3. Running' <=> Running
      BY <1>2, Who DEF Running, At
    <3>4. \A l \in 1..(current - 1) : l \in Logs
      BY <1>nat DEF Logs
    <3> QED BY <1>3, <2>1, <3>1, <3>2, <3>3, <3>4 DEF LeftOk
  <2>5. \A u \in Trx : Counted(u)' <=> Counted(u) \/ u \in Range(group[a])
    <3> SUFFICES ASSUME NEW u \in Trx PROVE Counted(u)' <=> Counted(u) \/ u \in Range(group[a])
      OBVIOUS
    <3>1. u \in Range(group[a]) => u = a \/ pc[u] = "follow"
      BY <1>1 DEF GroupsOk
    <3>2. \A b \in Threads : u \in Range(group[a]) /\ u \in Range(group[b]) => b = a
      BY <1>1 DEF GroupsOk, Range
    <3>3. \A b \in Threads : b # a => pc'[b] = pc[b]
      BY <1>2, Who
    <3>4. a \in Range(group[a])
      BY <1>1, <1>2, <1>grp DEF GroupsOk, Leading
    <3>5. CASE u = a
      BY <1>2, <3>4, <3>5 DEF Counted, CountedLabels
    <3>6. CASE u # a
      <4>1. pc'[u] = pc[u]
        BY <1>2, <3>6, Who
      <4>2. CASE u \in Range(group[a])
        BY <1>2, <1>3, <3>1, <3>6, <4>1, <4>2 DEF Counted
      <4>3. CASE u \notin Range(group[a])
        BY <1>3, <3>3, <4>1, <4>3 DEF Counted
      <4> QED BY <4>2, <4>3
    <3> QED BY <3>5, <3>6
  <2>6. \A u \in Range(group[a]) : ~Counted(u) /\ InFile(u, current)
    <3> SUFFICES ASSUME NEW u \in Range(group[a]) PROVE ~Counted(u) /\ InFile(u, current)
      OBVIOUS
    <3>1. u = a \/ pc[u] = "follow"
      BY <1>1 DEF GroupsOk
    <3>2. \A b \in Threads : u \in Range(group[b]) => b = a
      BY <1>1 DEF GroupsOk, Range
    <3>3. InFile(u, FileOf(a))
      BY <1>1, <1>2 DEF MembersOk, MemberOk, Leading
    <3> QED BY <1>2, <1>grp, <3>1, <3>2, <3>3 DEF Counted, CountedLabels, Marking, FileOf
  <2>7. \A u \in Trx, l \in Logs : InFile(u, l)' <=> InFile(u, l)
    BY <1>3 DEF InFile
  <2>8. Unlogged(current)' = Unlogged(current) \cup (Range(group[a]) \cap NeedUnlog)
    <3>1. \A u \in Trx : InFile(u, current)' <=> InFile(u, current)
      BY <1>3 DEF InFile
    <3> QED BY <2>5, <2>6, <3>1, BinlogXaAssumption DEF Unlogged
  <2>9. Unlogged(current) \cap (Range(group[a]) \cap NeedUnlog) = {}
    BY <2>6 DEF Unlogged
  <2>10. \A l \in Logs : l # current => Unlogged(l)' = Unlogged(l)
    <3> SUFFICES ASSUME NEW l \in Logs, l # current PROVE Unlogged(l)' = Unlogged(l)
      OBVIOUS
    <3>1. \A u \in Range(group[a]) : ~InFile(u, l)
      BY <1>1, <1>grp, <1>cur, <2>6 DEF DisksOk, DiskOk
    <3> QED BY <2>5, <2>7, <3>1, BinlogXaAssumption DEF Unlogged
  <2>11. Cardinality(Unlogged(current)') = Cardinality(Unlogged(current)) + Cardinality(Range(group[a]) \cap NeedUnlog)
    <3> DEFINE S == Unlogged(current)
               T == Range(group[a]) \cap NeedUnlog
    <3>1. IsFiniteSet(S) /\ IsFiniteSet(T) /\ Cardinality(S) \in Nat /\ Cardinality(T) \in Nat
      BY <1>new, UnloggedFinite
    <3>2. S \cap T = {}
      BY <2>9
    <3>3. Cardinality(S \cup T) = Cardinality(S) + Cardinality(T)
      <4> HIDE DEF S, T
      <4>1. Cardinality(S \cup T) = Cardinality(S) + Cardinality(T) - Cardinality(S \cap T)
        BY <3>1, FS_Union
      <4>2. Cardinality(S \cap T) = 0
        BY <3>2, FS_EmptySet
      <4> QED BY <3>1, <4>1, <4>2
    <3> QED BY <2>8, <3>3
  <2>12. \A b \in Threads : \A l : Holds(b, l)' <=> Holds(b, l)
    BY <1>3, <2>2, HoldsFrame
  <2>13. CountsOk(at)'
    <3> SUFFICES ASSUME NEW l \in Logs
                 PROVE  xid_count'[l] = Cardinality(Unlogged(l)') + Bit(\E b \in Threads : Holds(b, l)') + Bit(at[l] # "none")
      BY DEF CountsOk, Bit
    <3>1. (\E b \in Threads : Holds(b, l)') <=> (\E b \in Threads : Holds(b, l))
      BY <2>12
    <3>2. xid_count[l] = Cardinality(Unlogged(l)) + Bit(\E b \in Threads : Holds(b, l)) + Bit(at[l] # "none")
      BY <2>1 DEF CountsOk
    <3>3. CASE l # current
      BY <1>5, <2>10, <3>1, <3>2, <3>3 DEF Bit
    <3>4. CASE l = current
      <4>1. Unlogged(l)' = Unlogged(current)'
        BY <1>3, <3>4 DEF Unlogged, InFile
      <4>2. Cardinality(Unlogged(l)') = Cardinality(Unlogged(l)) + Cardinality(Range(group[a]) \cap NeedUnlog)
        BY <2>11, <3>4, <4>1
      <4>3. Cardinality(Unlogged(l)) \in Nat
        BY UnloggedFinite
      <4> QED BY <1>5, <1>new, <3>1, <3>2, <3>4, <4>2, <4>3 DEF Bit
    <3> QED BY <3>3, <3>4
  <2> QED BY <2>3, <2>4, <2>13 DEF TokensOk
<1> QED BY <1>types, <1>labels, <1>locks, <1>groups, <1>rotated, <1>index, <1>synced, <1>disks, <1>trxs,
     <1>members, <1>request, <1>flush, <1>checks, <1>last, <1>dones, <1>hold, <1>tokens DEF XaInv

\* The count that rotate() holds keeps the file in the list; the new file names the first one with a count.
LEMMA RotateBeginStep ==
    ASSUME XaInv, NEW a \in Threads, RotateBegin(a), UNCHANGED sync_period
    PROVE  XaInv'
<1>1. /\ XaTypes /\ LabelsOk /\ LocksOk /\ GroupsOk /\ RotatedOk /\ IndexOk /\ SyncedOk /\ DisksOk /\ TrxsOk
      /\ MembersOk /\ RequestOk /\ FlushOk /\ CheckpointsOk /\ LastOk /\ DoneOk /\ HoldOk /\ TokensOk
  BY DEF XaInv
<1>2. /\ a \in Actors /\ pc[a] = "rotate" /\ pc'[a] = "rotate_index"
      /\ \A b \in Actors : b # a => pc'[b] = pc[b]
  BY <1>1, Who, GotoFacts DEF RotateBegin, At
<1>3. UNCHANGED <<elog, flushed, first, indexed, inuse, current, head, LOCK_log,
                  LOCK_after_binlog_sync, bg_queue, next_in_queue, log_requests, group, done, req,
                  to_notify, flush_notify, bg, lost, crashes>>
  BY DEF RotateBegin, diskVars, listVars, lockVars, bgVars, ctlVars
<1>only. \A b \in Actors : b # a => pc[b] \notin LogHolders
  BY <1>1, <1>2, OnlyHolder DEF LogHolders
<1>nat. /\ current \in Nat /\ head \in Nat /\ indexed \in Nat /\ first \in Nat /\ MaxLogs \in Nat
        /\ 1 <= head /\ head <= current /\ current <= MaxLogs
  BY <1>1, DiskTypes
<1>idx. indexed = current
  <2>1. \A b \in Threads : pc[b] # "rotate_list"
    BY <1>2, <1>only, Who DEF LogHolders
  <2> QED BY <1>1, <2>1, IndexedIs
<1>cur. /\ current \in Logs /\ current + 1 \in Logs /\ head \in Logs /\ rotated[a] = 0 /\ Running
        /\ blog \in [Logs -> Seq(LogRecords)] /\ xid_count \in [Logs -> Nat] /\ rotated \in [Threads -> 0..MaxLogs]
  <2>1. current < MaxLogs /\ rotated[a] = 0
    BY <1>1, <1>2 DEF RotatedOk
  <2>2. Running
    BY <1>1, <1>2 DEF LabelsOk, Running, At
  <2>3. blog \in [Logs -> Seq(LogRecords)] /\ xid_count \in [Logs -> Nat] /\ rotated \in [Threads -> 0..MaxLogs]
    BY <1>1 DEF XaTypes
  <2>4. current \in Logs /\ current + 1 \in Logs /\ head \in Logs
    BY <1>nat, <2>1 DEF Logs
  <2> QED BY <2>1, <2>2, <2>3, <2>4
<1>4. /\ rotated' = [rotated EXCEPT ![a] = current]
      /\ xid_count' = [xid_count EXCEPT ![current] = @ + 1]
  BY DEF RotateBegin, RotateMark
<1>5. /\ rotated'[a] = current /\ \A b \in Threads : b # a => rotated'[b] = rotated[b]
      /\ xid_count'[current] = xid_count[current] + 1
      /\ \A l \in Logs : l # current => xid_count'[l] = xid_count[l]
      /\ xid_count' \in [Logs -> Nat] /\ rotated' \in [Threads -> 0..MaxLogs]
  <2>1. current \in 0..MaxLogs
    BY <1>nat
  <2> QED BY <1>4, <1>cur, <2>1
<1>6. PICK c \in head..current :
        /\ xid_count'[c] # 0 /\ (\A l \in head..current : l < c => xid_count'[l] = 0)
        /\ blog' = [blog EXCEPT ![current + 1] = <<Checkpoint(c)>>]
  <2> DEFINE pending == {l \in head..current : xid_count'[l] # 0}
  <2>1. pending \in SUBSET Nat /\ pending # {}
    <3>1. xid_count'[current] # 0
      BY <1>5, <1>cur
    <3>2. current \in pending
      BY <1>nat, <3>1
    <3> QED BY <1>nat, <3>2
  <2>2. blog' = [blog EXCEPT ![current + 1] = <<Checkpoint(Min(pending))>>]
    <3>1. blog' = [blog EXCEPT ![current + 1] = <<Checkpoint(IF pending = {} THEN current + 1 ELSE Min(pending))>>]
      BY DEF RotateBegin
    <3> QED BY <2>1, <3>1
  <2>3. Min(pending) \in pending /\ \A y \in pending : Min(pending) <= y
    <3> HIDE DEF pending
    <3> QED BY <2>1, MinFacts
  <2>4. PICK m : m = Min(pending)
    OBVIOUS
  <2>5. m \in head..current /\ xid_count'[m] # 0
    BY <2>3, <2>4
  <2>6. ASSUME NEW l \in head..current, l < m PROVE xid_count'[l] = 0
    <3>1. l \notin pending
      BY <1>nat, <2>3, <2>4, <2>5, <2>6
    <3> QED BY <3>1
  <2> QED BY <2>2, <2>4, <2>5, <2>6
<1>7. /\ blog'[current + 1] = <<Checkpoint(c)>> /\ c \in Logs /\ c \in Nat
      /\ \A l \in Logs : l # current + 1 => blog'[l] = blog[l]
      /\ blog' \in [Logs -> Seq(LogRecords)]
      /\ \A t : \A l \in Logs : t \in Trx => (InFile(t, l)' <=> InFile(t, l))
  <2>1. c \in Logs /\ c \in Nat
    BY <1>nat, <1>6 DEF Logs
  <2>2. Checkpoint(c) \in LogRecords
    BY <2>1 DEF Checkpoint, LogRecords
  <2>3. <<Checkpoint(c)>> \in Seq(LogRecords) /\ Range(<<Checkpoint(c)>>) = {Checkpoint(c)}
    BY <2>2, OneFacts
  <2>4. /\ blog'[current + 1] = <<Checkpoint(c)>>
        /\ \A l \in Logs : l # current + 1 => blog'[l] = blog[l]
        /\ blog' \in [Logs -> Seq(LogRecords)]
    BY <1>6, <1>cur, <2>3
  <2>5. ASSUME NEW t \in Trx, NEW l \in Logs PROVE InFile(t, l)' <=> InFile(t, l)
    <3>1. CASE l # current + 1
      BY <2>4, <3>1 DEF InFile
    <3>2. CASE l = current + 1
      <4>1. ~InFile(t, l)
        BY <1>1, <1>nat, <3>2 DEF IndexOk
      <4>2. ~InFile(t, l)'
        BY <2>3, <2>4, <3>2, XidIs DEF InFile
      <4> QED BY <4>1, <4>2
    <3> QED BY <3>1, <3>2
  <2> QED BY <2>1, <2>4, <2>5
<1>8. /\ \A t \in Trx : InBinlog(t)' <=> InBinlog(t)
      /\ \A l \in Logs : Stays(l) /\ (DoneLog(l) => DoneLog(l)')
      /\ \A k, t : (InEngine(k, t)' <=> InEngine(k, t)) /\ (Durable(k, t)' <=> Durable(k, t))
  <2>1. \A t \in Trx : InBinlog(t)' <=> InBinlog(t)
    BY <1>7 DEF InBinlog, InFile
  <2>2. \A l \in Logs : Stays(l) /\ (DoneLog(l) => DoneLog(l)')
    BY <1>3, <1>7 DEF Stays, DoneLog, CommitBy, InFile
  <2> QED BY <1>3, <2>1, <2>2 DEF InEngine, Durable
<1>9. \A b \in Threads : ~Holds(b, current)
  <2> SUFFICES ASSUME NEW b \in Threads, Holds(b, current) PROVE FALSE
    OBVIOUS
  <2>1. CASE rotated[b] = current
    <3>1. b # a /\ rotated[b] # 0
      BY <1>cur, <1>nat, <2>1
    <3>2. pc[b] \notin LogHolders
      BY <1>only, <3>1, Who
    <3>3. pc[b] \in {"order", "checkpoint", "request", "notify"}
      BY <1>1, <3>1, <3>2 DEF RotatedOk, LogHolders
    <3> QED BY <1>1, <1>nat, <2>1, <3>3 DEF RotatedOk
  <2>2. CASE pc[b] = "done" /\ done[b].log = current /\ done[b].to = HoldTo(b)
    BY <1>1, <1>nat, <2>2 DEF HoldOk
  <2> QED BY <2>1, <2>2 DEF Holds
<1>types. XaTypes'
  <2>1. pc' \in [Actors -> TrxLabels \cup BgLabels]
    BY <1>1, <1>2, GotoType DEF RotateBegin, TrxLabels, FlusherLabels, BgLabels, Marking
  <2>2. synced' \in 1..Len(blog'[indexed])
    <3>1. synced \in 1..Len(blog[indexed])
      BY <1>1 DEF XaTypes
    <3>2. synced' = Len(blog[indexed])
      BY <1>idx DEF RotateBegin
    <3>3. blog'[indexed] = blog[indexed]
      BY <1>7, <1>cur, <1>nat, <1>idx
    <3>4. Len(blog[indexed]) \in Nat
      BY <1>1, DiskTypes
    <3> QED BY <3>1, <3>2, <3>3, <3>4
  <2> QED BY <1>1, <1>3, <2>1, <2>2, <1>5, <1>7 DEF XaTypes
<1>labels. LabelsOk'
  BY <1>1, <1>2, Who DEF LabelsOk, TrxLabels, FlusherLabels, BgLabels, Marking
<1>locks. LocksOk'
  <2>1. Within(LogHolders) /\ Within({"order"})
    BY <1>2, <1>3 DEF Within, LogHolders
  <2> QED BY <1>1, <1>3, <2>1, LocksFrame DEF lockVars
<1>groups. GroupsOk'
  <2>1. Within(Leading) /\ Within({"follow"})
    BY <1>2, <1>3 DEF Within, Leading
  <2>2. group \in [Threads -> Seq(Trx)]
    BY <1>1 DEF XaTypes
  <2> QED BY <1>1, <1>3, <2>1, <2>2, GroupsFrame
<1>rotated. RotatedOk'
  <2> SUFFICES ASSUME NEW b \in Threads
        PROVE  /\ rotated'[b] # 0 => pc'[b] \in {"rotate_index", "rotate_list", "next_stage", "order",
                                        "checkpoint", "request", "notify"}
               /\ pc'[b] \in {"rotate_index", "rotate_list"} => rotated'[b] = current
               /\ pc'[b] = "next_stage" => rotated'[b] \in {0, current - 1}
               /\ pc'[b] \in {"order", "checkpoint", "request", "notify"} => rotated'[b] < current
               /\ pc'[b] \in Requesting => rotated'[b] # 0
               /\ pc'[b] \in {"rotate", "rotate_index"} => current < MaxLogs
    BY <1>3 DEF RotatedOk
  <2>1. CASE b = a
    BY <1>1, <1>2, <1>5, <2>1 DEF RotatedOk, Requesting
  <2>2. CASE b # a
    BY <1>1, <1>2, <1>5, <2>2, Who DEF RotatedOk
  <2> QED BY <2>1, <2>2
<1>index. IndexOk'
  <2>1. \A t \in Trx, l \in Logs : InFile(t, l)' => l <= current
    BY <1>1, <1>7 DEF IndexOk
  <2>2. \A b \in Threads : pc'[b] # "rotate_list"
    BY <1>2, <1>only, Who DEF LogHolders
  <2>3. blog'[indexed] = blog[indexed]
    BY <1>7, <1>cur, <1>nat, <1>idx
  <2> QED BY <1>1, <1>3, <1>idx, <2>1, <2>2, <2>3 DEF IndexOk
<1>synced. SyncedOk'
  <2>1. blog'[indexed] = blog[indexed] /\ DOMAIN blog[indexed] = 1..Len(blog[indexed]) /\ Len(blog[indexed]) \in Nat
    BY <1>1, <1>7, <1>cur, <1>nat, <1>idx, DiskTypes
  <2>2. \A i \in DOMAIN blog'[indexed'] : ~(i > synced')
    BY <1>3, <1>idx, <2>1 DEF RotateBegin
  <2> QED BY <2>2 DEF SyncedOk
<1>disks. DisksOk'
  <2>1. ASSUME NEW u \in Trx PROVE DiskOk(u)'
    <3>1. DiskOk(u)
      BY <1>1 DEF DisksOk
    <3> QED BY <1>7, <1>8, <3>1 DEF DiskOk
  <2> QED BY <1>1, <1>3, <2>1 DEF DisksOk, Distinct
<1>trxs. TrxsOk'
  <2> SUFFICES ASSUME NEW u \in Trx PROVE TrxOk(u)'
    BY DEF TrxsOk
  <2>1. TrxOk(u) /\ u \in Actors
    BY <1>1, Who DEF TrxsOk
  <2>2. CASE u = a
    BY <1>2, <2>2 DEF TrxOk, Requesting, Marking
  <2>3. CASE u # a
    BY <1>2, <1>8, <2>1, <2>3 DEF TrxOk
  <2> QED BY <2>2, <2>3
<1>members. MembersOk'
  <2>1. ASSUME NEW b \in Threads, NEW u \in Range(group[b]) PROVE MemberOk(b, u)'
    <3>1. MemberOk(b, u) /\ pc[b] \in Leading /\ u \in Trx
      BY <1>1, GroupTypes DEF MembersOk, GroupsOk
    <3>2. CASE b = a
      <4>1. FileOf(a) = current /\ FileOf(a)' = current
        BY <1>3, <1>5, <1>nat, <1>cur DEF FileOf
      <4>2. InFile(u, current)
        BY <1>2, <3>1, <3>2, <4>1 DEF MemberOk, Leading
      <4>3. InFile(u, FileOf(a))'
        <5>1. \A l \in Logs : l = current => Xid(u) \in Range(blog'[l])
          BY <1>7, <3>1, <4>2 DEF InFile
        <5> QED BY <1>cur, <4>1, <5>1 DEF InFile
      <4> QED BY <1>2, <1>8, <3>1, <3>2, <4>3 DEF MemberOk
    <3>3. CASE b # a
      <4>1. pc[b] = "order" /\ pc'[b] = "order"
        BY <1>2, <1>only, <3>1, <3>3, Who DEF LogHolders, Leading
      <4> QED BY <1>8, <3>1, <4>1 DEF MemberOk, Leading
    <3> QED BY <3>2, <3>3
  <2>2. Running' <=> Running
    BY <1>2, Who DEF Running, At
  <2> QED BY <1>1, <1>3, <1>8, <2>1, <2>2 DEF MembersOk
<1>request. RequestOk'
  <2>1. ASSUME NEW b \in Threads, pc'[b] \in {"checkpoint", "request"}
        PROVE  pc'[b] = pc[b] /\ rotated'[b] = rotated[b] /\ rotated[b] \in Logs
    <3>1. pc'[b] = pc[b] /\ b # a
      BY <1>2, <2>1, Who
    <3>2. rotated[b] # 0
      BY <1>1, <2>1, <3>1 DEF RotatedOk, Requesting
    <3> QED BY <1>1, <1>5, <3>1, <3>2, RotatedLog
  <2>2. ASSUME NEW l \in Logs, NEW n, CommitBy(l, n)
        PROVE  \A t \in Trx : Xid(t) \in Range(blog'[l]) => \E i \in DOMAIN elog : i <= n /\ elog[i] = EngineRecord("commit", t)
    BY <1>7, <2>2 DEF CommitBy, InFile
  <2>3. ASSUME NEW b \in Threads
        PROVE  /\ pc'[b] = "checkpoint" => CommitBy(rotated[b], Len(elog))'
               /\ pc'[b] = "request" => /\ CommitBy(rotated[b], req[b].lsn)' /\ req'[b].lsn <= Len(elog')
                                        /\ req'[b].flush_lsn <= flushed'
    BY <1>1, <1>3, <2>1, <2>2 DEF RequestOk, CommitBy, InFile
  <2>4. ASSUME NEW i \in DOMAIN log_requests
        PROVE  CommitBy(log_requests[i].log, log_requests[i].lsn)' /\ log_requests'[i].lsn <= Len(elog')
    <3>1. log_requests \in Seq(Requests)
      BY <1>1 DEF XaTypes
    <3>2. log_requests[i] \in Requests
      BY <3>1
    <3>3. log_requests[i].log \in Logs
      BY <3>2 DEF Requests
    <3> QED BY <1>1, <1>3, <2>2, <3>3 DEF RequestOk, CommitBy, InFile
  <2> QED BY <1>3, <2>3, <2>4 DEF RequestOk
<1>flush. FlushOk'
  BY <1>1, <1>3, FlushFrame
<1>checks. CheckpointsOk'
  <2>0. ASSUME NEW m \in 1..(c - 1) PROVE DoneLog(m)'
    <3>1. m \in Logs /\ m < current /\ m # current
      BY <1>nat, <1>6, <1>7 DEF Logs
    <3>2. xid_count[m] = 0
      <4>1. CASE m < head
        BY <1>1, <3>1, <4>1 DEF LastOk
      <4>2. CASE ~(m < head)
        BY <1>5, <1>6, <1>7, <1>nat, <3>1, <4>2
      <4> QED BY <4>1, <4>2
    <3> QED BY <1>1, <1>8, <1>cur, <3>1, <3>2, ZeroDone
  <2> SUFFICES ASSUME NEW l \in Logs, NEW i \in DOMAIN blog'[l], blog'[l][i].type = "checkpoint"
               PROVE  /\ blog'[l][i].arg <= l /\ blog'[l][i].arg <= current
                      /\ \A m \in 1..(blog'[l][i].arg - 1) : DoneLog(m)'
    BY <1>3 DEF CheckpointsOk
  <2>1. CASE l = current + 1
    <3>1. i = 1 /\ blog'[l][i] = Checkpoint(c)
      BY <1>7, <2>1
    <3>2. blog'[l][i].arg = c
      BY <3>1, XidIs
    <3> QED BY <1>6, <1>7, <1>nat, <2>0, <2>1, <3>2
  <2>2. CASE l # current + 1
    <3>1. blog'[l] = blog[l]
      BY <1>7, <2>2
    <3>2. /\ blog[l][i].arg <= l /\ blog[l][i].arg <= current
          /\ \A m \in 1..(blog[l][i].arg - 1) : DoneLog(m)
      BY <1>1, <3>1 DEF CheckpointsOk
    <3>3. blog[l][i].arg \in Logs
      <4>1. blog[l][i] \in LogRecords
        BY <1>1, <3>1, DiskTypes
      <4> QED BY <3>1, <4>1 DEF LogRecords
    <3>4. \A m \in 1..(blog[l][i].arg - 1) : m \in Logs
      BY <1>nat, <3>3 DEF Logs
    <3> QED BY <1>8, <3>1, <3>2, <3>4
  <2> QED BY <2>1, <2>2
<1>last. LastOk'
  <2>1. \E d \in head'..current' : blog'[current' + 1] = <<Checkpoint(d)>>
    BY <1>3, <1>6, <1>7
  <2>2. PICK d \in Logs : /\ IsLast(blog[indexed], d)
                          /\ ~PurgeInWindow /\ sync_period = 1 => first <= d
                          /\ Running /\ ~Window => head <= d
    BY <1>1 DEF LastOk
  <2>3. IsLast(blog[indexed], d)'
    <3>1. blog'[indexed'] = blog[indexed]
      BY <1>3, <1>7, <1>cur, <1>nat, <1>idx
    <3> QED BY <2>2, <3>1 DEF IsLast, Checkpoint
  <2>4. (Running' <=> Running) /\ (Window' <=> Window)
    BY <1>2, Who DEF Running, At, Window
  <2>5. \A b \in Actors : pc'[b] = "done_lock" <=> pc[b] = "done_lock"
    BY <1>2
  <2>6. head # current => xid_count'[head] = xid_count[head]
    BY <1>5, <1>cur
  <2>7. \A l \in Logs : l < head => xid_count'[l] = 0
    BY <1>1, <1>5, <1>nat DEF LastOk
  <2> QED BY <1>1, <1>3, <2>1, <2>2, <2>3, <2>4, <2>5, <2>6, <2>7 DEF LastOk
<1>dones. DoneOk'
  <2> SUFFICES ASSUME NEW b \in Actors, pc'[b] \in Marking
               PROVE  /\ done[b].log \in 1..current
                      /\ b = BG => done[b].to = "idle" /\ done[b].log < current
                      /\ b = FLUSHER => done[b].to = "end"
                      /\ b \in Trx => done[b].to \in {"unlog", "end"}
                      /\ b \in Trx /\ done[b].to = "end" => b \in NeedUnlog /\ InFile(b, done[b].log)'
    BY <1>3 DEF DoneOk, InFile
  <2>1. pc[b] \in Marking
    BY <1>2 DEF Marking
  <2>2. done[b].log \in 1..current
    BY <1>1, <2>1 DEF DoneOk
  <2>3. done[b].log \in Logs
    BY <1>nat, <2>2 DEF Logs
  <2>4. b \in Trx /\ InFile(b, done[b].log) => InFile(b, done[b].log)'
    <3>1. \A l \in Logs : b \in Trx /\ InFile(b, l) => Xid(b) \in Range(blog'[l])
      BY <1>7 DEF InFile
    <3> QED BY <1>3, <2>3, <3>1 DEF InFile
  <2> QED BY <1>1, <2>1, <2>4 DEF DoneOk
<1>hold. HoldOk'
  <2>1. \A b \in Threads : \A l : b # a => (Holds(b, l)' <=> Holds(b, l))
    BY <1>2, <1>3, <1>5, Who DEF Holds, HoldTo
  <2>2. \A l : (Holds(a, l)' <=> l = current) /\ (l \in Logs => ~Holds(a, l))
    BY <1>2, <1>3, <1>5, <1>cur, <1>nat DEF Holds, HoldTo, Logs
  <2>4. \A b, d \in Threads, l \in Logs : Holds(b, l)' /\ Holds(d, l)' => b = d
    BY <1>1, <1>9, <2>1, <2>2 DEF HoldOk
  <2>5. \A b \in Threads : pc'[b] = "done" /\ done'[b].to = HoldTo(b) => done'[b].log < current'
    BY <1>1, <1>2, <1>3, Who DEF HoldOk
  <2> QED BY <2>4, <2>5 DEF HoldOk, HoldTo
<1>tokens. TokensOk'
  <2>1. PICK at \in [Logs -> Places], q \in Seq(Logs), r \in Seq(Logs) :
          PlacesOk(at, q, r) /\ CountsOk(at) /\ LeftOk(at)
    BY <1>1 DEF TokensOk
  <2>2. Kept({"request", "notify", "done"}) /\ Kept({"notify"}) /\ Kept({"done"})
    BY <1>2 DEF Kept
  <2>3. PlacesOk(at, q, r)'
    <3>1. ListsOk(q, r)'
      BY <1>3, <2>1, <2>2, ListsFrame DEF bgVars, PlacesOk
    <3>2. ASSUME NEW l \in Logs PROVE PlaceOk(at, q, r, l)'
      <4>1. PlaceOk(at, q, r, l)
        BY <2>1 DEF PlacesOk
      <4>2. \A b \in Threads : pc'[b] = "request" /\ rotated'[b] = l <=> pc[b] = "request" /\ rotated[b] = l
        BY <1>2, <1>5, Who
      <4>3. pc'[BG] = pc[BG]
        BY <1>2, Who
      <4> QED BY <1>3, <4>1, <4>2, <4>3 DEF PlaceOk
    <3>3. ASSUME NEW b \in Threads, rotated'[b] # 0, pc'[b] \notin {"request", "notify"}
          PROVE  at[rotated'[b]] = "none"
      <4>1. CASE b # a
        BY <1>2, <1>5, <2>1, <3>3, <4>1, Who DEF PlacesOk
      <4>2. CASE b = a
        BY <1>5, <1>cur, <1>nat, <2>1, <4>2 DEF PlacesOk, PlaceOk
      <4> QED BY <4>1, <4>2
    <3> QED BY <3>1, <3>2, <3>3 DEF PlacesOk
  <2>4. LeftOk(at)'
    <3>1. \A l \in 1..(current - 1) : l \in Logs
      BY <1>nat DEF Logs
    <3>2. \A b \in Threads, l \in Logs : rotated[b] = l /\ pc[b] \in {"next_stage", "order", "checkpoint"}
             => rotated'[b] = l /\ pc'[b] \in {"next_stage", "order", "checkpoint"}
      BY <1>2, <1>5, Who
    <3> SUFFICES ASSUME NEW l \in 1..(current - 1)
                 PROVE  \/ DoneLog(l)' \/ at[l] \in {"request", "list"}
                        \/ \E b \in Threads : rotated'[b] = l /\ pc'[b] \in {"next_stage", "order", "checkpoint"}
      BY <1>3 DEF LeftOk
    <3>3. \/ DoneLog(l) \/ at[l] \in {"request", "list"}
          \/ \E b \in Threads : rotated[b] = l /\ pc[b] \in {"next_stage", "order", "checkpoint"}
      BY <1>cur, <2>1 DEF LeftOk
    <3> QED BY <1>8, <3>1, <3>2, <3>3
  <2>5. \A u \in Trx : Counted(u)' <=> Counted(u)
    <3>1. Within(CountedLabels) /\ Within(Marking) /\ Within({"done"}) /\ Within({"follow"}) /\ Within({"write", "sync"})
      BY <1>2 DEF Within, CountedLabels, Marking
    <3> QED BY <1>3, <3>1, CountedFrame
  <2>6. \A l \in Logs : Unlogged(l)' = Unlogged(l)
    BY <1>7, <2>5, BinlogXaAssumption DEF Unlogged
  <2>7. \A b \in Threads : \A l : b # a => (Holds(b, l)' <=> Holds(b, l))
    BY <1>2, <1>3, <1>5, Who DEF Holds, HoldTo
  <2>8. \A l : (Holds(a, l)' <=> l = current) /\ (l \in Logs => ~Holds(a, l))
    BY <1>2, <1>3, <1>5, <1>cur, <1>nat DEF Holds, HoldTo, Logs
  <2>10. CountsOk(at)'
    <3> SUFFICES ASSUME NEW l \in Logs
                 PROVE  xid_count'[l] = Cardinality(Unlogged(l)') + Bit(\E b \in Threads : Holds(b, l)') + Bit(at[l] # "none")
      BY DEF CountsOk, Bit
    <3>1. xid_count[l] = Cardinality(Unlogged(l)) + Bit(\E b \in Threads : Holds(b, l)) + Bit(at[l] # "none")
      BY <2>1 DEF CountsOk
    <3>2. CASE l # current
      <4>1. (\E b \in Threads : Holds(b, l)') <=> (\E b \in Threads : Holds(b, l))
        BY <2>7, <2>8, <3>2
      <4> QED BY <1>5, <2>6, <3>1, <3>2, <4>1 DEF Bit
    <3>3. CASE l = current
      <4>1. (\E b \in Threads : Holds(b, l)') /\ ~(\E b \in Threads : Holds(b, l))
        BY <1>9, <2>8, <3>3
      <4>2. Cardinality(Unlogged(l)) \in Nat
        BY UnloggedFinite
      <4> QED BY <1>5, <2>6, <3>1, <3>3, <4>1, <4>2 DEF Bit
    <3> QED BY <3>2, <3>3
  <2> QED BY <2>3, <2>4, <2>10 DEF TokensOk
<1> QED BY <1>types, <1>labels, <1>locks, <1>groups, <1>rotated, <1>index, <1>synced, <1>disks, <1>trxs,
     <1>members, <1>request, <1>flush, <1>checks, <1>last, <1>dones, <1>hold, <1>tokens DEF XaInv

\* The rotated file is left behind, still held by its count; the head
\* stays unless mark_xid_done() is under way.
LEMMA RotateListStep ==
    ASSUME XaInv, NEW a \in Threads, RotateList(a), UNCHANGED sync_period
    PROVE  XaInv'
<1>1. /\ XaTypes /\ LabelsOk /\ LocksOk /\ GroupsOk /\ RotatedOk /\ IndexOk /\ SyncedOk /\ DisksOk /\ TrxsOk
      /\ MembersOk /\ RequestOk /\ FlushOk /\ CheckpointsOk /\ LastOk /\ DoneOk /\ HoldOk /\ TokensOk
  BY DEF XaInv
<1>2. /\ a \in Actors /\ pc[a] = "rotate_list" /\ pc'[a] = "next_stage"
      /\ \A b \in Actors : b # a => pc'[b] = pc[b]
  BY <1>1, Who, GotoFacts DEF RotateList, At
<1>3. UNCHANGED <<elog, flushed, blog, synced, first, indexed, xid_count, LOCK_log,
                  LOCK_after_binlog_sync, bg_queue, next_in_queue, log_requests, group, rotated, done,
                  req, to_notify, flush_notify, bg, lost, crashes>>
  BY DEF RotateList, diskVars, listVars, lockVars, bgVars, ctlVars
<1>only. \A b \in Actors : b # a => pc[b] \notin LogHolders
  BY <1>1, <1>2, OnlyHolder DEF LogHolders
<1>nat. /\ current \in Nat /\ head \in Nat /\ indexed \in Nat /\ first \in Nat /\ MaxLogs \in Nat
        /\ 1 <= head /\ head <= current /\ current <= MaxLogs
  BY <1>1, DiskTypes
<1>cur. /\ current \in Logs /\ head \in Logs /\ indexed \in Logs /\ Running
        /\ indexed = current + 1 /\ rotated[a] = current /\ xid_count[current] # 0
        /\ \A l \in Logs : xid_count[l] \in Nat
  <2>1. indexed = current + 1 /\ rotated[a] = current
    BY <1>1, <1>2 DEF IndexOk, RotatedOk
  <2>2. Running
    BY <1>1, <1>2 DEF LabelsOk, Running, At
  <2>3. current \in Logs /\ head \in Logs /\ indexed \in Logs
    BY <1>1, DiskTypes
  <2>4. \A l \in Logs : xid_count[l] \in Nat
    BY <1>1 DEF XaTypes
  <2>5. xid_count[current] > 0
    BY <1>1, <2>1, <2>3, HeldCount DEF Holds
  <2>6. xid_count[current] # 0
    BY <2>3, <2>4, <2>5
  <2> QED BY <2>1, <2>2, <2>3, <2>4, <2>6
<1>4. current' = current + 1 /\ inuse' = inuse \ {current}
  BY DEF RotateList
<1>5. head' \in head..current /\ xid_count[head'] # 0 /\ \A l \in head..current : l < head' => xid_count[l] = 0
  <2> DEFINE pending == {l \in head..current : xid_count[l] # 0}
  <2>1. pending \in SUBSET Nat /\ pending # {}
    <3>1. current \in pending
      BY <1>nat, <1>cur
    <3> QED BY <1>nat, <3>1
  <2>2. head' = Min(pending)
    <3>1. head' = IF pending = {} THEN current + 1 ELSE Min(pending)
      BY DEF RotateList
    <3> QED BY <2>1, <3>1
  <2>3. head' \in pending /\ \A y \in pending : head' <= y
    <3> HIDE DEF pending
    <3> QED BY <2>1, <2>2, MinFacts
  <2>4. ASSUME NEW l \in head..current, l < head' PROVE xid_count[l] = 0
    <3>1. l \notin pending
      BY <1>nat, <2>3, <2>4
    <3> QED BY <3>1
  <2> QED BY <2>3, <2>4
<1>6. /\ \A t \in Trx : InBinlog(t)' <=> InBinlog(t)
      /\ \A l : Stays(l) /\ (DoneLog(l) => DoneLog(l)')
      /\ \A k, t : (InEngine(k, t)' <=> InEngine(k, t)) /\ (Durable(k, t)' <=> Durable(k, t))
  BY <1>3 DEF InBinlog, Stays, DoneLog, CommitBy, InFile, InEngine, Durable
<1>types. XaTypes'
  <2>1. pc' \in [Actors -> TrxLabels \cup BgLabels]
    BY <1>1, <1>2, GotoType DEF RotateList, TrxLabels, FlusherLabels, BgLabels, Marking
  <2>2. current' \in Logs /\ head' \in 1..current'
    BY <1>4, <1>5, <1>cur, <1>nat
  <2> QED BY <1>1, <1>3, <2>1, <2>2 DEF XaTypes
<1>labels. LabelsOk'
  BY <1>1, <1>2, Who DEF LabelsOk, TrxLabels, FlusherLabels, BgLabels, Marking
<1>locks. LocksOk'
  <2>1. Within(LogHolders) /\ Within({"order"})
    BY <1>2, <1>3 DEF Within, LogHolders
  <2> QED BY <1>1, <1>3, <2>1, LocksFrame DEF lockVars
<1>groups. GroupsOk'
  <2>1. Within(Leading) /\ Within({"follow"})
    BY <1>2, <1>3 DEF Within, Leading
  <2>2. group \in [Threads -> Seq(Trx)]
    BY <1>1 DEF XaTypes
  <2> QED BY <1>1, <1>3, <2>1, <2>2, GroupsFrame
<1>rotated. RotatedOk'
  <2> SUFFICES ASSUME NEW b \in Threads
        PROVE  /\ rotated[b] # 0 => pc'[b] \in {"rotate_index", "rotate_list", "next_stage", "order",
                                        "checkpoint", "request", "notify"}
               /\ pc'[b] \in {"rotate_index", "rotate_list"} => rotated[b] = current'
               /\ pc'[b] = "next_stage" => rotated[b] \in {0, current' - 1}
               /\ pc'[b] \in {"order", "checkpoint", "request", "notify"} => rotated[b] < current'
               /\ pc'[b] \in Requesting => rotated[b] # 0
               /\ pc'[b] \in {"rotate", "rotate_index"} => current' < MaxLogs
    BY <1>3 DEF RotatedOk
  <2>1. CASE b = a
    BY <1>1, <1>2, <1>4, <1>cur, <1>nat, <2>1 DEF RotatedOk, Requesting
  <2>2. CASE b # a
    <3>1. pc'[b] = pc[b] /\ pc[b] \notin LogHolders
      BY <1>2, <1>only, <2>2, Who
    <3>2. rotated[b] \in 0..MaxLogs
      BY <1>1 DEF XaTypes
    <3> QED BY <1>1, <1>4, <1>nat, <3>1, <3>2 DEF RotatedOk, LogHolders
  <2> QED BY <2>1, <2>2
<1>index. IndexOk'
  <2>1. \A t \in Trx, l \in Logs : InFile(t, l)' => l <= current'
    <3> SUFFICES ASSUME NEW t \in Trx, NEW l \in Logs, InFile(t, l)' PROVE l <= current'
      OBVIOUS
    <3>1. InFile(t, l)
      BY <1>3 DEF InFile
    <3>2. l <= current
      BY <1>1, <3>1 DEF IndexOk
    <3> QED BY <1>4, <1>nat, <3>2 DEF Logs
  <2>2. \A b \in Threads : pc'[b] # "rotate_list"
    BY <1>2, <1>only, Who DEF LogHolders
  <2>3. indexed \in inuse' /\ first <= head'
    BY <1>1, <1>4, <1>5, <1>cur, <1>nat DEF IndexOk
  <2>4. blog'[indexed'][1].type = "checkpoint"
    BY <1>1, <1>3 DEF IndexOk
  <2> QED BY <1>3, <1>4, <1>cur, <2>1, <2>2, <2>3, <2>4 DEF IndexOk
<1>synced. SyncedOk'
  <2>1. Kept({"sync"})
    BY <1>2, <1>3 DEF Kept
  <2> QED BY <1>1, <1>3, <2>1, SyncedFrame
<1>disks. DisksOk'
  BY <1>1, <1>3, DisksFrame
<1>trxs. TrxsOk'
  <2> SUFFICES ASSUME NEW u \in Trx PROVE TrxOk(u)'
    BY DEF TrxsOk
  <2>1. TrxOk(u) /\ u \in Actors
    BY <1>1, Who DEF TrxsOk
  <2>2. CASE u # a
    BY <1>2, <1>3, <2>1, <2>2, TrxFrame
  <2>3. CASE u = a
    BY <1>2, <1>3, <2>1, <2>3 DEF TrxOk, InBinlog, Durable, InEngine, Requesting, Marking
  <2> QED BY <2>2, <2>3
<1>members. MembersOk'
  <2>1. ASSUME NEW b \in Threads, NEW u \in Range(group[b]) PROVE MemberOk(b, u)'
    <3>1. MemberOk(b, u) /\ pc[b] \in Leading /\ u \in Trx
      BY <1>1, GroupTypes DEF MembersOk, GroupsOk
    <3>2. CASE b = a
      <4>1. FileOf(a)' = FileOf(a)
        BY <1>3, <1>cur, <1>nat DEF FileOf
      <4>2. InFile(u, FileOf(a))
        BY <1>2, <3>1, <3>2 DEF MemberOk, Leading
      <4>3. InFile(u, FileOf(a))'
        BY <1>3, <4>1, <4>2 DEF InFile
      <4> QED BY <1>2, <1>6, <3>1, <3>2, <4>3 DEF MemberOk
    <3>3. CASE b # a
      <4>1. pc[b] = "order" /\ pc'[b] = "order"
        BY <1>2, <1>only, <3>1, <3>3, Who DEF LogHolders, Leading
      <4> QED BY <1>6, <3>1, <4>1 DEF MemberOk, Leading
    <3> QED BY <3>2, <3>3
  <2>2. Running' <=> Running
    BY <1>2, Who DEF Running, At
  <2> QED BY <1>1, <1>3, <1>6, <2>1, <2>2 DEF MembersOk
<1>request. RequestOk'
  <2>1. Kept({"checkpoint", "request"})
    BY <1>2, <1>3 DEF Kept
  <2>2. \A l \in Logs : Stays(l)
    BY <1>3, StaysFrame
  <2>3. Len(elog') = Len(elog) /\ Len(elog) \in Nat /\ flushed' = flushed /\ flushed \in Nat
    BY <1>1, <1>3, DiskTypes
  <2>4. Len(elog) <= Len(elog') /\ flushed <= flushed'
    BY <2>3
  <2> QED BY <1>1, <1>3, <2>1, <2>2, <2>4, <1>types, RequestFrame, ListLogs
<1>flush. FlushOk'
  BY <1>1, <1>3, FlushFrame
<1>checks. CheckpointsOk'
  <2> SUFFICES ASSUME NEW l \in Logs, NEW i \in DOMAIN blog[l], blog[l][i].type = "checkpoint"
               PROVE  /\ blog[l][i].arg <= l /\ blog[l][i].arg <= current'
                      /\ \A m \in 1..(blog[l][i].arg - 1) : DoneLog(m)'
    BY <1>3 DEF CheckpointsOk
  <2>1. /\ blog[l][i].arg <= l /\ blog[l][i].arg <= current
        /\ \A m \in 1..(blog[l][i].arg - 1) : DoneLog(m)
    BY <1>1 DEF CheckpointsOk
  <2>2. blog[l][i].arg \in Logs
    <3>1. blog[l][i] \in LogRecords
      BY <1>1, DiskTypes
    <3> QED BY <3>1 DEF LogRecords
  <2> QED BY <1>4, <1>6, <1>nat, <2>1, <2>2 DEF Logs
<1>last. LastOk'
  <2>1. \A b \in Threads : pc'[b] # "rotate_index"
    BY <1>2, <1>only, Who DEF LogHolders
  <2>2. PICK c \in Logs : /\ IsLast(blog[indexed], c)
                          /\ ~PurgeInWindow /\ sync_period = 1 => first <= c
                          /\ Running /\ ~Window => head <= c
    BY <1>1 DEF LastOk
  <2>3. IsLast(blog[indexed], c)'
    BY <1>3, <2>2 DEF IsLast
  <2>4. (Running' <=> Running) /\ (Window' <=> Window)
    BY <1>2, Who DEF Running, At, Window
  <2>5. ~Window => head' = head
    <3> SUFFICES ASSUME ~Window PROVE head' = head
      OBVIOUS
    <3>1. xid_count[head] # 0
      BY <1>1, <1>cur DEF LastOk, Window
    <3> QED BY <1>5, <1>nat, <3>1
  <2>6. ASSUME NEW l \in Logs, l < head' PROVE xid_count[l] = 0
    <3>1. CASE l < head
      BY <1>1, <3>1 DEF LastOk
    <3>2. CASE ~(l < head)
      BY <1>5, <1>nat, <2>6, <3>2 DEF Logs
    <3> QED BY <3>1, <3>2
  <2> QED BY <1>1, <1>3, <1>5, <2>1, <2>2, <2>3, <2>4, <2>5, <2>6 DEF LastOk
<1>dones. DoneOk'
  <2> SUFFICES ASSUME NEW b \in Actors, pc'[b] \in Marking
               PROVE  /\ done[b].log \in 1..current'
                      /\ b = BG => done[b].to = "idle" /\ done[b].log < current'
                      /\ b = FLUSHER => done[b].to = "end"
                      /\ b \in Trx => done[b].to \in {"unlog", "end"}
                      /\ b \in Trx /\ done[b].to = "end" => b \in NeedUnlog /\ InFile(b, done[b].log)
    BY <1>3 DEF DoneOk, InFile
  <2>1. pc[b] \in Marking
    BY <1>2 DEF Marking
  <2>2. done[b].log \in 1..current
    BY <1>1, <2>1 DEF DoneOk
  <2>3. done[b].log \in 1..current' /\ (done[b].log < current => done[b].log < current')
    BY <1>4, <1>nat, <2>2
  <2> QED BY <1>1, <2>1, <2>3 DEF DoneOk
<1>hold. HoldOk'
  <2>1. Kept({"done"})
    BY <1>2 DEF Kept
  <2>2. \A b \in Threads : \A l : Holds(b, l)' <=> Holds(b, l)
    BY <1>3, <2>1, HoldsFrame
  <2>3. ASSUME NEW b \in Threads, pc'[b] = "done", done[b].to = HoldTo(b) PROVE done[b].log < current'
    <3>1. pc[b] = "done"
      BY <1>2, <2>3, Who
    <3>2. done[b].log < current /\ done[b].log \in 1..current
      BY <1>1, <2>3, <3>1, Who DEF HoldOk, DoneOk, Marking
    <3> QED BY <1>4, <1>nat, <3>2
  <2>4. \A b, d \in Threads, l \in Logs : Holds(b, l)' /\ Holds(d, l)' => b = d
    BY <1>1, <2>2 DEF HoldOk
  <2> QED BY <1>3, <2>3, <2>4 DEF HoldOk, HoldTo
<1>tokens. TokensOk'
  <2>1. PICK at \in [Logs -> Places], q \in Seq(Logs), r \in Seq(Logs) :
          PlacesOk(at, q, r) /\ CountsOk(at) /\ LeftOk(at)
    BY <1>1 DEF TokensOk
  <2>2. Kept({"request", "notify", "done"}) /\ Kept({"notify"}) /\ Kept({"done"})
    BY <1>2 DEF Kept
  <2>3. PlacesOk(at, q, r)'
    <3>1. ListsOk(q, r)'
      BY <1>3, <2>1, <2>2, ListsFrame DEF bgVars, PlacesOk
    <3>2. ASSUME NEW l \in Logs PROVE PlaceOk(at, q, r, l)'
      <4>1. PlaceOk(at, q, r, l)
        BY <2>1 DEF PlacesOk
      <4>2. \A b \in Threads : pc'[b] = "request" <=> pc[b] = "request"
        BY <1>2, Who
      <4>3. pc'[BG] = pc[BG]
        BY <1>2, Who
      <4>4. l < current => l < current'
        BY <1>4, <1>nat DEF Logs
      <4> QED BY <1>3, <4>1, <4>2, <4>3, <4>4 DEF PlaceOk
    <3>3. ASSUME NEW b \in Threads, rotated[b] # 0, pc'[b] \notin {"request", "notify"}
          PROVE  at[rotated[b]] = "none"
      BY <1>2, <2>1, <3>3, Who DEF PlacesOk
    <3> QED BY <1>3, <3>1, <3>2, <3>3 DEF PlacesOk
  <2>4. LeftOk(at)'
    <3> SUFFICES ASSUME NEW l \in 1..(current' - 1)
                 PROVE  \/ DoneLog(l)' \/ at[l] \in {"request", "list"}
                        \/ \E b \in Threads : rotated[b] = l /\ pc'[b] \in {"next_stage", "order", "checkpoint"}
      BY <1>3 DEF LeftOk
    <3>1. CASE l = current
      BY <1>2, <1>cur, <3>1
    <3>2. CASE l # current
      <4>1. l \in 1..(current - 1)
        BY <1>4, <1>nat, <3>2
      <4>2. \/ DoneLog(l) \/ at[l] \in {"request", "list"}
            \/ \E b \in Threads : rotated[b] = l /\ pc[b] \in {"next_stage", "order", "checkpoint"}
        BY <1>cur, <2>1, <4>1 DEF LeftOk
      <4>3. \A b \in Threads : pc[b] \in {"next_stage", "order", "checkpoint"} => pc'[b] = pc[b]
        BY <1>2, Who
      <4> QED BY <1>6, <4>2, <4>3
    <3> QED BY <3>1, <3>2
  <2>5. \A u \in NeedUnlog : Counted(u)' <=> Counted(u)
    <3>1. Within(CountedLabels) /\ Within(Marking) /\ Within({"done"}) /\ Within({"follow"}) /\ Within({"write", "sync"})
      BY <1>2 DEF Within, CountedLabels, Marking
    <3> QED BY <1>3, <3>1, CountedFrame, BinlogXaAssumption
  <2>6. CountsOk(at)'
    <3>1. \A b \in Threads : \A l : Holds(b, l)' <=> Holds(b, l)
      BY <1>3, <2>2, HoldsFrame
    <3> QED BY <1>3, <2>1, <2>5, <3>1, CountsFrame
  <2> QED BY <2>3, <2>4, <2>6 DEF TokensOk
<1> QED BY <1>types, <1>labels, <1>locks, <1>groups, <1>rotated, <1>index, <1>synced, <1>disks, <1>trxs,
     <1>members, <1>request, <1>flush, <1>checks, <1>last, <1>dones, <1>hold, <1>tokens DEF XaInv

\* unlog() passes the transaction's count on to mark_xid_done().
LEMMA UnlogStep ==
    ASSUME XaInv, NEW t \in Trx, Unlog(t), UNCHANGED sync_period
    PROVE  XaInv'
<1>1. /\ XaTypes /\ LabelsOk /\ LocksOk /\ GroupsOk /\ RotatedOk /\ IndexOk /\ SyncedOk /\ DisksOk /\ TrxsOk
      /\ MembersOk /\ RequestOk /\ FlushOk /\ CheckpointsOk /\ LastOk /\ DoneOk /\ HoldOk /\ TokensOk
  BY DEF XaInv
<1>2. /\ t \in Actors /\ pc[t] = "unlog" /\ pc'[t] \in {"done", "end"}
      /\ \A b \in Actors : b # t => pc'[b] = pc[b]
  BY <1>1, Who, GotoFacts DEF Unlog, At, CallDone
<1>3. UNCHANGED <<elog, flushed, blog, synced, first, indexed, inuse, current, head, xid_count, LOCK_log,
                  LOCK_after_binlog_sync, bg_queue, next_in_queue, log_requests, group, rotated, req,
                  to_notify, flush_notify, bg, lost, crashes>>
  BY DEF Unlog, diskVars, listVars, lockVars, bgVars, ctlVars
<1>nat. /\ current \in Nat /\ head \in Nat /\ indexed \in Nat /\ first \in Nat /\ MaxLogs \in Nat
        /\ 1 <= head /\ head <= current /\ current <= MaxLogs
  BY <1>1, DiskTypes
<1>log. LogOf(t) \in Logs /\ InFile(t, LogOf(t)) /\ LogOf(t) \in 1..current /\ LogOf(t) \in 0..MaxLogs
  <2>1. InBinlog(t)
    BY <1>1, <1>2 DEF TrxsOk, TrxOk, DisksOk, DiskOk
  <2>2. LogOf(t) \in Logs /\ InFile(t, LogOf(t))
    BY <2>1 DEF InBinlog, LogOf, InFile
  <2>3. LogOf(t) <= current
    BY <1>1, <2>2 DEF IndexOk
  <2> QED BY <1>nat, <2>2, <2>3 DEF Logs
<1>4. done \in [Actors -> [log : 0..MaxLogs, to : {"none", "idle", "unlog", "end"}]]
  BY <1>1 DEF XaTypes
<1>5. /\ done' \in [Actors -> [log : 0..MaxLogs, to : {"none", "idle", "unlog", "end"}]]
      /\ \A b \in Actors : b # t => done'[b] = done[b]
      /\ pc'[t] = "done" => t \in NeedUnlog /\ done'[t].log = LogOf(t) /\ done'[t].to = "end"
      /\ pc'[t] = "end" => t \notin NeedUnlog
  <2>1. CASE t \in NeedUnlog /\ CallDone(t, LogOf(t), "end")
    <3>1. done' = [done EXCEPT ![t] = [log |-> LogOf(t), to |-> "end"]] /\ pc'[t] = "done"
      BY <1>1, <1>2, <2>1, GotoFacts DEF CallDone
    <3>2. [log |-> LogOf(t), to |-> "end"] \in [log : 0..MaxLogs, to : {"none", "idle", "unlog", "end"}]
      BY <1>log
    <3> QED BY <1>2, <1>4, <2>1, <3>1, <3>2
  <2>2. CASE t \notin NeedUnlog /\ Goto(t, "end") /\ UNCHANGED done
    <3>1. pc'[t] = "end"
      BY <1>1, <1>2, <2>2, GotoFacts
    <3> QED BY <1>4, <2>2, <3>1
  <2> QED BY <2>1, <2>2 DEF Unlog
<1>types. XaTypes'
  <2>1. pc' \in [Actors -> TrxLabels \cup BgLabels]
    <3>1. "done" \in TrxLabels \cup BgLabels /\ "end" \in TrxLabels \cup BgLabels
      BY DEF TrxLabels, FlusherLabels
    <3> QED BY <1>1, <1>2, <3>1, GotoType DEF Unlog, CallDone
  <2> QED BY <1>1, <1>3, <1>5, <2>1 DEF XaTypes
<1>labels. LabelsOk'
  BY <1>1, <1>2, Who DEF LabelsOk, TrxLabels, FlusherLabels, BgLabels, Marking
<1>locks. LocksOk'
  <2>1. Within(LogHolders) /\ Within({"order"})
    BY <1>2, <1>3 DEF Within, LogHolders
  <2> QED BY <1>1, <1>3, <2>1, LocksFrame DEF lockVars
<1>groups. GroupsOk'
  <2>1. Within(Leading) /\ Within({"follow"})
    BY <1>2, <1>3 DEF Within, Leading
  <2>2. group \in [Threads -> Seq(Trx)]
    BY <1>1 DEF XaTypes
  <2> QED BY <1>1, <1>3, <2>1, <2>2, GroupsFrame
<1>rotated. RotatedOk'
  <2>1. Kept((Leading \cup Requesting) \ {"write", "sync"})
    BY <1>2, <1>3 DEF Kept, Leading, Requesting
  <2> QED BY <1>1, <1>3, <2>1, RotatedFrame
<1>index. IndexOk'
  <2>1. Kept({"rotate_list"})
    BY <1>2, <1>3 DEF Kept
  <2> QED BY <1>1, <1>3, <2>1, IndexFrame
<1>synced. SyncedOk'
  <2>1. Kept({"sync"})
    BY <1>2, <1>3 DEF Kept
  <2> QED BY <1>1, <1>3, <2>1, SyncedFrame
<1>disks. DisksOk'
  BY <1>1, <1>3, DisksFrame
<1>trxs. TrxsOk'
  <2> SUFFICES ASSUME NEW u \in Trx PROVE TrxOk(u)'
    BY DEF TrxsOk
  <2>1. TrxOk(u) /\ u \in Actors
    BY <1>1, Who DEF TrxsOk
  <2>2. CASE u # t
    BY <1>2, <1>3, <2>1, <2>2, TrxFrame
  <2>3. CASE u = t
    BY <1>2, <1>3, <2>1, <2>3 DEF TrxOk, InBinlog, Durable, InEngine, Requesting, Marking
  <2> QED BY <2>2, <2>3
<1>members. MembersOk'
  <2>1. Within({"write"}) /\ Within(Leading \ {"write", "order"}) /\ Within({"order"}) /\ Within({"crashed"})
    BY <1>2, <1>3 DEF Within, Leading
  <2> QED BY <1>1, <1>3, <2>1, MembersFrame
<1>request. RequestOk'
  <2>1. Kept({"checkpoint", "request"})
    BY <1>2, <1>3 DEF Kept
  <2>2. \A l \in Logs : Stays(l)
    BY <1>3, StaysFrame
  <2>3. Len(elog') = Len(elog) /\ Len(elog) \in Nat /\ flushed' = flushed /\ flushed \in Nat
    BY <1>1, <1>3, DiskTypes
  <2>4. Len(elog) <= Len(elog') /\ flushed <= flushed'
    BY <2>3
  <2> QED BY <1>1, <1>3, <2>1, <2>2, <2>4, <1>types, RequestFrame, ListLogs
<1>flush. FlushOk'
  BY <1>1, <1>3, FlushFrame
<1>checks. CheckpointsOk'
  BY <1>1, <1>3, CheckpointsFrame
<1>last. LastOk'
  <2>1. Kept({"rotate_index", "done_lock", "done_write", "crashed"})
    BY <1>2, <1>3 DEF Kept
  <2> QED BY <1>1, <1>3, <2>1, LastFrame
<1>dones. DoneOk'
  <2> SUFFICES ASSUME NEW b \in Actors, pc'[b] \in Marking
               PROVE  /\ done'[b].log \in 1..current
                      /\ b = BG => done'[b].to = "idle" /\ done'[b].log < current
                      /\ b = FLUSHER => done'[b].to = "end"
                      /\ b \in Trx => done'[b].to \in {"unlog", "end"}
                      /\ b \in Trx /\ done'[b].to = "end" => b \in NeedUnlog /\ InFile(b, done'[b].log)
    BY <1>3 DEF DoneOk, InFile
  <2>1. CASE b = t
    <3>1. pc'[t] = "done"
      BY <1>2, <2>1 DEF Marking
    <3> QED BY <1>5, <1>log, <2>1, <3>1, Who
  <2>2. CASE b # t
    BY <1>1, <1>2, <1>5, <2>2 DEF DoneOk
  <2> QED BY <2>1, <2>2
<1>hold. HoldOk'
  <2>1. \A b \in Threads : \A l : Holds(b, l)' <=> Holds(b, l)
    <3> SUFFICES ASSUME NEW b \in Threads, NEW l PROVE Holds(b, l)' <=> Holds(b, l)
      OBVIOUS
    <3>1. CASE b = t
      BY <1>2, <1>3, <1>5, <3>1, Who DEF Holds, HoldTo
    <3>2. CASE b # t
      BY <1>2, <1>3, <1>5, <3>2, Who DEF Holds, HoldTo
    <3> QED BY <3>1, <3>2
  <2>2. ASSUME NEW b \in Threads, pc'[b] = "done", done'[b].to = HoldTo(b) PROVE done'[b].log < current
    <3>1. CASE b = t
      BY <1>5, <2>2, <3>1, Who DEF HoldTo
    <3>2. CASE b # t
      BY <1>1, <1>2, <1>5, <2>2, <3>2, Who DEF HoldOk
    <3> QED BY <3>1, <3>2
  <2> QED BY <1>1, <1>3, <2>1, <2>2 DEF HoldOk, HoldTo
<1>tokens. TokensOk'
  <2>1. PICK at \in [Logs -> Places], q \in Seq(Logs), r \in Seq(Logs) :
          PlacesOk(at, q, r) /\ CountsOk(at) /\ LeftOk(at)
    BY <1>1 DEF TokensOk
  <2>2. PlacesOk(at, q, r)'
    <3>1. Kept({"request", "notify"}) /\ done'[BG] = done[BG] /\ (pc'[BG] = "done" <=> pc[BG] = "done")
      BY <1>2, <1>5, Who DEF Kept
    <3> QED BY <1>3, <2>1, <3>1, PlacesStay DEF bgVars
  <2>3. LeftOk(at)'
    <3>1. Within({"next_stage", "order", "checkpoint"}) /\ Within({"crashed"})
      BY <1>2 DEF Within
    <3>2. \A l : DoneLog(l) => DoneLog(l)'
      BY <1>3 DEF DoneLog, CommitBy, InFile
    <3> QED BY <1>3, <2>1, <3>1, <3>2, LeftFrame
  <2>4. ASSUME NEW u \in NeedUnlog PROVE Counted(u)' <=> Counted(u)
    <3>1. CASE u = t
      BY <1>2, <1>5, <2>4, <3>1 DEF Counted, CountedLabels
    <3>2. CASE u # t
      <4>1. u \in Actors /\ pc'[u] = pc[u] /\ done'[u] = done[u]
        BY <1>2, <1>5, <3>2, Who, BinlogXaAssumption
      <4>2. \A b \in Threads : pc'[b] \notin {"write", "sync"} <=> pc[b] \notin {"write", "sync"}
        BY <1>2, Who
      <4> QED BY <1>3, <4>1, <4>2 DEF Counted
    <3> QED BY <3>1, <3>2
  <2>5. CountsOk(at)'
    <3>1. \A b \in Threads : \A l : Holds(b, l)' <=> Holds(b, l)
      <4> SUFFICES ASSUME NEW b \in Threads, NEW l PROVE Holds(b, l)' <=> Holds(b, l)
        OBVIOUS
      <4>1. CASE b = t
        BY <1>2, <1>3, <1>5, <4>1, Who DEF Holds, HoldTo
      <4>2. CASE b # t
        BY <1>2, <1>3, <1>5, <4>2, Who DEF Holds, HoldTo
      <4> QED BY <4>1, <4>2
    <3> QED BY <1>3, <2>1, <2>4, <3>1, CountsFrame
  <2> QED BY <2>2, <2>3, <2>5 DEF TokensOk
<1> QED BY <1>types, <1>labels, <1>locks, <1>groups, <1>rotated, <1>index, <1>synced, <1>disks, <1>trxs,
     <1>members, <1>request, <1>flush, <1>checks, <1>last, <1>dones, <1>hold, <1>tokens DEF XaInv

\* The checkpoint names the first entry left in the list; everything before it has been committed.
LEMMA WriteCheckpointStep ==
    ASSUME XaInv, NEW a \in Actors, WriteCheckpoint(a), UNCHANGED sync_period
    PROVE  XaInv'
<1>1. /\ XaTypes /\ LabelsOk /\ LocksOk /\ GroupsOk /\ RotatedOk /\ IndexOk /\ SyncedOk /\ DisksOk /\ TrxsOk
      /\ MembersOk /\ RequestOk /\ FlushOk /\ CheckpointsOk /\ LastOk /\ DoneOk /\ HoldOk /\ TokensOk
  BY DEF XaInv
<1>ina. a \in Actors
  OBVIOUS
<1>pca. pc[a] = "done_write"
  BY DEF WriteCheckpoint, At
<1>3. UNCHANGED <<elog, flushed, first, indexed, inuse, current, head, xid_count, LOCK_after_binlog_sync,
                  bg_queue, next_in_queue, log_requests, group, rotated, req, to_notify, flush_notify, bg,
                  lost, crashes>>
  BY DEF WriteCheckpoint, diskVars, listVars, lockVars, bgVars, ctlVars, DoneReturns
<1>nat. /\ current \in Nat /\ head \in Nat /\ indexed \in Nat /\ first \in Nat /\ MaxLogs \in Nat
        /\ 1 <= head /\ head <= current /\ current <= MaxLogs
  BY <1>1, DiskTypes
<1>only. \A b \in Actors : b # a => pc[b] \notin LogHolders
  BY <1>1, <1>ina, <1>pca, OnlyHolder DEF LogHolders
<1>to. /\ done[a].to \in {"idle", "unlog", "end"} /\ done[a].log \in 1..current /\ done[a].log \in Logs
       /\ a = BG => done[a].to = "idle" /\ done[a].log < current
       /\ a = FLUSHER => done[a].to = "end"
       /\ a \in Trx => done[a].to \in {"unlog", "end"}
       /\ a \in Trx /\ done[a].to = "end" => a \in NeedUnlog /\ InFile(a, done[a].log)
  <2>1. pc[a] \in Marking
    BY <1>pca DEF Marking
  <2>2. done[a].log \in 1..current
    BY <1>1, <1>ina, <2>1 DEF DoneOk
  <2>3. done[a].log \in Logs
    BY <1>nat, <2>2 DEF Logs
  <2>4. done[a].to \in {"idle", "unlog", "end"}
    BY <1>1, <1>ina, <2>1, Who DEF DoneOk
  <2> QED BY <1>1, <1>ina, <2>1, <2>2, <2>3, <2>4 DEF DoneOk
<1>dt. /\ done \in [Actors -> [log : 0..MaxLogs, to : {"none", "idle", "unlog", "end"}]]
       /\ NotDone[a] \in [log : 0..MaxLogs, to : {"none", "idle", "unlog", "end"}]
  BY <1>1, <1>nat, <1>ina DEF XaTypes, NotDone
<1>2. pc'[a] \in {"idle", "unlog", "end"} /\ \A b \in Actors : b # a => pc'[b] = pc[b]
  <2>1. Goto(a, done[a].to)
    BY DEF WriteCheckpoint, DoneReturns
  <2> QED BY <1>1, <1>ina, <1>to, <2>1, GotoFacts
<1>ret. pc'[a] = done[a].to /\ done'[a] = NotDone[a] /\ (\A b \in Actors : b # a => done'[b] = done[b])
        /\ done' \in [Actors -> [log : 0..MaxLogs, to : {"none", "idle", "unlog", "end"}]]
  <2>1. Goto(a, done[a].to) /\ done' = [done EXCEPT ![a] = NotDone[a]]
    BY DEF WriteCheckpoint, DoneReturns
  <2>2. pc'[a] = done[a].to
    BY <1>1, <1>ina, <2>1, GotoFacts
  <2>3. done'[a] = NotDone[a] /\ (\A b \in Actors : b # a => done'[b] = done[b])
    BY <1>dt, <1>ina, <2>1
  <2>4. done' \in [Actors -> [log : 0..MaxLogs, to : {"none", "idle", "unlog", "end"}]]
    BY <1>dt, <1>ina, <2>1
  <2> QED BY <2>2, <2>3, <2>4
<1>run. Running /\ pc'[BG] # "crashed"
  BY <1>1, <1>ina, <1>pca, <1>2, Who DEF LabelsOk, Running, At
<1>idx. indexed = current
  <2>1. \A b \in Threads : pc[b] # "rotate_list"
    BY <1>pca, <1>only, Who DEF LogHolders
  <2> QED BY <1>1, <2>1, IndexedIs
<1>cur. current \in Logs /\ head \in Logs /\ blog[current] \in Seq(LogRecords) /\ Len(blog[current]) \in Nat
        /\ DOMAIN blog[current] = 1..Len(blog[current]) /\ synced \in 1..Len(blog[current])
  BY <1>1, <1>idx, DiskTypes DEF XaTypes
<1>4. blog' = [blog EXCEPT ![current] = Append(blog[current], Checkpoint(head))]
      /\ synced' \in {synced, Len(blog[current]) + 1} /\ LOCK_log' = NONE
      /\ (sync_period = 1 => synced' = Len(blog[current]) + 1)
  BY DEF WriteCheckpoint, CheckpointTarget, flush_and_sync
<1>5. /\ \A l \in Logs : l # current => blog'[l] = blog[l]
      /\ blog' \in [Logs -> Seq(LogRecords)]
      /\ Len(blog'[current]) = Len(blog[current]) + 1
      /\ \A i \in 1..Len(blog[current]) : blog'[current][i] = blog[current][i]
      /\ blog'[current][Len(blog[current]) + 1] = Checkpoint(head)
      /\ \A t : \A l \in Logs : InFile(t, l)' <=> InFile(t, l)
      /\ DOMAIN blog'[current] = 1..(Len(blog[current]) + 1)
  <2>1. blog \in [Logs -> Seq(LogRecords)] /\ Checkpoint(head) \in LogRecords
    BY <1>1, <1>cur DEF XaTypes, Checkpoint, LogRecords
  <2>2. blog'[current] = Append(blog[current], Checkpoint(head)) /\ \A l \in Logs : l # current => blog'[l] = blog[l]
    BY <1>4, <1>cur, <2>1
  <2>3. /\ blog'[current] \in Seq(LogRecords) /\ Extends(blog[current], blog'[current])
        /\ Len(blog'[current]) = Len(blog[current]) + 1
        /\ blog'[current][Len(blog[current]) + 1] = Checkpoint(head)
        /\ Range(blog'[current]) = Range(blog[current]) \cup {Checkpoint(head)}
    BY <1>cur, <2>1, <2>2, AppendFacts
  <2>4. blog' \in [Logs -> Seq(LogRecords)]
    BY <1>4, <1>cur, <2>1, <2>2, <2>3
  <2>5. ASSUME NEW t, NEW l \in Logs PROVE InFile(t, l)' <=> InFile(t, l)
    <3>1. CASE l = current
      BY <2>3, <3>1, XidIs DEF InFile
    <3>2. CASE l # current
      BY <2>2, <3>2 DEF InFile
    <3> QED BY <3>1, <3>2
  <2>6. DOMAIN blog'[current] = 1..(Len(blog[current]) + 1)
    BY <2>3, LenProperties
  <2> QED BY <2>2, <2>3, <2>4, <2>5, <2>6 DEF Extends
<1>8. /\ \A t \in Trx : InBinlog(t)' <=> InBinlog(t)
      /\ \A l \in Logs : Stays(l) /\ (DoneLog(l) => DoneLog(l)')
      /\ \A k, t : (InEngine(k, t)' <=> InEngine(k, t)) /\ (Durable(k, t)' <=> Durable(k, t))
  <2>1. \A t \in Trx : InBinlog(t)' <=> InBinlog(t)
    BY <1>5 DEF InBinlog, InFile
  <2>2. \A l \in Logs : Stays(l) /\ (DoneLog(l) => DoneLog(l)')
    BY <1>3, <1>5 DEF Stays, DoneLog, CommitBy, InFile
  <2> QED BY <1>3, <2>1, <2>2 DEF InEngine, Durable
<1>types. XaTypes'
  <2>1. pc' \in [Actors -> TrxLabels \cup BgLabels]
    <3>1. {"idle", "unlog", "end"} \subseteq TrxLabels \cup BgLabels
      BY DEF TrxLabels, FlusherLabels, BgLabels
    <3>2. done[a].to \in TrxLabels \cup BgLabels
      BY <1>to, <3>1
    <3> QED BY <1>1, <1>ina, <3>2, GotoType DEF WriteCheckpoint, DoneReturns
  <2>2. synced' \in 1..Len(blog'[indexed])
    BY <1>4, <1>5, <1>cur, <1>idx
  <2> QED BY <1>1, <1>3, <1>5, <1>ret, <2>1, <2>2 DEF XaTypes
<1>labels. LabelsOk'
  <2> SUFFICES ASSUME NEW b \in Actors PROVE /\ b \in Trx => pc'[b] \in TrxLabels
                                             /\ b = FLUSHER => pc'[b] \in FlusherLabels
                                             /\ b = BG => pc'[b] \in BgLabels
                                             /\ pc'[b] = "crashed" <=> pc'[BG] = "crashed"
    BY Who DEF LabelsOk
  <2>1. pc[BG] # "crashed" /\ pc'[BG] # "crashed"
    BY <1>1, <1>ina, <1>pca, <1>2, Who DEF LabelsOk
  <2>2. CASE b = a
    BY <1>2, <1>to, <1>ret, <2>1, <2>2, Who DEF TrxLabels, FlusherLabels, BgLabels, Marking
  <2>3. CASE b # a
    BY <1>1, <1>2, <2>1, <2>3 DEF LabelsOk
  <2> QED BY <2>2, <2>3
<1>locks. LocksOk'
  <2>1. \A b \in Actors : pc'[b] \notin LogHolders /\ (pc'[b] = "order" <=> pc[b] = "order")
    BY <1>pca, <1>2, <1>only DEF LogHolders
  <2> QED BY <1>1, <1>3, <1>4, <2>1, Who DEF LocksOk
<1>groups. GroupsOk'
  <2>1. Within(Leading) /\ Within({"follow"})
    BY <1>pca, <1>2, <1>3 DEF Within, Leading
  <2>2. group \in [Threads -> Seq(Trx)]
    BY <1>1 DEF XaTypes
  <2> QED BY <1>1, <1>3, <2>1, <2>2, GroupsFrame
<1>rotated. RotatedOk'
  <2>1. Kept((Leading \cup Requesting) \ {"write", "sync"})
    BY <1>pca, <1>2, <1>3 DEF Kept, Leading, Requesting
  <2> QED BY <1>1, <1>3, <2>1, RotatedFrame
<1>index. IndexOk'
  <2>1. \A t \in Trx, l \in Logs : InFile(t, l)' => l <= current
    BY <1>1, <1>5 DEF IndexOk
  <2>2. \A b \in Threads : pc'[b] # "rotate_list"
    BY <1>2, <1>only, Who DEF LogHolders
  <2>3. blog'[indexed][1] = blog[indexed][1]
    BY <1>5, <1>cur, <1>idx
  <2> QED BY <1>1, <1>3, <1>idx, <2>1, <2>2, <2>3 DEF IndexOk
<1>synced. SyncedOk'
  <2>1. sync_period = 1 => \A i \in DOMAIN blog'[indexed'] : ~(i > synced')
    BY <1>3, <1>4, <1>5, <1>cur, <1>idx
  <2> QED BY <2>1 DEF SyncedOk
<1>disks. DisksOk'
  <2>1. ASSUME NEW u \in Trx PROVE DiskOk(u)'
    <3>1. DiskOk(u)
      BY <1>1 DEF DisksOk
    <3> QED BY <1>5, <1>8, <3>1 DEF DiskOk
  <2> QED BY <1>1, <1>3, <2>1 DEF DisksOk, Distinct
<1>trxs. TrxsOk'
  <2> SUFFICES ASSUME NEW u \in Trx PROVE TrxOk(u)'
    BY DEF TrxsOk
  <2>1. TrxOk(u) /\ u \in Actors
    BY <1>1, Who DEF TrxsOk
  <2>2. CASE u = a
    <3>1. InEngine("commit", u) /\ InBinlog(u) /\ pc'[u] \in {"unlog", "end"}
      BY <1>pca, <1>to, <1>ret, <2>1, <2>2 DEF TrxOk, Marking
    <3> QED BY <1>8, <3>1 DEF TrxOk, Requesting, Marking
  <2>3. CASE u # a
    BY <1>2, <1>8, <2>1, <2>3 DEF TrxOk
  <2> QED BY <2>2, <2>3
<1>members. MembersOk'
  <2>1. ASSUME NEW b \in Threads, NEW u \in Range(group[b]) PROVE MemberOk(b, u)'
    <3>1. MemberOk(b, u) /\ pc[b] \in Leading /\ u \in Trx
      BY <1>1, GroupTypes DEF MembersOk, GroupsOk
    <3>2. b # a
      BY <1>pca, <3>1 DEF Leading
    <3>3. pc[b] = "order" /\ pc'[b] = "order"
      BY <1>2, <1>only, <3>1, <3>2, Who DEF LogHolders, Leading
    <3> QED BY <1>8, <3>1, <3>3 DEF MemberOk, Leading
  <2> QED BY <1>1, <1>3, <1>8, <1>run, <2>1 DEF MembersOk
<1>request. RequestOk'
  <2>1. Kept({"checkpoint", "request"})
    BY <1>pca, <1>2 DEF Kept
  <2>2. \A l \in Logs : l < current => Stays(l)
    BY <1>8
  <2>3. Len(elog') = Len(elog) /\ Len(elog) \in Nat /\ flushed' = flushed /\ flushed \in Nat
    BY <1>1, <1>3, DiskTypes
  <2>4. Len(elog) <= Len(elog') /\ flushed <= flushed'
    BY <2>3
  <2> QED BY <1>1, <1>3, <2>1, <2>2, <2>4, <1>types, RequestFrame, ListLogs
<1>flush. FlushOk'
  BY <1>1, <1>3, FlushFrame
<1>checks. CheckpointsOk'
  <2>0. ASSUME NEW m \in 1..(head - 1) PROVE DoneLog(m)'
    <3>1. m \in Logs /\ m < current /\ m < head
      BY <1>nat DEF Logs
    <3>2. xid_count[m] = 0
      BY <1>1, <3>1 DEF LastOk
    <3> QED BY <1>1, <1>8, <1>run, <3>1, <3>2, ZeroDone
  <2> SUFFICES ASSUME NEW l \in Logs, NEW i \in DOMAIN blog'[l], blog'[l][i].type = "checkpoint"
               PROVE  /\ blog'[l][i].arg <= l /\ blog'[l][i].arg <= current
                      /\ \A m \in 1..(blog'[l][i].arg - 1) : DoneLog(m)'
    BY <1>3 DEF CheckpointsOk
  <2>1. CASE l = current /\ i = Len(blog[current]) + 1
    <3>1. blog'[l][i] = Checkpoint(head)
      BY <1>5, <2>1
    <3>2. blog'[l][i].arg = head
      BY <3>1, XidIs
    <3> QED BY <1>nat, <2>0, <2>1, <3>2
  <2>2. CASE ~(l = current /\ i = Len(blog[current]) + 1)
    <3>1. blog'[l][i] = blog[l][i] /\ i \in DOMAIN blog[l]
      <4>1. CASE l # current
        BY <1>5, <4>1
      <4>2. CASE l = current
        <5>1. i \in 1..Len(blog[current])
          BY <1>5, <1>cur, <2>2, <4>2
        <5> QED BY <1>5, <1>cur, <4>2, <5>1
      <4> QED BY <4>1, <4>2
    <3>2. /\ blog[l][i].arg <= l /\ blog[l][i].arg <= current
          /\ \A m \in 1..(blog[l][i].arg - 1) : DoneLog(m)
      BY <1>1, <3>1 DEF CheckpointsOk
    <3>3. blog[l][i].arg \in Logs
      <4>1. blog[l][i] \in LogRecords
        BY <1>1, <3>1, DiskTypes
      <4> QED BY <3>1, <4>1 DEF LogRecords
    <3>4. \A m \in 1..(blog[l][i].arg - 1) : m \in Logs
      BY <1>nat, <3>3 DEF Logs
    <3> QED BY <1>8, <3>1, <3>2, <3>4
  <2> QED BY <2>1, <2>2
<1>last. LastOk'
  <2>1. \A b \in Threads : pc'[b] # "rotate_index"
    BY <1>2, <1>only, Who DEF LogHolders
  <2>2. IsLast(blog'[indexed], head)
    <3>1. Len(blog[current]) + 1 \in DOMAIN blog'[current]
      BY <1>5, <1>cur
    <3>2. \A j \in DOMAIN blog'[current] : ~(j > Len(blog[current]) + 1)
      BY <1>5, <1>cur
    <3> QED BY <1>5, <1>idx, <3>1, <3>2 DEF IsLast
  <2>3. IsLast(blog[indexed], head)'
    BY <1>3, <2>2 DEF IsLast, Checkpoint
  <2>4. first <= head /\ head <= head /\ head \in Logs
    BY <1>1, <1>nat, <1>cur DEF IndexOk
  <2>5. \A b \in Actors : pc[b] = "done_lock" => pc'[b] = "done_lock"
    BY <1>pca, <1>2
  <2> QED BY <1>1, <1>3, <2>1, <2>3, <2>4, <2>5 DEF LastOk
<1>dones. DoneOk'
  <2> SUFFICES ASSUME NEW b \in Actors, pc'[b] \in Marking
               PROVE  /\ done'[b].log \in 1..current
                      /\ b = BG => done'[b].to = "idle" /\ done'[b].log < current
                      /\ b = FLUSHER => done'[b].to = "end"
                      /\ b \in Trx => done'[b].to \in {"unlog", "end"}
                      /\ b \in Trx /\ done'[b].to = "end" => b \in NeedUnlog /\ Xid(b) \in Range(blog'[done'[b].log])
    BY <1>3 DEF DoneOk, InFile
  <2>1. b # a /\ pc[b] \in Marking /\ done'[b] = done[b]
    BY <1>2, <1>ret DEF Marking
  <2>2. done[b].log \in 1..current
    BY <1>1, <2>1 DEF DoneOk
  <2>3. done[b].log \in Logs
    BY <1>nat, <2>2 DEF Logs
  <2>4. InFile(b, done[b].log) => Xid(b) \in Range(blog'[done[b].log])
    BY <1>5, <2>3 DEF InFile
  <2> QED BY <1>1, <2>1, <2>4 DEF DoneOk
<1>hold. HoldOk'
  <2>1. \A b \in Threads : \A l : Holds(b, l)' <=> Holds(b, l)
    BY <1>pca, <1>2, <1>3, <1>ret, Who DEF Holds, HoldTo
  <2>2. ASSUME NEW b \in Threads, pc'[b] = "done", done'[b].to = HoldTo(b) PROVE done'[b].log < current
    <3>1. b # a
      BY <1>2, <2>2
    <3> QED BY <1>1, <1>2, <1>ret, <2>2, <3>1, Who DEF HoldOk
  <2> QED BY <1>1, <1>3, <2>1, <2>2 DEF HoldOk, HoldTo
<1>tokens. TokensOk'
  <2>1. PICK at \in [Logs -> Places], q \in Seq(Logs), r \in Seq(Logs) :
          PlacesOk(at, q, r) /\ CountsOk(at) /\ LeftOk(at)
    BY <1>1 DEF TokensOk
  <2>2. PlacesOk(at, q, r)'
    <3>1. ListsOk(q, r)'
      <4>1. Kept({"notify"})
        BY <1>pca, <1>2 DEF Kept
      <4> QED BY <1>3, <2>1, <4>1, ListsFrame DEF bgVars, PlacesOk
    <3>2. ASSUME NEW l \in Logs PROVE PlaceOk(at, q, r, l)'
      <4>1. PlaceOk(at, q, r, l)
        BY <2>1 DEF PlacesOk
      <4>2. \A b \in Threads : pc'[b] = "request" <=> pc[b] = "request"
        BY <1>pca, <1>2, Who
      <4>3. pc'[BG] = "done" /\ done'[BG].log = l <=> pc[BG] = "done" /\ done[BG].log = l
        BY <1>pca, <1>2, <1>ret, Who
      <4> QED BY <1>3, <4>1, <4>2, <4>3 DEF PlaceOk
    <3>3. \A b \in Threads : rotated[b] # 0 /\ pc'[b] \notin {"request", "notify"} => at[rotated[b]] = "none"
      BY <1>pca, <1>2, <2>1, Who DEF PlacesOk
    <3> QED BY <1>3, <3>1, <3>2, <3>3 DEF PlacesOk
  <2>3. LeftOk(at)'
    <3>1. Within({"next_stage", "order", "checkpoint"}) /\ Within({"crashed"})
      BY <1>pca, <1>2 DEF Within
    <3>2. \A l \in 1..(current - 1) : DoneLog(l) => DoneLog(l)'
      BY <1>8, <1>nat DEF Logs
    <3> QED BY <1>3, <2>1, <3>1, <3>2, LeftFrame
  <2>4. ASSUME NEW u \in Trx PROVE Counted(u)' <=> Counted(u)
    <3>0. \A b \in Threads : pc'[b] \notin {"write", "sync"} <=> pc[b] \notin {"write", "sync"}
      BY <1>pca, <1>2, Who
    <3>1. CASE u = a
      BY <1>pca, <1>2, <1>to, <1>ret, <3>1 DEF Counted, CountedLabels, Marking
    <3>2. CASE u # a
      <4>1. u \in Actors /\ pc'[u] = pc[u] /\ done'[u] = done[u]
        BY <1>2, <1>ret, <3>2, Who
      <4> QED BY <1>3, <3>0, <4>1 DEF Counted
    <3> QED BY <3>1, <3>2
  <2>5. CountsOk(at)'
    <3>1. \A b \in Threads : \A l : Holds(b, l)' <=> Holds(b, l)
      BY <1>pca, <1>2, <1>3, <1>ret, Who DEF Holds, HoldTo
    <3>2. \A l \in Logs : Unlogged(l)' = Unlogged(l)
      BY <1>5, <2>4, BinlogXaAssumption DEF Unlogged
    <3>3. \A l \in Logs : (\E b \in Threads : Holds(b, l)') <=> (\E b \in Threads : Holds(b, l))
      BY <3>1
    <3> QED BY <1>3, <2>1, <3>2, <3>3 DEF CountsOk, Bit
  <2> QED BY <2>2, <2>3, <2>5 DEF TokensOk
<1> QED BY <1>types, <1>labels, <1>locks, <1>groups, <1>rotated, <1>index, <1>synced, <1>disks, <1>trxs,
     <1>members, <1>request, <1>flush, <1>checks, <1>last, <1>dones, <1>hold, <1>tokens DEF XaInv

\* A count that is given back was there; the last one of the head makes its owner go on to the checkpoint.
LEMMA MarkXidDoneStep ==
    ASSUME XaInv, NEW a \in Actors, MarkXidDone(a), UNCHANGED sync_period
    PROVE  XaInv'
<1>1. /\ XaTypes /\ LabelsOk /\ LocksOk /\ GroupsOk /\ RotatedOk /\ IndexOk /\ SyncedOk /\ DisksOk /\ TrxsOk
      /\ MembersOk /\ RequestOk /\ FlushOk /\ CheckpointsOk /\ LastOk /\ DoneOk /\ HoldOk /\ TokensOk
  BY DEF XaInv
<1>ina. a \in Actors
  OBVIOUS
<1>pca. pc[a] = "done"
  BY DEF MarkXidDone, At
<1>3. UNCHANGED <<elog, flushed, blog, synced, first, indexed, inuse, current, head, LOCK_log,
                  LOCK_after_binlog_sync, bg_queue, next_in_queue, log_requests, group, rotated, req,
                  to_notify, flush_notify, bg, lost, crashes>>
  BY DEF MarkXidDone, diskVars, listVars, lockVars, bgVars, ctlVars, DoneReturns
<1>nat. /\ current \in Nat /\ head \in Nat /\ indexed \in Nat /\ first \in Nat /\ MaxLogs \in Nat
        /\ 1 <= head /\ head <= current /\ current <= MaxLogs
  BY <1>1, DiskTypes
<1>to. /\ done[a].to \in {"idle", "unlog", "end"} /\ done[a].log \in 1..current /\ done[a].log \in Logs
       /\ a = BG => done[a].to = "idle" /\ done[a].log < current
       /\ a = FLUSHER => done[a].to = "end"
       /\ a \in Trx => done[a].to \in {"unlog", "end"}
       /\ a \in Trx /\ done[a].to = "end" => a \in NeedUnlog /\ InFile(a, done[a].log)
  <2>1. pc[a] \in Marking
    BY <1>pca DEF Marking
  <2>2. done[a].log \in 1..current
    BY <1>1, <1>ina, <2>1 DEF DoneOk
  <2>3. done[a].log \in Logs
    BY <1>nat, <2>2 DEF Logs
  <2>4. done[a].to \in {"idle", "unlog", "end"}
    BY <1>1, <1>ina, <2>1, Who DEF DoneOk
  <2> QED BY <1>1, <1>ina, <2>1, <2>2, <2>3, <2>4 DEF DoneOk
<1>dt. /\ done \in [Actors -> [log : 0..MaxLogs, to : {"none", "idle", "unlog", "end"}]]
       /\ NotDone[a] \in [log : 0..MaxLogs, to : {"none", "idle", "unlog", "end"}]
  BY <1>1, <1>nat, <1>ina DEF XaTypes, NotDone
<1>log. PICK l \in Logs : l = done[a].log
  BY <1>to
<1>4. xid_count' = [xid_count EXCEPT ![l] = @ - 1]
  BY <1>log DEF MarkXidDone
<1>2. pc'[a] \in {"done_lock", "idle", "unlog", "end"} /\ \A b \in Actors : b # a => pc'[b] = pc[b]
  <2>1. CASE Goto(a, "done_lock")
    BY <1>1, <1>ina, <2>1, GotoFacts
  <2>2. CASE Goto(a, done[a].to)
    BY <1>1, <1>ina, <1>to, <2>2, GotoFacts
  <2> QED BY <2>1, <2>2 DEF MarkXidDone, DoneReturns
<1>ret. /\ \A b \in Actors : b # a => done'[b] = done[b]
        /\ done' \in [Actors -> [log : 0..MaxLogs, to : {"none", "idle", "unlog", "end"}]]
        /\ \/ pc'[a] = "done_lock" /\ done'[a] = done[a] /\ l # current /\ l = head /\ xid_count[l] = 1
           \/ pc'[a] = done[a].to /\ ~(l # current /\ l = head /\ xid_count[l] = 1)
  <2>1. CASE l # current /\ xid_count[l] = 1 /\ l = head
    <3>1. Goto(a, "done_lock") /\ done' = done
      BY <1>log, <2>1 DEF MarkXidDone
    <3>2. pc'[a] = "done_lock"
      BY <1>1, <1>ina, <3>1, GotoFacts
    <3> QED BY <1>dt, <2>1, <3>1, <3>2
  <2>2. CASE ~(l # current /\ xid_count[l] = 1 /\ l = head)
    <3>1. Goto(a, done[a].to) /\ done' = [done EXCEPT ![a] = NotDone[a]]
      BY <1>log, <2>2 DEF MarkXidDone, DoneReturns
    <3>2. pc'[a] = done[a].to
      BY <1>1, <1>ina, <3>1, GotoFacts
    <3>3. \A b \in Actors : b # a => done'[b] = done[b]
      BY <1>dt, <1>ina, <3>1
    <3>4. done' \in [Actors -> [log : 0..MaxLogs, to : {"none", "idle", "unlog", "end"}]]
      BY <1>dt, <1>ina, <3>1
    <3> QED BY <2>2, <3>2, <3>3, <3>4
  <2> QED BY <2>1, <2>2
<1>at. PICK at \in [Logs -> Places], q \in Seq(Logs), r \in Seq(Logs) :
         PlacesOk(at, q, r) /\ CountsOk(at) /\ LeftOk(at)
  BY <1>1 DEF TokensOk
<1>card. \A m \in Logs : /\ Cardinality(Unlogged(m)) \in Nat
                         /\ xid_count[m] = Cardinality(Unlogged(m)) + Bit(\E b \in Threads : Holds(b, m)) + Bit(at[m] # "none")
  BY <1>at, UnloggedFinite DEF CountsOk
<1>same. /\ \A b \in Threads : \A m : b # a => (Holds(b, m)' <=> Holds(b, m))
         /\ \A u \in Trx : u # a => (Counted(u)' <=> Counted(u))
         /\ \A t : \A m : InFile(t, m)' <=> InFile(t, m)
  <2>1. \A b \in Threads : \A m : b # a => (Holds(b, m)' <=> Holds(b, m))
    BY <1>2, <1>3, <1>ret, Who DEF Holds, HoldTo
  <2>2. \A b \in Threads : pc'[b] \notin {"write", "sync"} <=> pc[b] \notin {"write", "sync"}
    BY <1>pca, <1>2, Who
  <2>3. ASSUME NEW u \in Trx, u # a PROVE Counted(u)' <=> Counted(u)
    <3>1. pc'[u] = pc[u] /\ done'[u] = done[u]
      BY <1>2, <1>ret, <2>3, Who
    <3> QED BY <1>3, <2>2, <3>1 DEF Counted
  <2>4. \A t : \A m : InFile(t, m)' <=> InFile(t, m)
    BY <1>3 DEF InFile
  <2> QED BY <2>1, <2>3, <2>4
<1>xc. xid_count \in [Logs -> Nat]
  BY <1>1 DEF XaTypes
<1>mine. a \in Threads => /\ \A m \in Logs : Holds(a, m) <=> m = l /\ done[a].to = HoldTo(a)
                          /\ \A m \in Logs : ~Holds(a, m)'
  <2> SUFFICES ASSUME a \in Threads, NEW m \in Logs
               PROVE  (Holds(a, m) <=> m = l /\ done[a].to = HoldTo(a)) /\ ~Holds(a, m)'
    OBVIOUS
  <2>1. rotated[a] = 0 /\ m # 0
    BY <1>1, <1>pca, <1>nat DEF RotatedOk, Logs
  <2> QED BY <1>pca, <1>2, <1>3, <1>log, <2>1 DEF Holds
<1>pos. xid_count[l] > 0
  <2>1. CASE a = BG
    <3>1. at[l] = "done"
      BY <1>at, <1>pca, <1>log, <2>1 DEF PlacesOk, PlaceOk
    <3> QED BY <1>card, <3>1 DEF Bit
  <2>2. CASE a \in Threads /\ done[a].to = HoldTo(a)
    <3>1. \E b \in Threads : Holds(b, l)
      BY <1>mine, <2>2
    <3> QED BY <1>card, <3>1 DEF Bit
  <2>3. CASE a \in Trx /\ done[a].to = "end"
    <3>1. a \in Unlogged(l)
      BY <1>to, <1>log, <1>pca, <2>3 DEF Unlogged, Counted
    <3>2. Cardinality(Unlogged(l)) # 0
      BY <3>1, UnloggedFinite, FS_EmptySet
    <3> QED BY <1>card, <3>2 DEF Bit
  <2> QED BY <1>to, <2>1, <2>2, <2>3, Who DEF HoldTo
<1>5. /\ xid_count' \in [Logs -> Nat] /\ xid_count'[l] = xid_count[l] - 1
      /\ \A m \in Logs : m # l => xid_count'[m] = xid_count[m]
  BY <1>4, <1>pos, <1>xc
<1>types. XaTypes'
  <2>1. pc' \in [Actors -> TrxLabels \cup BgLabels]
    <3>1. {"done_lock", "idle", "unlog", "end"} \subseteq TrxLabels \cup BgLabels
      BY DEF TrxLabels, FlusherLabels, BgLabels, Marking
    <3>2. done[a].to \in TrxLabels \cup BgLabels /\ "done_lock" \in TrxLabels \cup BgLabels
      BY <1>to, <3>1
    <3> QED BY <1>1, <1>ina, <3>2, GotoType DEF MarkXidDone, DoneReturns
  <2> QED BY <1>1, <1>3, <1>5, <1>ret, <2>1 DEF XaTypes
<1>labels. LabelsOk'
  <2> SUFFICES ASSUME NEW b \in Actors PROVE /\ b \in Trx => pc'[b] \in TrxLabels
                                             /\ b = FLUSHER => pc'[b] \in FlusherLabels
                                             /\ b = BG => pc'[b] \in BgLabels
                                             /\ pc'[b] = "crashed" <=> pc'[BG] = "crashed"
    BY Who DEF LabelsOk
  <2>1. pc[BG] # "crashed" /\ pc'[BG] # "crashed"
    BY <1>1, <1>ina, <1>pca, <1>2, Who DEF LabelsOk
  <2>2. CASE b = a
    BY <1>2, <1>to, <1>ret, <2>1, <2>2, Who DEF TrxLabels, FlusherLabels, BgLabels, Marking
  <2>3. CASE b # a
    BY <1>1, <1>2, <2>1, <2>3 DEF LabelsOk
  <2> QED BY <2>2, <2>3
<1>locks. LocksOk'
  <2>1. Within(LogHolders) /\ Within({"order"})
    BY <1>pca, <1>2, <1>3 DEF Within, LogHolders
  <2> QED BY <1>1, <1>3, <2>1, LocksFrame DEF lockVars
<1>groups. GroupsOk'
  <2>1. Within(Leading) /\ Within({"follow"})
    BY <1>pca, <1>2, <1>3 DEF Within, Leading
  <2>2. group \in [Threads -> Seq(Trx)]
    BY <1>1 DEF XaTypes
  <2> QED BY <1>1, <1>3, <2>1, <2>2, GroupsFrame
<1>rotated. RotatedOk'
  <2>1. Kept((Leading \cup Requesting) \ {"write", "sync"})
    BY <1>pca, <1>2, <1>3 DEF Kept, Leading, Requesting
  <2> QED BY <1>1, <1>3, <2>1, RotatedFrame
<1>index. IndexOk'
  <2>1. Kept({"rotate_list"})
    BY <1>pca, <1>2, <1>3 DEF Kept
  <2> QED BY <1>1, <1>3, <2>1, IndexFrame
<1>synced. SyncedOk'
  <2>1. Kept({"sync"})
    BY <1>pca, <1>2, <1>3 DEF Kept
  <2> QED BY <1>1, <1>3, <2>1, SyncedFrame
<1>disks. DisksOk'
  BY <1>1, <1>3, DisksFrame
<1>trxs. TrxsOk'
  <2> SUFFICES ASSUME NEW u \in Trx PROVE TrxOk(u)'
    BY DEF TrxsOk
  <2>1. TrxOk(u) /\ u \in Actors
    BY <1>1, Who DEF TrxsOk
  <2>2. CASE u = a
    <3>1. InEngine("commit", u) /\ InBinlog(u) /\ pc'[u] \in {"done_lock", "unlog", "end"}
      BY <1>pca, <1>to, <1>ret, <2>1, <2>2 DEF TrxOk, Marking
    <3>2. InEngine("commit", u)' /\ InBinlog(u)'
      BY <1>3, <3>1 DEF InEngine, InBinlog
    <3> QED BY <3>1, <3>2 DEF TrxOk, Requesting, Marking
  <2>3. CASE u # a
    BY <1>2, <1>3, <2>1, <2>3, TrxFrame
  <2> QED BY <2>2, <2>3
<1>members. MembersOk'
  <2>1. Within({"write"}) /\ Within(Leading \ {"write", "order"}) /\ Within({"order"}) /\ Within({"crashed"})
    BY <1>pca, <1>2, <1>3 DEF Within, Leading
  <2> QED BY <1>1, <1>3, <2>1, MembersFrame
<1>request. RequestOk'
  <2>1. Kept({"checkpoint", "request"})
    BY <1>pca, <1>2, <1>3 DEF Kept
  <2>2. \A k \in Logs : Stays(k)
    BY <1>3, StaysFrame
  <2>3. Len(elog') = Len(elog) /\ Len(elog) \in Nat /\ flushed' = flushed /\ flushed \in Nat
    BY <1>1, <1>3, DiskTypes
  <2>4. Len(elog) <= Len(elog') /\ flushed <= flushed'
    BY <2>3
  <2> QED BY <1>1, <1>3, <2>1, <2>2, <2>4, <1>types, RequestFrame, ListLogs
<1>flush. FlushOk'
  BY <1>1, <1>3, FlushFrame
<1>checks. CheckpointsOk'
  BY <1>1, <1>3, CheckpointsFrame
<1>last. LastOk'
  <2>1. \A b \in Threads : pc'[b] = "rotate_index" <=> pc[b] = "rotate_index"
    BY <1>pca, <1>2, Who
  <2>2. PICK c \in Logs : /\ IsLast(blog[indexed], c)
                          /\ ~PurgeInWindow /\ sync_period = 1 => first <= c
                          /\ Running /\ ~Window => head <= c
    BY <1>1 DEF LastOk
  <2>3. IsLast(blog[indexed], c)'
    BY <1>3, <2>2 DEF IsLast
  <2>4. (Running' <=> Running) /\ (~Window' => ~Window)
    BY <1>pca, <1>2, Who DEF Running, At, Window
  <2>5. ASSUME head # current, xid_count'[head] = 0 PROVE \E b \in Actors : pc'[b] = "done_lock"
    <3>1. CASE l = head
      <4>1. xid_count[l] \in Nat /\ xid_count'[l] = xid_count[l] - 1
        BY <1>5, <1>xc
      <4>2. xid_count[l] = 1
        BY <2>5, <3>1, <4>1
      <4> QED BY <1>ina, <1>ret, <2>5, <3>1, <4>2
    <3>2. CASE l # head
      <4>1. head \in Logs
        BY <1>1, DiskTypes
      <4>2. xid_count[head] = 0
        BY <1>5, <2>5, <3>2, <4>1
      <4>3. PICK b \in Actors : pc[b] = "done_lock"
        BY <1>1, <2>5, <4>2 DEF LastOk
      <4> QED BY <1>pca, <1>2, <4>3
    <3> QED BY <3>1, <3>2
  <2>6. ASSUME NEW m \in Logs, m < head PROVE xid_count'[m] = 0
    <3>1. xid_count[m] = 0
      BY <1>1, <2>6 DEF LastOk
    <3>2. m # l
      BY <1>pos, <3>1
    <3> QED BY <1>5, <3>1, <3>2
  <2> QED BY <1>1, <1>3, <2>1, <2>2, <2>3, <2>4, <2>5, <2>6 DEF LastOk
<1>dones. DoneOk'
  <2> SUFFICES ASSUME NEW b \in Actors, pc'[b] \in Marking
               PROVE  /\ done'[b].log \in 1..current
                      /\ b = BG => done'[b].to = "idle" /\ done'[b].log < current
                      /\ b = FLUSHER => done'[b].to = "end"
                      /\ b \in Trx => done'[b].to \in {"unlog", "end"}
                      /\ b \in Trx /\ done'[b].to = "end" => b \in NeedUnlog /\ InFile(b, done'[b].log)
    BY <1>3 DEF DoneOk, InFile
  <2>1. pc[b] \in Marking /\ done'[b] = done[b]
    <3>1. CASE b = a
      BY <1>pca, <1>to, <1>ret, <3>1 DEF Marking
    <3>2. CASE b # a
      BY <1>2, <1>ret, <3>2
    <3> QED BY <3>1, <3>2
  <2> QED BY <1>1, <2>1 DEF DoneOk
<1>hold. HoldOk'
  <2>1. \A b, d \in Threads, m \in Logs : Holds(b, m)' /\ Holds(d, m)' => b = d
    BY <1>1, <1>same, <1>mine DEF HoldOk
  <2>2. ASSUME NEW b \in Threads, pc'[b] = "done", done'[b].to = HoldTo(b) PROVE done'[b].log < current
    <3>1. b # a
      BY <1>2, <2>2
    <3> QED BY <1>1, <1>2, <1>ret, <2>2, <3>1, Who DEF HoldOk
  <2> QED BY <1>3, <2>1, <2>2 DEF HoldOk, HoldTo
<1>tokens. TokensOk'
  <2>left. ASSUME NEW bt, \A m : at[m] \in {"request", "list"} => bt[m] = at[m] PROVE LeftOk(bt)'
    <3>1. Within({"next_stage", "order", "checkpoint"}) /\ Within({"crashed"})
      BY <1>pca, <1>2 DEF Within
    <3>2. \A m : DoneLog(m) => DoneLog(m)'
      BY <1>3 DEF DoneLog, CommitBy, InFile
    <3>3. LeftOk(bt)
      BY <1>at, <2>left DEF LeftOk
    <3> QED BY <1>3, <3>1, <3>2, <3>3, LeftFrame
  <2>1. CASE a = BG
    <3> DEFINE bt == [at EXCEPT ![l] = "none"]
    <3>1. bt \in [Logs -> Places] /\ bt[l] = "none" /\ (\A m \in Logs : m # l => bt[m] = at[m])
          /\ at[l] = "done" /\ DOMAIN bt = Logs
      BY <1>at, <1>pca, <1>log, <2>1 DEF PlacesOk, PlaceOk, Places
    <3> HIDE DEF bt
    <3>2. PlacesOk(bt, q, r)'
      <4>1. ListsOk(q, r)'
        <5>1. Kept({"notify"})
          BY <1>pca, <1>2 DEF Kept
        <5> QED BY <1>3, <1>at, <5>1, ListsFrame DEF bgVars, PlacesOk
      <4>2. ASSUME NEW m \in Logs PROVE PlaceOk(bt, q, r, m)'
        <5>1. PlaceOk(at, q, r, m)
          BY <1>at DEF PlacesOk
        <5>2. \A b \in Threads : pc'[b] = "request" <=> pc[b] = "request"
          BY <1>pca, <1>2, Who
        <5>3. pc'[BG] # "done" /\ pc[BG] = "done" /\ done[BG].log = l
          BY <1>pca, <1>2, <1>log, <2>1
        <5>4. CASE m = l
          BY <1>3, <3>1, <5>1, <5>2, <5>3, <5>4 DEF PlaceOk
        <5>5. CASE m # l
          BY <1>3, <3>1, <5>1, <5>2, <5>3, <5>5 DEF PlaceOk
        <5> QED BY <5>4, <5>5
      <4>3. ASSUME NEW b \in Threads, rotated[b] # 0, pc'[b] \notin {"request", "notify"} PROVE bt[rotated[b]] = "none"
        <5>1. rotated[b] \in Logs
          BY <1>1, <4>3, RotatedLog
        <5>2. at[rotated[b]] = "none"
          BY <1>at, <1>pca, <1>2, <4>3, Who DEF PlacesOk
        <5> QED BY <3>1, <5>1, <5>2
      <4> QED BY <1>3, <4>1, <4>2, <4>3 DEF PlacesOk
    <3>3. CountsOk(bt)'
      <4> SUFFICES ASSUME NEW m \in Logs
                   PROVE  xid_count'[m] = Cardinality(Unlogged(m)') + Bit(\E b \in Threads : Holds(b, m)') + Bit(bt[m] # "none")
        BY DEF CountsOk, Bit
      <4>1. Unlogged(m)' = Unlogged(m)
        BY <1>same, <2>1, Who, BinlogXaAssumption DEF Unlogged
      <4>2. (\E b \in Threads : Holds(b, m)') <=> (\E b \in Threads : Holds(b, m))
        BY <1>same, <2>1, Who
      <4>3. CASE m = l
        <5>1. at[m] # "none" /\ ~(bt[m] # "none")
          BY <3>1, <4>3
        <5> QED BY <1>5, <1>card, <4>1, <4>2, <4>3, <5>1 DEF Bit
      <4>4. CASE m # l
        BY <1>5, <1>card, <3>1, <4>1, <4>2, <4>4 DEF Bit
      <4> QED BY <4>3, <4>4
    <3>4. LeftOk(bt)'
      <4>1. ASSUME NEW m \in Logs, at[m] \in {"request", "list"} PROVE bt[m] = at[m]
        BY <3>1, <4>1
      <4> SUFFICES ASSUME Running', NEW m \in 1..(current - 1)
                   PROVE  \/ DoneLog(m)' \/ bt[m] \in {"request", "list"}
                          \/ \E b \in Threads : rotated[b] = m /\ pc'[b] \in {"next_stage", "order", "checkpoint"}
        BY <1>3 DEF LeftOk
      <4>2. Running /\ m \in Logs
        BY <1>pca, <1>nat, <2>1 DEF Running, At, Logs
      <4>3. \/ DoneLog(m) \/ at[m] \in {"request", "list"}
            \/ \E b \in Threads : rotated[b] = m /\ pc[b] \in {"next_stage", "order", "checkpoint"}
        BY <1>at, <4>2 DEF LeftOk
      <4>4. DoneLog(m) => DoneLog(m)'
        BY <1>3 DEF DoneLog, CommitBy, InFile
      <4>5. \A b \in Threads : pc[b] \in {"next_stage", "order", "checkpoint"} => pc'[b] = pc[b]
        BY <1>pca, <1>2, Who
      <4> QED BY <4>1, <4>2, <4>3, <4>4, <4>5
    <3> QED BY <1>at, <3>1, <3>2, <3>3, <3>4 DEF TokensOk
  <2>2. CASE a \in Threads
    <3>1. PlacesOk(at, q, r)'
      <4>1. Kept({"request", "notify"}) /\ done'[BG] = done[BG] /\ (pc'[BG] = "done" <=> pc[BG] = "done")
        BY <1>pca, <1>2, <1>ret, <2>2, Who DEF Kept
      <4> QED BY <1>3, <1>at, <4>1, PlacesStay DEF bgVars
    <3>2. CountsOk(at)'
      <4> SUFFICES ASSUME NEW m \in Logs
                   PROVE  xid_count'[m] = Cardinality(Unlogged(m)') + Bit(\E b \in Threads : Holds(b, m)') + Bit(at[m] # "none")
        BY DEF CountsOk, Bit
      <4>1. CASE done[a].to = HoldTo(a)
        <5>1. a \in Trx => (Counted(a)' <=> Counted(a))
          <6> SUFFICES ASSUME a \in Trx PROVE Counted(a)' <=> Counted(a)
            OBVIOUS
          <6>1. done[a].to = "unlog"
            BY <4>1, Who DEF HoldTo
          <6>2. Counted(a)
            BY <1>pca, <6>1 DEF Counted, Marking
          <6>3. Counted(a)'
            BY <1>ret, <6>1 DEF Counted, CountedLabels, Marking
          <6> QED BY <6>2, <6>3
        <5>2. Unlogged(m)' = Unlogged(m)
          BY <1>same, <5>1, BinlogXaAssumption DEF Unlogged
        <5>3. CASE m # l
          <6>1. (\E b \in Threads : Holds(b, m)') <=> (\E b \in Threads : Holds(b, m))
            BY <1>same, <1>mine, <2>2, <5>3
          <6> QED BY <1>5, <1>card, <5>2, <5>3, <6>1 DEF Bit
        <5>4. CASE m = l
          <6>1. \E b \in Threads : Holds(b, m)
            BY <1>mine, <2>2, <4>1, <5>4
          <6>2. ~(\E b \in Threads : Holds(b, m)')
            BY <1>1, <1>same, <1>mine, <2>2, <4>1, <5>4 DEF HoldOk
          <6>3. Bit(\E b \in Threads : Holds(b, m)) = 1 /\ Bit(\E b \in Threads : Holds(b, m)') = 0
                /\ Bit(at[m] # "none") \in Nat
            BY <6>1, <6>2 DEF Bit
          <6>4. xid_count[m] = Cardinality(Unlogged(m)) + 1 + Bit(at[m] # "none") /\ Cardinality(Unlogged(m)) \in Nat
            BY <1>card, <6>3
          <6>5. Cardinality(Unlogged(m)') = Cardinality(Unlogged(m)) /\ xid_count'[m] = xid_count[m] - 1
            BY <1>5, <5>2, <5>4
          <6> QED BY <6>1, <6>2, <6>4, <6>5 DEF Bit
        <5> QED BY <5>3, <5>4
      <4>2. CASE done[a].to # HoldTo(a)
        <5>0. a \in Trx /\ done[a].to = "end" /\ a \in NeedUnlog /\ InFile(a, l)
          BY <1>to, <1>log, <2>2, <4>2, Who DEF HoldTo
        <5>1. Counted(a) /\ ~Counted(a)'
          <6>1. Counted(a)
            BY <1>pca, <5>0 DEF Counted
          <6>2. ~Counted(a)'
            BY <1>ret, <5>0 DEF Counted, CountedLabels, Marking
          <6> QED BY <6>1, <6>2
        <5>2. (\E b \in Threads : Holds(b, m)') <=> (\E b \in Threads : Holds(b, m))
          BY <1>same, <1>mine, <2>2, <4>2
        <5>3. CASE m # l
          <6>1. ~InFile(a, m)
            BY <1>1, <5>0, <5>3 DEF DisksOk, DiskOk
          <6>2. Unlogged(m)' = Unlogged(m)
            BY <1>same, <6>1, BinlogXaAssumption DEF Unlogged
          <6> QED BY <1>5, <1>card, <5>2, <5>3, <6>2 DEF Bit
        <5>4. CASE m = l
          <6>1. Unlogged(m)' = Unlogged(m) \ {a}
            BY <1>same, <5>1, BinlogXaAssumption DEF Unlogged
          <6>2. a \in Unlogged(m)
            BY <5>0, <5>1, <5>4 DEF Unlogged
          <6>3. Cardinality(Unlogged(m)') = Cardinality(Unlogged(m)) - 1
            BY <6>1, <6>2, UnloggedFinite, FS_RemoveElement
          <6> QED BY <1>5, <1>card, <5>2, <5>4, <6>3 DEF Bit
        <5> QED BY <5>3, <5>4
      <4> QED BY <4>1, <4>2
    <3>3. LeftOk(at)'
      BY <2>left
    <3> QED BY <1>at, <3>1, <3>2, <3>3 DEF TokensOk
  <2> QED BY <2>1, <2>2, Who DEF Actors
<1> QED BY <1>types, <1>labels, <1>locks, <1>groups, <1>rotated, <1>index, <1>synced, <1>disks, <1>trxs,
     <1>members, <1>request, <1>flush, <1>checks, <1>last, <1>dones, <1>hold, <1>tokens DEF XaInv

\* The background thread takes the whole queue.
LEMMA BgGrabStep ==
    ASSUME XaInv, BgGrab, UNCHANGED sync_period
    PROVE  XaInv'
<1>1. /\ XaTypes /\ LabelsOk /\ LocksOk /\ GroupsOk /\ RotatedOk /\ IndexOk /\ SyncedOk /\ DisksOk /\ TrxsOk
      /\ MembersOk /\ RequestOk /\ FlushOk /\ CheckpointsOk /\ LastOk /\ DoneOk /\ HoldOk /\ TokensOk
  BY DEF XaInv
<1>3. UNCHANGED <<elog, flushed, blog, synced, first, indexed, inuse, current, head, xid_count, LOCK_log,
                  LOCK_after_binlog_sync, next_in_queue, log_requests, pc, group, rotated, done, req,
                  to_notify, flush_notify, lost, crashes>>
  BY DEF BgGrab, diskVars, listVars, lockVars, bgVars, ctlVars
<1>at. PICK at \in [Logs -> Places], q \in Seq(Logs), r \in Seq(Logs) :
         PlacesOk(at, q, r) /\ CountsOk(at) /\ LeftOk(at)
  BY <1>1 DEF TokensOk
<1>donelog. \A m : DoneLog(m) => DoneLog(m)'
  BY <1>3 DEF DoneLog, CommitBy, InFile
<1>4. pc[BG] = "idle" /\ bg = 0 /\ bg' = bg_queue /\ bg_queue' = 0
  BY DEF BgGrab, At
<1>5. r = <<>> /\ Range(r) = {} /\ IsChain(q, bg_queue)
  <2>1. r = <<>>
    BY <1>at, <1>4, ChainStart DEF PlacesOk, ListsOk
  <2> QED BY <1>at, <2>1 DEF Range, PlacesOk, ListsOk
<1>types. XaTypes'
  BY <1>1, <1>3, <1>4, BinlogXaAssumption DEF XaTypes
<1>labels. LabelsOk'
  BY <1>1, <1>3 DEF LabelsOk
<1>locks. LocksOk'
  <2>1. Within(LogHolders) /\ Within({"order"})
    BY <1>3 DEF Within, LogHolders
  <2> QED BY <1>1, <1>3, <2>1, LocksFrame DEF lockVars
<1>groups. GroupsOk'
  <2>1. Within(Leading) /\ Within({"follow"})
    BY <1>3 DEF Within, Leading
  <2>2. group \in [Threads -> Seq(Trx)]
    BY <1>1 DEF XaTypes
  <2> QED BY <1>1, <1>3, <2>1, <2>2, GroupsFrame
<1>rotated. RotatedOk'
  <2>1. Kept((Leading \cup Requesting) \ {"write", "sync"})
    BY <1>3 DEF Kept, Leading, Requesting
  <2> QED BY <1>1, <1>3, <2>1, RotatedFrame
<1>index. IndexOk'
  <2>1. Kept({"rotate_list"})
    BY <1>3 DEF Kept
  <2> QED BY <1>1, <1>3, <2>1, IndexFrame
<1>synced. SyncedOk'
  <2>1. Kept({"sync"})
    BY <1>3 DEF Kept
  <2> QED BY <1>1, <1>3, <2>1, SyncedFrame
<1>disks. DisksOk'
  BY <1>1, <1>3, DisksFrame
<1>trxs. TrxsOk'
  <2> SUFFICES ASSUME NEW u \in Trx PROVE TrxOk(u)'
    BY DEF TrxsOk
  <2>1. TrxOk(u)
    BY <1>1 DEF TrxsOk
  <2> QED BY <1>3, <2>1, TrxFrame
<1>members. MembersOk'
  <2>1. Within({"write"}) /\ Within(Leading \ {"write", "order"}) /\ Within({"order"}) /\ Within({"crashed"})
    BY <1>3 DEF Within, Leading
  <2> QED BY <1>1, <1>3, <2>1, MembersFrame
<1>request. RequestOk'
  <2>1. Kept({"checkpoint", "request"})
    BY <1>3 DEF Kept
  <2>2. \A l \in Logs : Stays(l)
    BY <1>3, StaysFrame
  <2>3. Len(elog') = Len(elog) /\ Len(elog) \in Nat /\ flushed' = flushed /\ flushed \in Nat
    BY <1>1, <1>3, DiskTypes
  <2>4. Len(elog) <= Len(elog') /\ flushed <= flushed'
    BY <2>3
  <2> QED BY <1>1, <1>3, <2>1, <2>2, <2>4, <1>types, RequestFrame, ListLogs
<1>flush. FlushOk'
  BY <1>1, <1>3, FlushFrame
<1>checks. CheckpointsOk'
  BY <1>1, <1>3, CheckpointsFrame
<1>last. LastOk'
  <2>1. Kept({"rotate_index", "done_lock", "done_write", "crashed"})
    BY <1>3 DEF Kept
  <2> QED BY <1>1, <1>3, <2>1, LastFrame
<1>dones. DoneOk'
  <2>1. Within(Marking)
    BY <1>3 DEF Within, Marking
  <2> QED BY <1>1, <1>3, <2>1, DoneFrame
<1>hold. HoldOk'
  <2>1. Kept({"done"})
    BY <1>3 DEF Kept
  <2> QED BY <1>1, <1>3, <2>1, HoldFrame
<1>tokens. TokensOk'
  <2> DEFINE bt == [m \in Logs |-> IF at[m] = "queue" THEN "bg" ELSE at[m]]
  <2>1. bt \in [Logs -> Places] /\ \A m \in Logs : bt[m] = IF at[m] = "queue" THEN "bg" ELSE at[m]
    BY <1>at DEF Places
  <2> HIDE DEF bt
  <2>2. PlacesOk(bt, r, q)'
    <3>1. ListsOk(r, q)'
      <4>1. IsChain(r, bg_queue)'
        BY <1>4, <1>5 DEF IsChain
      <4>2. IsChain(q, bg)'
        BY <1>3, <1>4, <1>5 DEF IsChain
      <4> QED BY <1>3, <1>at, <4>1, <4>2 DEF PlacesOk, ListsOk, Distinct
    <3>2. ASSUME NEW m \in Logs PROVE PlaceOk(bt, r, q, m)'
      <4>1. PlaceOk(at, q, r, m)
        BY <1>at DEF PlacesOk
      <4>2. at[m] # "bg" /\ bt[m] = IF at[m] = "queue" THEN "bg" ELSE at[m]
        BY <1>5, <2>1, <4>1 DEF PlaceOk
      <4> QED BY <1>3, <1>5, <4>1, <4>2 DEF PlaceOk
    <3>3. ASSUME NEW a \in Threads, rotated[a] # 0, pc[a] \notin {"request", "notify"} PROVE bt[rotated[a]] = "none"
      <4>1. rotated[a] \in Logs
        BY <1>1, <3>3, RotatedLog
      <4>2. at[rotated[a]] = "none"
        BY <1>at, <3>3 DEF PlacesOk
      <4> QED BY <2>1, <4>1, <4>2
    <3> QED BY <1>3, <3>1, <3>2, <3>3 DEF PlacesOk
  <2>3. CountsOk(bt)'
    <3>1. \A t \in NeedUnlog : Counted(t)' <=> Counted(t)
      BY <1>3 DEF Counted
    <3>2. \A l \in Logs : (\E a \in Threads : Holds(a, l)') <=> (\E a \in Threads : Holds(a, l))
      BY <1>3 DEF Holds, HoldTo
    <3>3. \A l \in Logs : bt[l] # "none" <=> at[l] # "none"
      BY <2>1
    <3> QED BY <1>3, <1>at, <3>1, <3>2, <3>3, CountsMove
  <2>4. LeftOk(bt)'
    <3>1. Running
      BY <1>4 DEF Running, At
    <3>2. \A l \in Logs : at[l] \in {"request", "list"} => bt[l] \in {"request", "list"} \/ DoneLog(l)'
      BY <2>1
    <3> QED BY <1>1, <1>3, <1>at, <1>donelog, <3>1, <3>2, LeftMove
  <2> QED BY <1>at, <2>1, <2>2, <2>3, <2>4 DEF TokensOk
<1> QED BY <1>types, <1>labels, <1>locks, <1>groups, <1>rotated, <1>index, <1>synced, <1>disks, <1>trxs,
     <1>members, <1>request, <1>flush, <1>checks, <1>last, <1>dones, <1>hold, <1>tokens DEF XaInv

\* The background thread calls mark_xid_done() for the first entry it has.
LEMMA BgProcessStep ==
    ASSUME XaInv, BgProcess, UNCHANGED sync_period
    PROVE  XaInv'
<1>1. /\ XaTypes /\ LabelsOk /\ LocksOk /\ GroupsOk /\ RotatedOk /\ IndexOk /\ SyncedOk /\ DisksOk /\ TrxsOk
      /\ MembersOk /\ RequestOk /\ FlushOk /\ CheckpointsOk /\ LastOk /\ DoneOk /\ HoldOk /\ TokensOk
  BY DEF XaInv
<1>2. /\ BG \in Actors /\ pc[BG] = "idle" /\ pc'[BG] = "done"
      /\ \A b \in Actors : b # BG => pc'[b] = pc[b]
  BY <1>1, Who, GotoFacts DEF BgProcess, At, CallDone
<1>3. UNCHANGED <<elog, flushed, blog, synced, first, indexed, inuse, current, head, xid_count, LOCK_log,
                  LOCK_after_binlog_sync, bg_queue, next_in_queue, log_requests, group, rotated, req,
                  to_notify, flush_notify, lost, crashes>>
  BY DEF BgProcess, diskVars, listVars, lockVars, bgVars, ctlVars, CallDone
<1>nat. /\ current \in Nat /\ head \in Nat /\ indexed \in Nat /\ first \in Nat /\ MaxLogs \in Nat
        /\ 1 <= head /\ head <= current /\ current <= MaxLogs
  BY <1>1, DiskTypes
<1>at. PICK at \in [Logs -> Places], q \in Seq(Logs), r \in Seq(Logs) :
         PlacesOk(at, q, r) /\ CountsOk(at) /\ LeftOk(at)
  BY <1>1 DEF TokensOk
<1>donelog. \A m : DoneLog(m) => DoneLog(m)'
  BY <1>3 DEF DoneLog, CommitBy, InFile
<1>4. bg # 0 /\ bg' = next_in_queue[bg] /\ done' = [done EXCEPT ![BG] = [log |-> bg, to |-> "idle"]]
  BY DEF BgProcess, CallDone
<1>5. IsChain(r, bg) /\ Distinct(r) /\ r # <<>> /\ bg = r[1] /\ bg \in Logs
  BY <1>at, <1>4, ChainStart DEF PlacesOk, ListsOk
<1>6. /\ Tail(r) \in Seq(Logs) /\ Head(r) = bg /\ Distinct(Tail(r)) /\ Range(Tail(r)) = Range(r) \ {bg}
      /\ Len(r) \in Nat \ {0} /\ DOMAIN Tail(r) = 1..(Len(r) - 1) /\ Len(Tail(r)) = Len(r) - 1
      /\ \A i \in 1..(Len(r) - 1) : Tail(r)[i] = r[i + 1]
  BY <1>5, TailFacts
<1>7. at[bg] = "bg" /\ bg < current /\ bg \in 1..current
  <2>1. bg \in Range(r)
    <3>1. 1 \in 1..Len(r) /\ DOMAIN r = 1..Len(r)
      BY <1>6, LenProperties
    <3> QED BY <1>5, <3>1 DEF Range
  <2>2. at[bg] = "bg" /\ bg < current
    BY <1>at, <1>5, <2>1 DEF PlacesOk, PlaceOk
  <2> QED BY <1>nat, <1>5, <2>2 DEF Logs
<1>8. /\ done' \in [Actors -> [log : 0..MaxLogs, to : {"none", "idle", "unlog", "end"}]]
      /\ done'[BG].log = bg /\ done'[BG].to = "idle" /\ \A b \in Actors : b # BG => done'[b] = done[b]
  <2>1. done \in [Actors -> [log : 0..MaxLogs, to : {"none", "idle", "unlog", "end"}]]
    BY <1>1 DEF XaTypes
  <2>2. [log |-> bg, to |-> "idle"] \in [log : 0..MaxLogs, to : {"none", "idle", "unlog", "end"}]
    BY <1>nat, <1>5 DEF Logs
  <2> QED BY <1>2, <1>4, <2>1, <2>2
<1>types. XaTypes'
  <2>1. pc' \in [Actors -> TrxLabels \cup BgLabels]
    BY <1>1, <1>2, GotoType DEF BgProcess, TrxLabels, FlusherLabels, BgLabels, Marking, CallDone
  <2>2. bg' \in 0..MaxLogs
    BY <1>1, <1>4, <1>5 DEF XaTypes
  <2> QED BY <1>1, <1>3, <2>1, <1>8, <2>2 DEF XaTypes
<1>labels. LabelsOk'
  BY <1>1, <1>2, Who DEF LabelsOk, TrxLabels, FlusherLabels, BgLabels, Marking
<1>locks. LocksOk'
  <2>1. Within(LogHolders) /\ Within({"order"})
    BY <1>2, <1>3 DEF Within, LogHolders
  <2> QED BY <1>1, <1>3, <2>1, LocksFrame DEF lockVars
<1>groups. GroupsOk'
  <2>1. Within(Leading) /\ Within({"follow"})
    BY <1>2, <1>3 DEF Within, Leading
  <2>2. group \in [Threads -> Seq(Trx)]
    BY <1>1 DEF XaTypes
  <2> QED BY <1>1, <1>3, <2>1, <2>2, GroupsFrame
<1>rotated. RotatedOk'
  <2>1. Kept((Leading \cup Requesting) \ {"write", "sync"})
    BY <1>2, <1>3 DEF Kept, Leading, Requesting
  <2> QED BY <1>1, <1>3, <2>1, RotatedFrame
<1>index. IndexOk'
  <2>1. Kept({"rotate_list"})
    BY <1>2, <1>3 DEF Kept
  <2> QED BY <1>1, <1>3, <2>1, IndexFrame
<1>synced. SyncedOk'
  <2>1. Kept({"sync"})
    BY <1>2, <1>3 DEF Kept
  <2> QED BY <1>1, <1>3, <2>1, SyncedFrame
<1>disks. DisksOk'
  BY <1>1, <1>3, DisksFrame
<1>trxs. TrxsOk'
  <2> SUFFICES ASSUME NEW u \in Trx PROVE TrxOk(u)'
    BY DEF TrxsOk
  <2>1. TrxOk(u) /\ pc'[u] = pc[u]
    BY <1>1, <1>2, Who DEF TrxsOk
  <2> QED BY <1>3, <2>1, TrxFrame
<1>members. MembersOk'
  <2>1. Within({"write"}) /\ Within(Leading \ {"write", "order"}) /\ Within({"order"}) /\ Within({"crashed"})
    BY <1>2, <1>3 DEF Within, Leading
  <2> QED BY <1>1, <1>3, <2>1, MembersFrame
<1>request. RequestOk'
  <2>1. Kept({"checkpoint", "request"})
    BY <1>2, <1>3 DEF Kept
  <2>2. \A l \in Logs : Stays(l)
    BY <1>3, StaysFrame
  <2>3. Len(elog') = Len(elog) /\ Len(elog) \in Nat /\ flushed' = flushed /\ flushed \in Nat
    BY <1>1, <1>3, DiskTypes
  <2>4. Len(elog) <= Len(elog') /\ flushed <= flushed'
    BY <2>3
  <2> QED BY <1>1, <1>3, <2>1, <2>2, <2>4, <1>types, RequestFrame, ListLogs
<1>flush. FlushOk'
  BY <1>1, <1>3, FlushFrame
<1>checks. CheckpointsOk'
  BY <1>1, <1>3, CheckpointsFrame
<1>last. LastOk'
  <2>1. Kept({"rotate_index", "done_lock", "done_write", "crashed"})
    BY <1>2, <1>3 DEF Kept
  <2> QED BY <1>1, <1>3, <2>1, LastFrame
<1>dones. DoneOk'
  <2> SUFFICES ASSUME NEW b \in Actors, pc'[b] \in Marking
               PROVE  /\ done'[b].log \in 1..current
                      /\ b = BG => done'[b].to = "idle" /\ done'[b].log < current
                      /\ b = FLUSHER => done'[b].to = "end"
                      /\ b \in Trx => done'[b].to \in {"unlog", "end"}
                      /\ b \in Trx /\ done'[b].to = "end" => b \in NeedUnlog /\ InFile(b, done'[b].log)
    BY <1>3 DEF DoneOk, InFile
  <2>1. CASE b = BG
    BY <1>7, <1>8, <2>1, Who
  <2>2. CASE b # BG
    <3>1. pc'[b] = pc[b] /\ done'[b] = done[b]
      BY <1>2, <1>8, <2>2
    <3> QED BY <1>1, <2>2, <3>1 DEF DoneOk
  <2> QED BY <2>1, <2>2
<1>hold. HoldOk'
  <2>1. \A b \in Threads : pc'[b] = pc[b] /\ done'[b] = done[b]
    BY <1>2, <1>8, Who
  <2>2. \A b \in Threads : \A l : Holds(b, l)' <=> Holds(b, l)
    BY <1>3, <2>1 DEF Holds, HoldTo
  <2>3. \A b \in Threads : pc'[b] = "done" /\ done'[b].to = HoldTo(b) => done'[b].log < current
    BY <1>1, <2>1 DEF HoldOk
  <2> QED BY <1>1, <1>3, <2>2, <2>3 DEF HoldOk, HoldTo
<1>tokens. TokensOk'
  <2>g. PICK g \in Logs : g = bg
    BY <1>5
  <2> DEFINE bt == [at EXCEPT ![g] = "done"]
  <2>1. bt \in [Logs -> Places] /\ \A m \in Logs : bt[m] = IF m = bg THEN "done" ELSE at[m]
    BY <1>at, <2>g DEF Places
  <2> HIDE DEF bt
  <2>0. \A b \in Threads : pc'[b] = pc[b] /\ done'[b] = done[b]
    BY <1>2, <1>8, Who
  <2>2. PlacesOk(bt, q, Tail(r))'
    <3>1. ListsOk(q, Tail(r))'
      <4>1. IsChain(q, bg_queue)'
        BY <1>3, <1>at DEF IsChain, PlacesOk, ListsOk
      <4>2. IsChain(Tail(r), bg)'
        <5>1. DOMAIN r = 1..Len(r) /\ 1 \in 1..Len(r)
          BY <1>6, LenProperties
        <5>2. next_in_queue[bg] = IF 1 = Len(r) THEN 0 ELSE r[2]
          BY <1>5, <5>1 DEF IsChain
        <5>3. bg' = IF Tail(r) = <<>> THEN 0 ELSE Tail(r)[1]
          <6>1. CASE Len(r) = 1
            <7>1. Len(Tail(r)) = 0
              BY <1>6, <6>1
            <7>2. Tail(r) = <<>>
              BY <1>6, <7>1, EmptySeq
            <7> QED BY <1>4, <5>2, <6>1, <7>2
          <6>2. CASE Len(r) # 1
            <7>1. 1 \in 1..(Len(r) - 1) /\ Len(Tail(r)) # 0
              BY <1>6, <6>2
            <7>3. Tail(r)[1] = r[1 + 1]
              BY <1>6, <7>1
            <7>4. Tail(r) # <<>>
              BY <1>6, <7>1, EmptySeq
            <7>5. 1 + 1 = 2
              OBVIOUS
            <7>6. Tail(r)[1] = r[2]
              BY <7>3, <7>5, Zenon
            <7>2. Tail(r)[1] = r[2] /\ Tail(r) # <<>>
              BY <7>4, <7>6, Zenon
            <7> QED BY <1>4, <5>2, <6>2, <7>2
          <6> QED BY <6>1, <6>2
        <5>4. ASSUME NEW i \in DOMAIN Tail(r) PROVE next_in_queue[Tail(r)[i]] = IF i = Len(Tail(r)) THEN 0 ELSE Tail(r)[i + 1]
          <6>1. i \in 1..(Len(r) - 1) /\ i + 1 \in DOMAIN r
            BY <1>6, <5>1
          <6>2. next_in_queue[r[i + 1]] = IF i + 1 = Len(r) THEN 0 ELSE r[(i + 1) + 1]
            BY <1>5, <6>1 DEF IsChain
          <6>3. Tail(r)[i] = r[i + 1] /\ (i = Len(Tail(r)) <=> i + 1 = Len(r))
            BY <1>6, <6>1
          <6>4. i + 1 # Len(r) => Tail(r)[i + 1] = r[(i + 1) + 1]
            <7>1. i + 1 # Len(r) => i + 1 \in 1..(Len(r) - 1)
              BY <1>6, <6>1
            <7> QED BY <1>6, <7>1
          <6> QED BY <6>2, <6>3, <6>4
        <5> QED BY <1>3, <5>3, <5>4 DEF IsChain
      <4>3. \A a \in Threads : to_notify[a] # <<>> => pc'[a] = "notify"
        BY <1>at, <2>0 DEF PlacesOk, ListsOk
      <4> QED BY <1>3, <1>at, <1>6, <4>1, <4>2, <4>3 DEF PlacesOk, ListsOk, Distinct
    <3>2. ASSUME NEW m \in Logs PROVE PlaceOk(bt, q, Tail(r), m)'
      <4>1. PlaceOk(at, q, r, m)
        BY <1>at DEF PlacesOk
      <4>2. bt[m] = IF m = bg THEN "done" ELSE at[m]
        BY <2>1
      <4>3. \A b \in Threads : pc'[b] = "request" <=> pc[b] = "request"
        BY <2>0
      <4>4. pc'[BG] = "done" /\ done'[BG].log = bg /\ pc[BG] # "done"
        BY <1>2, <1>8
      <4>5. CASE m = bg
        BY <1>3, <1>6, <1>7, <4>1, <4>2, <4>3, <4>4, <4>5 DEF PlaceOk
      <4>6. CASE m # bg
        BY <1>3, <1>6, <4>1, <4>2, <4>3, <4>4, <4>6 DEF PlaceOk
      <4> QED BY <4>5, <4>6
    <3>3. ASSUME NEW a \in Threads, rotated[a] # 0, pc'[a] \notin {"request", "notify"} PROVE bt[rotated[a]] = "none"
      <4>1. rotated[a] \in Logs
        BY <1>1, <3>3, RotatedLog
      <4>2. at[rotated[a]] = "none"
        BY <1>at, <2>0, <3>3 DEF PlacesOk
      <4> QED BY <1>7, <2>1, <4>1, <4>2
    <3> QED BY <1>3, <3>1, <3>2, <3>3 DEF PlacesOk
  <2>3. CountsOk(bt)'
    <3>1. \A t \in NeedUnlog : Counted(t)' <=> Counted(t)
      <4>1. \A t \in NeedUnlog : t \in Threads
        BY BinlogXaAssumption, Who
      <4> QED BY <1>3, <2>0, <4>1 DEF Counted
    <3>2. \A l \in Logs : (\E a \in Threads : Holds(a, l)') <=> (\E a \in Threads : Holds(a, l))
      BY <1>3, <2>0 DEF Holds, HoldTo
    <3>3. \A l \in Logs : bt[l] # "none" <=> at[l] # "none"
      BY <1>7, <2>1
    <3> QED BY <1>3, <1>at, <3>1, <3>2, <3>3, CountsMove
  <2>4. LeftOk(bt)'
    <3>1. Running
      BY <1>2 DEF Running, At
    <3>2. \A l \in Logs : at[l] \in {"request", "list"} => bt[l] \in {"request", "list"} \/ DoneLog(l)'
      BY <1>7, <2>1
    <3>3. \A a \in Threads : pc'[a] = pc[a] /\ rotated'[a] = rotated[a]
      BY <1>3, <2>0
    <3> QED BY <1>1, <1>3, <1>at, <1>donelog, <3>1, <3>2, <3>3, LeftMove
  <2> QED BY <1>at, <1>6, <2>1, <2>2, <2>3, <2>4 DEF TokensOk
<1> QED BY <1>types, <1>labels, <1>locks, <1>groups, <1>rotated, <1>index, <1>synced, <1>disks, <1>trxs,
     <1>members, <1>request, <1>flush, <1>checks, <1>last, <1>dones, <1>hold, <1>tokens DEF XaInv

\* The file is counted once more, for the request; all its transactions have a commit record by now.
LEMMA RequestCheckpointStep ==
    ASSUME XaInv, NEW a \in Threads, RequestCheckpoint(a), UNCHANGED sync_period
    PROVE  XaInv'
<1>1. /\ XaTypes /\ LabelsOk /\ LocksOk /\ GroupsOk /\ RotatedOk /\ IndexOk /\ SyncedOk /\ DisksOk /\ TrxsOk
      /\ MembersOk /\ RequestOk /\ FlushOk /\ CheckpointsOk /\ LastOk /\ DoneOk /\ HoldOk /\ TokensOk
  BY DEF XaInv
<1>2. /\ a \in Actors /\ pc[a] = "checkpoint" /\ pc'[a] = "request"
      /\ \A b \in Actors : b # a => pc'[b] = pc[b]
  BY <1>1, Who, GotoFacts DEF RequestCheckpoint, At
<1>3. UNCHANGED <<elog, flushed, blog, synced, first, indexed, inuse, current, head, LOCK_log,
                  LOCK_after_binlog_sync, bg_queue, next_in_queue, log_requests, group, rotated, done,
                  to_notify, flush_notify, bg, lost, crashes>>
  BY DEF RequestCheckpoint, diskVars, listVars, lockVars, bgVars, ctlVars
<1>nat. /\ current \in Nat /\ head \in Nat /\ indexed \in Nat /\ first \in Nat /\ MaxLogs \in Nat
        /\ 1 <= head /\ head <= current /\ current <= MaxLogs
  BY <1>1, DiskTypes
<1>at. PICK at \in [Logs -> Places], q \in Seq(Logs), r \in Seq(Logs) :
         PlacesOk(at, q, r) /\ CountsOk(at) /\ LeftOk(at)
  BY <1>1 DEF TokensOk
<1>donelog. \A m : DoneLog(m) => DoneLog(m)'
  BY <1>3 DEF DoneLog, CommitBy, InFile
<1>l. PICK l \in Logs : l = rotated[a] /\ l # 0 /\ l < current
  <2>1. rotated[a] # 0 /\ rotated[a] < current
    BY <1>1, <1>2 DEF RotatedOk, Requesting
  <2>2. rotated[a] \in Logs
    BY <1>1, <2>1, RotatedLog
  <2> QED BY <2>1, <2>2
<1>4. xid_count' = [xid_count EXCEPT ![l] = @ + 1] /\ req' = [req EXCEPT ![a] = [flush_lsn |-> flushed, lsn |-> Len(elog)]]
  BY <1>l DEF RequestCheckpoint
<1>xc. xid_count \in [Logs -> Nat] /\ xid_count[l] > 0
  <2>1. Holds(a, l)
    BY <1>l DEF Holds
  <2> QED BY <1>1, <2>1, HeldCount DEF XaTypes
<1>5. /\ xid_count' \in [Logs -> Nat] /\ xid_count'[l] = xid_count[l] + 1
      /\ \A m \in Logs : m # l => xid_count'[m] = xid_count[m]
  BY <1>4, <1>xc
<1>6. /\ req' \in [Threads -> [flush_lsn : Nat, lsn : Nat]] /\ req'[a].lsn = Len(elog) /\ req'[a].flush_lsn = flushed
      /\ \A b \in Threads : b # a => req'[b] = req[b]
  <2>1. req \in [Threads -> [flush_lsn : Nat, lsn : Nat]]
    BY <1>1 DEF XaTypes
  <2>2. [flush_lsn |-> flushed, lsn |-> Len(elog)] \in [flush_lsn : Nat, lsn : Nat]
    BY <1>1, DiskTypes
  <2> QED BY <1>4, <2>1, <2>2
<1>mine. \A b \in Threads : b # a => rotated[b] # l
  <2> SUFFICES ASSUME NEW b \in Threads, b # a, rotated[b] = l PROVE FALSE
    OBVIOUS
  <2>1. Holds(a, l) /\ Holds(b, l)
    BY <1>l DEF Holds
  <2> QED BY <1>1, <2>1 DEF HoldOk
<1>types. XaTypes'
  <2>1. pc' \in [Actors -> TrxLabels \cup BgLabels]
    BY <1>1, <1>2, GotoType DEF RequestCheckpoint, TrxLabels, FlusherLabels, BgLabels, Marking
  <2> QED BY <1>1, <1>3, <2>1, <1>5, <1>6 DEF XaTypes
<1>labels. LabelsOk'
  BY <1>1, <1>2, Who DEF LabelsOk, TrxLabels, FlusherLabels, BgLabels, Marking
<1>locks. LocksOk'
  <2>1. Within(LogHolders) /\ Within({"order"})
    BY <1>2, <1>3 DEF Within, LogHolders
  <2> QED BY <1>1, <1>3, <2>1, LocksFrame DEF lockVars
<1>groups. GroupsOk'
  <2>1. Within(Leading) /\ Within({"follow"})
    BY <1>2, <1>3 DEF Within, Leading
  <2>2. group \in [Threads -> Seq(Trx)]
    BY <1>1 DEF XaTypes
  <2> QED BY <1>1, <1>3, <2>1, <2>2, GroupsFrame
<1>rotated. RotatedOk'
  <2> SUFFICES ASSUME NEW b \in Threads
               PROVE  /\ rotated[b] # 0 => pc'[b] \in {"rotate_index", "rotate_list", "next_stage", "order",
                                                       "checkpoint", "request", "notify"}
                      /\ pc'[b] \in {"rotate_index", "rotate_list"} => rotated[b] = current
                      /\ pc'[b] = "next_stage" => rotated[b] \in {0, current - 1}
                      /\ pc'[b] \in {"order", "checkpoint", "request", "notify"} => rotated[b] < current
                      /\ pc'[b] \in Requesting => rotated[b] # 0
                      /\ pc'[b] \in {"rotate", "rotate_index"} => current < MaxLogs
    BY <1>3 DEF RotatedOk
  <2>1. CASE b = a
    BY <1>2, <1>l, <2>1
  <2>2. CASE b # a
    <3>1. pc'[b] = pc[b]
      BY <1>2, <2>2, Who
    <3> QED BY <1>1, <3>1 DEF RotatedOk
  <2> QED BY <2>1, <2>2
<1>index. IndexOk'
  <2>1. Kept({"rotate_list"})
    BY <1>2, <1>3 DEF Kept
  <2> QED BY <1>1, <1>3, <2>1, IndexFrame
<1>synced. SyncedOk'
  <2>1. Kept({"sync"})
    BY <1>2, <1>3 DEF Kept
  <2> QED BY <1>1, <1>3, <2>1, SyncedFrame
<1>disks. DisksOk'
  BY <1>1, <1>3, DisksFrame
<1>trxs. TrxsOk'
  <2> SUFFICES ASSUME NEW u \in Trx PROVE TrxOk(u)'
    BY DEF TrxsOk
  <2>1. TrxOk(u) /\ u \in Actors
    BY <1>1, Who DEF TrxsOk
  <2>2. CASE u # a
    BY <1>2, <1>3, <2>1, <2>2, TrxFrame
  <2>3. CASE u = a
    BY <1>2, <1>3, <2>1, <2>3 DEF TrxOk, InBinlog, Durable, InEngine, Requesting, Marking
  <2> QED BY <2>2, <2>3
<1>members. MembersOk'
  <2>1. Within({"write"}) /\ Within(Leading \ {"write", "order"}) /\ Within({"order"}) /\ Within({"crashed"})
    BY <1>2, <1>3 DEF Within, Leading
  <2> QED BY <1>1, <1>3, <2>1, MembersFrame
<1>request. RequestOk'
  <2>1. \A m, n : CommitBy(m, n) => CommitBy(m, n)'
    BY <1>3 DEF CommitBy, InFile
  <2>2. ASSUME NEW b \in Threads
        PROVE  /\ pc'[b] = "checkpoint" => CommitBy(rotated[b], Len(elog))
               /\ pc'[b] = "request" => /\ CommitBy(rotated[b], req'[b].lsn) /\ req'[b].lsn <= Len(elog)
                                        /\ req'[b].flush_lsn <= flushed
    <3>1. CASE b = a
      <4>1. CommitBy(rotated[a], Len(elog))
        BY <1>1, <1>2 DEF RequestOk
      <4>2. Len(elog) <= Len(elog) /\ flushed <= flushed
        BY <1>1, DiskTypes
      <4> QED BY <1>2, <1>6, <3>1, <4>1, <4>2
    <3>2. CASE b # a
      <4>1. pc'[b] = pc[b] /\ req'[b] = req[b]
        BY <1>2, <1>6, <3>2, Who
      <4> QED BY <1>1, <4>1 DEF RequestOk
    <3> QED BY <3>1, <3>2
  <2> QED BY <1>1, <1>3, <2>2 DEF RequestOk, CommitBy, InFile
<1>flush. FlushOk'
  BY <1>1, <1>3, FlushFrame
<1>checks. CheckpointsOk'
  BY <1>1, <1>3, CheckpointsFrame
<1>last. LastOk'
  <2>1. \A b \in Actors : /\ pc'[b] = "rotate_index" <=> pc[b] = "rotate_index"
                          /\ pc'[b] = "done_lock" <=> pc[b] = "done_lock"
                          /\ pc'[b] = "done_write" <=> pc[b] = "done_write"
                          /\ pc'[b] = "crashed" <=> pc[b] = "crashed"
    BY <1>2
  <2>2. (Running' <=> Running) /\ (Window' <=> Window)
    BY <2>1, Who DEF Running, At, Window
  <2>3. \A c : IsLast(blog[indexed], c)' <=> IsLast(blog[indexed], c)
    BY <1>3 DEF IsLast
  <2>4. xid_count'[head] = 0 => xid_count[head] = 0
    <3>1. head \in Logs
      BY <1>1, DiskTypes
    <3> QED BY <1>5, <1>xc, <3>1
  <2>5. ASSUME NEW m \in Logs, m < head PROVE xid_count'[m] = 0
    <3>1. xid_count[m] = 0
      BY <1>1, <2>5 DEF LastOk
    <3> QED BY <1>5, <1>xc, <3>1
  <2>6. \A b \in Threads : pc'[b] = "rotate_index" <=> pc[b] = "rotate_index"
    BY <2>1, Who
  <2> QED BY <1>1, <1>3, <2>1, <2>2, <2>3, <2>4, <2>5, <2>6 DEF LastOk
<1>dones. DoneOk'
  <2>1. Within(Marking)
    BY <1>2, <1>3 DEF Within, Marking
  <2> QED BY <1>1, <1>3, <2>1, DoneFrame
<1>hold. HoldOk'
  <2>1. Kept({"done"})
    BY <1>2, <1>3 DEF Kept
  <2> QED BY <1>1, <1>3, <2>1, HoldFrame
<1>tokens. TokensOk'
  <2> DEFINE bt == [at EXCEPT ![l] = "request"]
  <2>1. bt \in [Logs -> Places] /\ \A m \in Logs : bt[m] = IF m = l THEN "request" ELSE at[m]
    BY <1>at DEF Places
  <2> HIDE DEF bt
  <2>none. at[l] = "none"
    BY <1>at, <1>2, <1>l DEF PlacesOk
  <2>2. PlacesOk(bt, q, r)'
    <3>1. ListsOk(q, r)'
      <4>1. Kept({"notify"})
        BY <1>2 DEF Kept
      <4> QED BY <1>3, <1>at, <4>1, ListsFrame DEF bgVars, PlacesOk
    <3>2. ASSUME NEW m \in Logs PROVE PlaceOk(bt, q, r, m)'
      <4>1. PlaceOk(at, q, r, m)
        BY <1>at DEF PlacesOk
      <4>2. bt[m] = IF m = l THEN "request" ELSE at[m]
        BY <2>1
      <4>4. pc'[BG] = pc[BG]
        BY <1>2, Who
      <4>5. CASE m = l
        <5>1. \E b \in Threads : pc'[b] = "request" /\ rotated[b] = m
          BY <1>2, <1>l, <4>5
        <5> QED BY <1>3, <1>l, <2>none, <4>1, <4>2, <4>4, <4>5, <5>1 DEF PlaceOk
      <4>6. CASE m # l
        <5>1. \A b \in Threads : rotated[b] = m => pc'[b] = pc[b]
          BY <1>2, <1>l, <4>6, Who
        <5>2. (\E b \in Threads : pc'[b] = "request" /\ rotated[b] = m) <=> (\E b \in Threads : pc[b] = "request" /\ rotated[b] = m)
          BY <5>1
        <5> QED BY <1>3, <4>1, <4>2, <4>4, <4>6, <5>2 DEF PlaceOk
      <4> QED BY <4>5, <4>6
    <3>3. ASSUME NEW b \in Threads, rotated[b] # 0, pc'[b] \notin {"request", "notify"} PROVE bt[rotated[b]] = "none"
      <4>1. rotated[b] \in Logs /\ b # a
        BY <1>1, <1>2, <3>3, RotatedLog
      <4>2. at[rotated[b]] = "none"
        BY <1>at, <1>2, <3>3, <4>1, Who DEF PlacesOk
      <4> QED BY <1>mine, <2>1, <4>1, <4>2
    <3> QED BY <1>3, <3>1, <3>2, <3>3 DEF PlacesOk
  <2>3. CountsOk(bt)'
    <3> SUFFICES ASSUME NEW m \in Logs
                 PROVE  xid_count'[m] = Cardinality(Unlogged(m)') + Bit(\E b \in Threads : Holds(b, m)') + Bit(bt[m] # "none")
      BY DEF CountsOk, Bit
    <3>1. \A t \in Trx : Counted(t)' <=> Counted(t)
      <4>1. Within(CountedLabels) /\ Within(Marking) /\ Within({"done"}) /\ Within({"follow"}) /\ Within({"write", "sync"})
        BY <1>2, <1>3 DEF Within, CountedLabels, Marking
      <4> QED BY <1>3, <4>1, CountedFrame
    <3>2. Unlogged(m)' = Unlogged(m)
      BY <1>3, <3>1, BinlogXaAssumption DEF Unlogged, InFile
    <3>3. (\E b \in Threads : Holds(b, m)') <=> (\E b \in Threads : Holds(b, m))
      <4>1. Kept({"done"})
        BY <1>2 DEF Kept
      <4> QED BY <1>3, <4>1, HoldsFrame
    <3>4. Bit(\E b \in Threads : Holds(b, m)') = Bit(\E b \in Threads : Holds(b, m)) /\ Bit(\E b \in Threads : Holds(b, m)) \in Nat
      BY <3>3 DEF Bit
    <3>5. xid_count[m] = Cardinality(Unlogged(m)) + Bit(\E b \in Threads : Holds(b, m)) + Bit(at[m] # "none")
          /\ Cardinality(Unlogged(m)) \in Nat
      BY <1>at, UnloggedFinite DEF CountsOk
    <3>6. CASE m = l
      <4>1. Bit(at[m] # "none") = 0 /\ Bit(bt[m] # "none") = 1
        BY <2>1, <2>none, <3>6 DEF Bit
      <4>2. PICK h \in Nat : h = Bit(\E b \in Threads : Holds(b, m)) /\ h = Bit(\E b \in Threads : Holds(b, m)')
        BY <3>4
      <4>3. xid_count[m] = Cardinality(Unlogged(m)) + h + 0
        BY <3>5, <4>1, <4>2, Zenon
      <4>4. xid_count'[m] = Cardinality(Unlogged(m)') + h + 1
        BY <1>5, <3>2, <3>5, <3>6, <4>3
      <4> QED BY <4>1, <4>2, <4>4, Zenon
    <3>7. CASE m # l
      <4>1. bt[m] = at[m]
        BY <2>1, <3>7
      <4> QED BY <1>5, <3>2, <3>4, <3>5, <3>7, <4>1
    <3> QED BY <3>6, <3>7
  <2>4. LeftOk(bt)'
    <3>1. Running
      BY <1>1, <1>2, Who DEF Running, At, LabelsOk
    <3>2. \A m \in Logs : at[m] \in {"request", "list"} => bt[m] \in {"request", "list"} \/ DoneLog(m)'
      BY <2>1
    <3>3. \A b \in Threads : rotated[b] # 0 /\ pc[b] \in {"next_stage", "order", "checkpoint"} =>
               \/ rotated'[b] = rotated[b] /\ pc'[b] \in {"next_stage", "order", "checkpoint"}
               \/ bt[rotated[b]] \in {"request", "list"}
      BY <1>2, <1>3, <1>l, <2>1, Who
    <3> QED BY <1>1, <1>3, <1>at, <1>donelog, <3>1, <3>2, <3>3, LeftMove
  <2> QED BY <1>at, <2>1, <2>2, <2>3, <2>4 DEF TokensOk
<1> QED BY <1>types, <1>labels, <1>locks, <1>groups, <1>rotated, <1>index, <1>synced, <1>disks, <1>trxs,
     <1>members, <1>request, <1>flush, <1>checks, <1>last, <1>dones, <1>hold, <1>tokens DEF XaInv

\* log_flush_notify() detaches the requests that are complete; their files are done.
LEMMA FlushNotifyStep ==
    ASSUME XaInv, FlushNotify, UNCHANGED sync_period
    PROVE  XaInv'
<1>1. /\ XaTypes /\ LabelsOk /\ LocksOk /\ GroupsOk /\ RotatedOk /\ IndexOk /\ SyncedOk /\ DisksOk /\ TrxsOk
      /\ MembersOk /\ RequestOk /\ FlushOk /\ CheckpointsOk /\ LastOk /\ DoneOk /\ HoldOk /\ TokensOk
  BY DEF XaInv
<1>3. UNCHANGED <<elog, flushed, blog, synced, first, indexed, inuse, current, head, xid_count, LOCK_log,
                  LOCK_after_binlog_sync, bg_queue, next_in_queue, pc, group, rotated, done, req,
                  to_notify, bg, lost, crashes>>
  BY DEF FlushNotify, diskVars, listVars, lockVars, bgVars, ctlVars
<1>at. PICK at \in [Logs -> Places], q \in Seq(Logs), r \in Seq(Logs) :
         PlacesOk(at, q, r) /\ CountsOk(at) /\ LeftOk(at)
  BY <1>1 DEF TokensOk
<1>donelog. \A m : DoneLog(m) => DoneLog(m)'
  BY <1>3 DEF DoneLog, CommitBy, InFile
<1>run. Running
  BY DEF FlushNotify
<1>4. /\ flush_notify.state = "flushed" /\ flush_notify.lsn = flushed /\ flush_notify.list = <<>>
      /\ flush_notify' = [flush_notify EXCEPT !.state = "notify", !.list = LogsOf(Complete(log_requests, flush_notify.lsn))]
      /\ log_requests' = Rest(log_requests, flush_notify.lsn)
  BY <1>1 DEF FlushNotify, FlushOk
<1>reqs. log_requests \in Seq(Requests) /\ flushed \in Nat
  BY <1>1, DiskTypes DEF XaTypes
<1>one. \A i, j \in DOMAIN log_requests : log_requests[i].log = log_requests[j].log => i = j
  BY <1>at DEF PlacesOk, ListsOk
<1>5. PICK c : c = LogsOf(Complete(log_requests, flushed))
  OBVIOUS
<1>6. /\ c \in Seq(Logs) /\ log_requests' \in Seq(Requests) /\ Distinct(c)
      /\ \A i, j \in DOMAIN log_requests' : log_requests'[i].log = log_requests'[j].log => i = j
      /\ \A m : (\E i \in DOMAIN log_requests : log_requests[i].log = m) <=>
                   m \in Range(c) \/ \E i \in DOMAIN log_requests' : log_requests'[i].log = m
      /\ \A m \in Range(c) : ~(\E i \in DOMAIN log_requests' : log_requests'[i].log = m)
      /\ \A m \in Range(c) : \E i \in DOMAIN log_requests : log_requests[i].log = m /\ log_requests[i].lsn <= flushed
      /\ \A i \in DOMAIN log_requests' : \E j \in DOMAIN log_requests : log_requests'[i] = log_requests[j]
      /\ log_requests' = <<>> \/ log_requests'[1].lsn > flushed
  <2>1. SplitOk(log_requests, flushed, c, log_requests')
    BY <1>4, <1>5, <1>reqs, <1>one, SplitFacts
  <2> QED BY <2>1 DEF SplitOk
<1>7. flush_notify' \in [state : {"idle", "flushed", "notify"}, lsn : Nat, list : Seq(Logs)]
      /\ flush_notify'.state = "notify" /\ flush_notify'.list = c
  <2>1. flush_notify \in [state : {"idle", "flushed", "notify"}, lsn : Nat, list : Seq(Logs)]
    BY <1>1 DEF XaTypes
  <2>2. flush_notify' = [flush_notify EXCEPT !.state = "notify", !.list = c]
    BY <1>4, <1>5
  <2> QED BY <1>6, <2>1, <2>2
<1>types. XaTypes'
  BY <1>1, <1>3, <1>6, <1>7 DEF XaTypes
<1>labels. LabelsOk'
  BY <1>1, <1>3 DEF LabelsOk
<1>locks. LocksOk'
  <2>1. Within(LogHolders) /\ Within({"order"})
    BY <1>3 DEF Within, LogHolders
  <2> QED BY <1>1, <1>3, <2>1, LocksFrame DEF lockVars
<1>groups. GroupsOk'
  <2>1. Within(Leading) /\ Within({"follow"})
    BY <1>3 DEF Within, Leading
  <2>2. group \in [Threads -> Seq(Trx)]
    BY <1>1 DEF XaTypes
  <2> QED BY <1>1, <1>3, <2>1, <2>2, GroupsFrame
<1>rotated. RotatedOk'
  <2>1. Kept((Leading \cup Requesting) \ {"write", "sync"})
    BY <1>3 DEF Kept, Leading, Requesting
  <2> QED BY <1>1, <1>3, <2>1, RotatedFrame
<1>index. IndexOk'
  <2>1. Kept({"rotate_list"})
    BY <1>3 DEF Kept
  <2> QED BY <1>1, <1>3, <2>1, IndexFrame
<1>synced. SyncedOk'
  <2>1. Kept({"sync"})
    BY <1>3 DEF Kept
  <2> QED BY <1>1, <1>3, <2>1, SyncedFrame
<1>disks. DisksOk'
  BY <1>1, <1>3, DisksFrame
<1>trxs. TrxsOk'
  <2> SUFFICES ASSUME NEW u \in Trx PROVE TrxOk(u)'
    BY DEF TrxsOk
  <2>1. TrxOk(u)
    BY <1>1 DEF TrxsOk
  <2> QED BY <1>3, <2>1, TrxFrame
<1>members. MembersOk'
  <2>1. Within({"write"}) /\ Within(Leading \ {"write", "order"}) /\ Within({"order"}) /\ Within({"crashed"})
    BY <1>3 DEF Within, Leading
  <2> QED BY <1>1, <1>3, <2>1, MembersFrame
<1>request. RequestOk'
  <2>1. \A b \in Threads :
          /\ pc[b] = "checkpoint" => CommitBy(rotated[b], Len(elog))
          /\ pc[b] = "request" => /\ CommitBy(rotated[b], req[b].lsn) /\ req[b].lsn <= Len(elog)
                                  /\ req[b].flush_lsn <= flushed
    BY <1>1 DEF RequestOk
  <2>2. ASSUME NEW i \in DOMAIN log_requests'
        PROVE  CommitBy(log_requests'[i].log, log_requests'[i].lsn) /\ log_requests'[i].lsn <= Len(elog)
    <3>1. PICK j \in DOMAIN log_requests : log_requests'[i] = log_requests[j]
      BY <1>6
    <3>2. CommitBy(log_requests[j].log, log_requests[j].lsn) /\ log_requests[j].lsn <= Len(elog)
      BY <1>1 DEF RequestOk
    <3> QED BY <3>1, <3>2
  <2> QED BY <1>3, <2>1, <2>2 DEF RequestOk, CommitBy, InFile
<1>flush. FlushOk'
  BY <1>3, <1>6, <1>7 DEF FlushOk
<1>checks. CheckpointsOk'
  BY <1>1, <1>3, CheckpointsFrame
<1>last. LastOk'
  <2>1. Kept({"rotate_index", "done_lock", "done_write", "crashed"})
    BY <1>3 DEF Kept
  <2> QED BY <1>1, <1>3, <2>1, LastFrame
<1>dones. DoneOk'
  <2>1. Within(Marking)
    BY <1>3 DEF Within, Marking
  <2> QED BY <1>1, <1>3, <2>1, DoneFrame
<1>hold. HoldOk'
  <2>1. Kept({"done"})
    BY <1>3 DEF Kept
  <2> QED BY <1>1, <1>3, <2>1, HoldFrame
<1>tokens. TokensOk'
  <2> DEFINE bt == [m \in Logs |-> IF m \in Range(c) THEN "flush" ELSE at[m]]
  <2>1. bt \in [Logs -> Places] /\ \A m \in Logs : bt[m] = IF m \in Range(c) THEN "flush" ELSE at[m]
    BY <1>at DEF Places
  <2> HIDE DEF bt
  <2>was. \A m \in Logs : m \in Range(c) => at[m] = "list"
    BY <1>6, <1>at DEF PlacesOk, PlaceOk
  <2>2. PlacesOk(bt, q, r)'
    <3>1. ListsOk(q, r)'
      <4>1. ListsOk(q, r)
        BY <1>at DEF PlacesOk
      <4>2. IsChain(q, bg_queue)' /\ IsChain(r, bg)'
        BY <1>3, <4>1 DEF ListsOk, IsChain
      <4>3. Distinct(flush_notify'.list)
        BY <1>6, <1>7
      <4> QED BY <1>3, <1>6, <4>1, <4>2, <4>3 DEF ListsOk, Distinct
    <3>2. ASSUME NEW m \in Logs PROVE PlaceOk(bt, q, r, m)'
      <4>1. PlaceOk(at, q, r, m)
        BY <1>at DEF PlacesOk
      <4>2. at[m] # "flush"
        <5>1. Range(flush_notify.list) = {}
          BY <1>4 DEF Range
        <5> QED BY <4>1, <5>1 DEF PlaceOk
      <4>3. CASE m \in Range(c)
        <5>1. bt[m] = "flush" /\ at[m] = "list" /\ ~(\E i \in DOMAIN log_requests' : log_requests'[i].log = m)
          BY <1>6, <2>1, <2>was, <4>3
        <5>2. m \in Range(flush_notify'.list)
          BY <1>7, <4>3
        <5> QED BY <1>3, <4>1, <5>1, <5>2 DEF PlaceOk
      <4>4. CASE m \notin Range(c)
        <5>1. /\ bt[m] = at[m]
              /\ (\E i \in DOMAIN log_requests' : log_requests'[i].log = m) <=> (\E i \in DOMAIN log_requests : log_requests[i].log = m)
          BY <1>6, <2>1, <4>4
        <5>2. m \notin Range(flush_notify'.list)
          BY <1>7, <4>4
        <5> QED BY <1>3, <4>1, <4>2, <5>1, <5>2 DEF PlaceOk
      <4> QED BY <4>3, <4>4
    <3>3. ASSUME NEW a \in Threads, rotated[a] # 0, pc[a] \notin {"request", "notify"} PROVE bt[rotated[a]] = "none"
      <4>1. rotated[a] \in Logs
        BY <1>1, <3>3, RotatedLog
      <4>2. at[rotated[a]] = "none"
        BY <1>at, <3>3 DEF PlacesOk
      <4> QED BY <2>1, <2>was, <4>1, <4>2
    <3> QED BY <1>3, <3>1, <3>2, <3>3 DEF PlacesOk
  <2>3. CountsOk(bt)'
    <3>1. \A t \in NeedUnlog : Counted(t)' <=> Counted(t)
      BY <1>3 DEF Counted
    <3>2. \A l \in Logs : (\E a \in Threads : Holds(a, l)') <=> (\E a \in Threads : Holds(a, l))
      BY <1>3 DEF Holds, HoldTo
    <3>3. \A l \in Logs : bt[l] # "none" <=> at[l] # "none"
      BY <2>1, <2>was
    <3> QED BY <1>3, <1>at, <3>1, <3>2, <3>3, CountsMove
  <2>4. LeftOk(bt)'
    <3>2. ASSUME NEW l \in Logs, at[l] \in {"request", "list"} PROVE bt[l] \in {"request", "list"} \/ DoneLog(l)'
      <4>1. CASE l \in Range(c)
        <5>1. PICK i \in DOMAIN log_requests : log_requests[i].log = l /\ log_requests[i].lsn <= flushed
          BY <1>6, <4>1
        <5>2. CommitBy(l, log_requests[i].lsn) /\ log_requests[i].lsn \in Nat
          <6>1. log_requests[i] \in Requests
            BY <1>reqs
          <6> QED BY <1>1, <5>1, <6>1 DEF RequestOk, Requests
        <5>4. PICK n \in Nat : n = log_requests[i].lsn
          BY <5>2
        <5>5. CommitBy(l, n) /\ n <= flushed
          BY <5>1, <5>2, <5>4
        <5>3. DoneLog(l)
          BY <1>1, <1>reqs, <5>5, CommitLater DEF DoneLog
        <5> QED BY <1>donelog, <5>3
      <4>2. CASE l \notin Range(c)
        BY <2>1, <3>2, <4>2
      <4> QED BY <4>1, <4>2
    <3> QED BY <1>1, <1>3, <1>at, <1>donelog, <1>run, <3>2, LeftMove
  <2> QED BY <1>at, <2>1, <2>2, <2>3, <2>4 DEF TokensOk
<1> QED BY <1>types, <1>labels, <1>locks, <1>groups, <1>rotated, <1>index, <1>synced, <1>disks, <1>trxs,
     <1>members, <1>request, <1>flush, <1>checks, <1>last, <1>dones, <1>hold, <1>tokens DEF XaInv

\* log_flush_notify() hands a detached request over to the background thread.
LEMMA FlushNotifyNextStep ==
    ASSUME XaInv, FlushNotifyNext, UNCHANGED sync_period
    PROVE  XaInv'
<1>1. /\ XaTypes /\ LabelsOk /\ LocksOk /\ GroupsOk /\ RotatedOk /\ IndexOk /\ SyncedOk /\ DisksOk /\ TrxsOk
      /\ MembersOk /\ RequestOk /\ FlushOk /\ CheckpointsOk /\ LastOk /\ DoneOk /\ HoldOk /\ TokensOk
  BY DEF XaInv
<1>3. UNCHANGED <<elog, flushed, blog, synced, first, indexed, inuse, current, head, xid_count, LOCK_log,
                  LOCK_after_binlog_sync, log_requests, pc, group, rotated, done, req, to_notify, bg,
                  lost, crashes>>
  BY DEF FlushNotifyNext, diskVars, listVars, lockVars, bgVars, ctlVars
<1>at. PICK at \in [Logs -> Places], q \in Seq(Logs), r \in Seq(Logs) :
         PlacesOk(at, q, r) /\ CountsOk(at) /\ LeftOk(at)
  BY <1>1 DEF TokensOk
<1>donelog. \A m : DoneLog(m) => DoneLog(m)'
  BY <1>3 DEF DoneLog, CommitBy, InFile
<1>run. Running
  BY DEF FlushNotifyNext
<1>fn. flush_notify \in [state : {"idle", "flushed", "notify"}, lsn : Nat, list : Seq(Logs)] /\ flush_notify.state = "notify"
  BY <1>1 DEF XaTypes, FlushNotifyNext
<1>4. \/ /\ flush_notify.list # <<>> /\ Notify(Head(flush_notify.list))
         /\ flush_notify' = [flush_notify EXCEPT !.list = Tail(@)]
      \/ flush_notify.list = <<>> /\ flush_notify' = NoFlush /\ UNCHANGED bgVars
  BY DEF FlushNotifyNext
<1>tail. flush_notify.list # <<>> =>
           /\ Tail(flush_notify.list) \in Seq(Logs) /\ Head(flush_notify.list) \in Logs
           /\ Head(flush_notify.list) \in Range(flush_notify.list)
           /\ Distinct(Tail(flush_notify.list))
           /\ Range(Tail(flush_notify.list)) = Range(flush_notify.list) \ {Head(flush_notify.list)}
  <2> SUFFICES ASSUME flush_notify.list # <<>>
               PROVE  /\ Tail(flush_notify.list) \in Seq(Logs) /\ Head(flush_notify.list) \in Logs
                      /\ Head(flush_notify.list) \in Range(flush_notify.list)
                      /\ Distinct(Tail(flush_notify.list))
                      /\ Range(Tail(flush_notify.list)) = Range(flush_notify.list) \ {Head(flush_notify.list)}
    OBVIOUS
  <2>1. PICK s \in Seq(Logs) : s = flush_notify.list
    BY <1>fn
  <2>2. s # <<>> /\ Distinct(s)
    BY <1>at, <2>1 DEF PlacesOk, ListsOk
  <2> QED BY <2>1, <2>2, HeadTail
<1>5. flush_notify' \in [state : {"idle", "flushed", "notify"}, lsn : Nat, list : Seq(Logs)]
  <2>1. CASE flush_notify.list # <<>> /\ flush_notify' = [flush_notify EXCEPT !.list = Tail(@)]
    BY <1>fn, <1>tail, <2>1
  <2>2. CASE flush_notify' = NoFlush
    BY <2>2 DEF NoFlush
  <2> QED BY <1>4, <2>1, <2>2
<1>6. bg_queue' \in 0..MaxLogs /\ next_in_queue' \in [Logs -> 0..MaxLogs]
  <2>1. bg_queue \in 0..MaxLogs /\ next_in_queue \in [Logs -> 0..MaxLogs] /\ MaxLogs \in Nat
    BY <1>1, BinlogXaAssumption DEF XaTypes
  <2>2. CASE flush_notify.list # <<>> /\ Notify(Head(flush_notify.list))
    BY <1>tail, <2>1, <2>2 DEF Notify, Logs
  <2>3. CASE UNCHANGED bgVars
    BY <2>1, <2>3 DEF bgVars
  <2> QED BY <1>4, <2>2, <2>3
<1>types. XaTypes'
  BY <1>1, <1>3, <1>5, <1>6 DEF XaTypes
<1>labels. LabelsOk'
  BY <1>1, <1>3 DEF LabelsOk
<1>locks. LocksOk'
  <2>1. Within(LogHolders) /\ Within({"order"})
    BY <1>3 DEF Within, LogHolders
  <2> QED BY <1>1, <1>3, <2>1, LocksFrame DEF lockVars
<1>groups. GroupsOk'
  <2>1. Within(Leading) /\ Within({"follow"})
    BY <1>3 DEF Within, Leading
  <2>2. group \in [Threads -> Seq(Trx)]
    BY <1>1 DEF XaTypes
  <2> QED BY <1>1, <1>3, <2>1, <2>2, GroupsFrame
<1>rotated. RotatedOk'
  <2>1. Kept((Leading \cup Requesting) \ {"write", "sync"})
    BY <1>3 DEF Kept, Leading, Requesting
  <2> QED BY <1>1, <1>3, <2>1, RotatedFrame
<1>index. IndexOk'
  <2>1. Kept({"rotate_list"})
    BY <1>3 DEF Kept
  <2> QED BY <1>1, <1>3, <2>1, IndexFrame
<1>synced. SyncedOk'
  <2>1. Kept({"sync"})
    BY <1>3 DEF Kept
  <2> QED BY <1>1, <1>3, <2>1, SyncedFrame
<1>disks. DisksOk'
  BY <1>1, <1>3, DisksFrame
<1>trxs. TrxsOk'
  <2> SUFFICES ASSUME NEW u \in Trx PROVE TrxOk(u)'
    BY DEF TrxsOk
  <2>1. TrxOk(u)
    BY <1>1 DEF TrxsOk
  <2> QED BY <1>3, <2>1, TrxFrame
<1>members. MembersOk'
  <2>1. Within({"write"}) /\ Within(Leading \ {"write", "order"}) /\ Within({"order"}) /\ Within({"crashed"})
    BY <1>3 DEF Within, Leading
  <2> QED BY <1>1, <1>3, <2>1, MembersFrame
<1>request. RequestOk'
  <2>1. Kept({"checkpoint", "request"})
    BY <1>3 DEF Kept
  <2>2. \A l \in Logs : Stays(l)
    BY <1>3, StaysFrame
  <2>3. Len(elog') = Len(elog) /\ Len(elog) \in Nat /\ flushed' = flushed /\ flushed \in Nat
    BY <1>1, <1>3, DiskTypes
  <2>4. Len(elog) <= Len(elog') /\ flushed <= flushed'
    BY <2>3
  <2> QED BY <1>1, <1>3, <2>1, <2>2, <2>4, <1>types, RequestFrame, ListLogs
<1>flush. FlushOk'
  <2>1. log_requests = <<>> \/ log_requests[1].lsn > flushed
    BY <1>1, <1>fn DEF FlushOk
  <2>2. CASE flush_notify' = [flush_notify EXCEPT !.list = Tail(@)]
    BY <1>3, <1>fn, <2>1, <2>2 DEF FlushOk
  <2>3. CASE flush_notify' = NoFlush
    BY <1>3, <2>1, <2>3 DEF FlushOk, NoFlush
  <2> QED BY <1>4, <2>2, <2>3
<1>checks. CheckpointsOk'
  BY <1>1, <1>3, CheckpointsFrame
<1>last. LastOk'
  <2>1. Kept({"rotate_index", "done_lock", "done_write", "crashed"})
    BY <1>3 DEF Kept
  <2> QED BY <1>1, <1>3, <2>1, LastFrame
<1>dones. DoneOk'
  <2>1. Within(Marking)
    BY <1>3 DEF Within, Marking
  <2> QED BY <1>1, <1>3, <2>1, DoneFrame
<1>hold. HoldOk'
  <2>1. Kept({"done"})
    BY <1>3 DEF Kept
  <2> QED BY <1>1, <1>3, <2>1, HoldFrame
<1>tokens. TokensOk'
  <2>1. CASE flush_notify.list = <<>> /\ flush_notify' = NoFlush /\ UNCHANGED bgVars
    <3>1. flush_notify'.list = flush_notify.list
      BY <2>1 DEF NoFlush
    <3>2. Kept({"request", "notify", "done"})
      BY <1>3 DEF Kept
    <3>3. \A t \in NeedUnlog : Counted(t)' <=> Counted(t)
      BY <1>3 DEF Counted
    <3>4. ASSUME NEW bt, LeftOk(bt) PROVE LeftOk(bt)'
      <4>1. Within({"next_stage", "order", "checkpoint"}) /\ Within({"crashed"})
        BY <1>3 DEF Within
      <4> QED BY <1>3, <1>donelog, <3>4, <4>1, LeftFrame
    <3> QED BY <1>1, <1>3, <2>1, <3>1, <3>2, <3>3, <3>4, TokensFrame
  <2>2. CASE flush_notify.list # <<>> /\ Notify(Head(flush_notify.list)) /\ flush_notify' = [flush_notify EXCEPT !.list = Tail(@)]
    <3>0. PICK l \in Logs : l = Head(flush_notify.list)
      BY <1>tail, <2>2
    <3>l. /\ l \in Range(flush_notify.list) /\ Notify(l)
          /\ Range(flush_notify'.list) = Range(flush_notify.list) \ {l} /\ Distinct(flush_notify'.list)
      <4>1. flush_notify'.list = Tail(flush_notify.list)
        BY <1>fn, <2>2
      <4> QED BY <1>tail, <2>2, <3>0, <4>1
    <3>was. at[l] = "flush" /\ l \notin Range(q) /\ l \notin Range(r)
      BY <1>at, <3>l DEF PlacesOk, PlaceOk
    <3>p. PICK p : p = <<l>> \o q
      OBVIOUS
    <3>q. p \in Seq(Logs) /\ IsChain(p, bg_queue)' /\ IsChain(r, bg)' /\ Distinct(p) /\ Range(p) = Range(q) \cup {l}
      <4>1. next_in_queue \in [Logs -> 0..MaxLogs] /\ IsChain(q, bg_queue) /\ IsChain(r, bg) /\ Distinct(q) /\ bg' = bg
        BY <1>1, <1>3, <1>at DEF XaTypes, PlacesOk, ListsOk
      <4> QED BY <3>l, <3>was, <3>p, <4>1, NotifyFacts
    <3> DEFINE bt == [at EXCEPT ![l] = "queue"]
    <3>1. bt \in [Logs -> Places] /\ \A m \in Logs : bt[m] = IF m = l THEN "queue" ELSE at[m]
      BY <1>at DEF Places
    <3> HIDE DEF bt
    <3>2. PlacesOk(bt, p, r)'
      <4>1. ListsOk(p, r)'
        <5>1. ListsOk(q, r)
          BY <1>at DEF PlacesOk
        <5> QED BY <1>3, <3>l, <3>q, <5>1 DEF ListsOk, Distinct
      <4>2. ASSUME NEW m \in Logs PROVE PlaceOk(bt, p, r, m)'
        <5>1. PlaceOk(at, q, r, m)
          BY <1>at DEF PlacesOk
        <5>2. bt[m] = IF m = l THEN "queue" ELSE at[m]
          BY <3>1
        <5>3. CASE m = l
          BY <1>3, <3>l, <3>was, <3>q, <5>1, <5>2, <5>3 DEF PlaceOk
        <5>4. CASE m # l
          <6>1. (m \in Range(flush_notify'.list) <=> m \in Range(flush_notify.list)) /\ (m \in Range(p) <=> m \in Range(q))
            BY <3>l, <3>q, <5>4
          <6> QED BY <1>3, <5>1, <5>2, <5>4, <6>1 DEF PlaceOk
        <5> QED BY <5>3, <5>4
      <4>3. ASSUME NEW a \in Threads, rotated[a] # 0, pc[a] \notin {"request", "notify"} PROVE bt[rotated[a]] = "none"
        <5>1. rotated[a] \in Logs
          BY <1>1, <4>3, RotatedLog
        <5>2. at[rotated[a]] = "none"
          BY <1>at, <4>3 DEF PlacesOk
        <5> QED BY <3>1, <3>was, <5>1, <5>2
      <4> QED BY <1>3, <4>1, <4>2, <4>3 DEF PlacesOk
    <3>3. CountsOk(bt)'
      <4>1. \A t \in NeedUnlog : Counted(t)' <=> Counted(t)
        BY <1>3 DEF Counted
      <4>2. \A m \in Logs : (\E a \in Threads : Holds(a, m)') <=> (\E a \in Threads : Holds(a, m))
        BY <1>3 DEF Holds, HoldTo
      <4>3. \A m \in Logs : bt[m] # "none" <=> at[m] # "none"
        BY <3>1, <3>was
      <4> QED BY <1>3, <1>at, <4>1, <4>2, <4>3, CountsMove
    <3>4. LeftOk(bt)'
      <4>1. \A m \in Logs : at[m] \in {"request", "list"} => bt[m] \in {"request", "list"} \/ DoneLog(m)'
        BY <3>1, <3>was
      <4> QED BY <1>1, <1>3, <1>at, <1>donelog, <1>run, <4>1, LeftMove
    <3> QED BY <1>at, <3>1, <3>2, <3>3, <3>4, <3>q DEF TokensOk
  <2> QED BY <1>4, <2>1, <2>2
<1> QED BY <1>types, <1>labels, <1>locks, <1>groups, <1>rotated, <1>index, <1>synced, <1>disks, <1>trxs,
     <1>members, <1>request, <1>flush, <1>checks, <1>last, <1>dones, <1>hold, <1>tokens DEF XaInv


\* what innodb_log_flush_request() of a for file l detaches, and what it leaves
Detached(a, l) ==
    /\ to_notify'[a] \in Seq(Logs) /\ log_requests' \in Seq(Requests) /\ Distinct(to_notify'[a])
    /\ \A i, j \in DOMAIN log_requests' : log_requests'[i].log = log_requests'[j].log => i = j
    /\ \A m \in Range(to_notify'[a]) : DoneLog(m) /\ ~(\E i \in DOMAIN log_requests' : log_requests'[i].log = m)
    /\ \A m : m \in Range(to_notify'[a]) \/ (\E i \in DOMAIN log_requests' : log_requests'[i].log = m)
              <=> m = l \/ \E i \in DOMAIN log_requests : log_requests[i].log = m
    /\ \A i \in DOMAIN log_requests' :
          CommitBy(log_requests'[i].log, log_requests'[i].lsn) /\ log_requests'[i].lsn <= Len(elog)
    /\ flush_notify.state # "flushed" => log_requests' = <<>> \/ log_requests'[1].lsn > flushed

\* innodb_log_flush_request() either has the request notified at once, or
\* adds it to the list; what it detaches is done.
LEMMA RequestFacts ==
    ASSUME XaInv, NEW a \in Threads, FlushRequest(a), NEW l, l = rotated[a]
    PROVE  Detached(a, l)
<1>1. XaTypes /\ RotatedOk /\ RequestOk /\ FlushOk /\ TokensOk /\ pc[a] = "request"
  BY DEF XaInv, FlushRequest, At
<1>at. PICK at \in [Logs -> Places], q \in Seq(Logs), r \in Seq(Logs) : PlacesOk(at, q, r)
  BY <1>1 DEF TokensOk
<1>2. l \in Logs
  BY <1>1, RotatedLog DEF RotatedOk, Requesting
<1>3. /\ log_requests \in Seq(Requests) /\ Len(log_requests) \in Nat /\ DOMAIN log_requests = 1..Len(log_requests)
      /\ flushed \in Nat /\ Len(elog) \in Nat /\ flushed <= Len(elog)
      /\ to_notify \in [Threads -> Seq(Logs)] /\ req[a].flush_lsn \in Nat /\ req[a].lsn \in Nat
  <2>1. log_requests \in Seq(Requests) /\ req[a] \in [flush_lsn : Nat, lsn : Nat] /\ to_notify \in [Threads -> Seq(Logs)]
    BY <1>1 DEF XaTypes
  <2>2. Len(log_requests) \in Nat /\ DOMAIN log_requests = 1..Len(log_requests)
    BY <2>1, LenProperties
  <2> QED BY <1>1, <2>1, <2>2, DiskTypes
<1>4. CommitBy(l, req[a].lsn) /\ req[a].lsn <= Len(elog) /\ req[a].flush_lsn <= flushed
  BY <1>1 DEF RequestOk
<1>5. \A i \in DOMAIN log_requests : /\ log_requests[i].lsn \in Nat /\ log_requests[i].lsn <= Len(elog)
                                     /\ CommitBy(log_requests[i].log, log_requests[i].lsn)
  <2> SUFFICES ASSUME NEW i \in DOMAIN log_requests
               PROVE  log_requests[i].lsn \in Nat /\ log_requests[i].lsn <= Len(elog)
                      /\ CommitBy(log_requests[i].log, log_requests[i].lsn)
    OBVIOUS
  <2>1. log_requests[i] \in Requests
    BY <1>3
  <2> QED BY <1>1, <2>1 DEF Requests, RequestOk
<1>6. /\ \A i, j \in DOMAIN log_requests : log_requests[i].log = log_requests[j].log => i = j
      /\ ~(\E i \in DOMAIN log_requests : log_requests[i].log = l)
  <2>1. PlaceOk(at, q, r, l) /\ ListsOk(q, r)
    BY <1>2, <1>at DEF PlacesOk
  <2>2. at[l] = "request"
    BY <1>1, <2>1 DEF PlaceOk
  <2> QED BY <2>1, <2>2 DEF PlaceOk, ListsOk
<1>7. CASE req[a].flush_lsn >= req[a].lsn
  <2>1. PICK n \in Nat : n = req[a].flush_lsn
    BY <1>3
  <2>2. PICK c : c = LogsOf(Complete(log_requests, n))
    OBVIOUS
  <2>3. to_notify'[a] = Append(c, l) /\ log_requests' = Rest(log_requests, n)
    BY <1>3, <1>7, <2>1, <2>2 DEF FlushRequest
  <2>4. SplitOk(log_requests, n, c, log_requests')
    BY <1>3, <1>6, <2>2, <2>3, SplitFacts
  <2>5. c \in Seq(Logs) /\ Distinct(c) /\ l \notin Range(c)
    BY <1>6, <2>4 DEF SplitOk
  <2>6. Append(c, l) \in Seq(Logs) /\ Range(Append(c, l)) = Range(c) \cup {l} /\ Distinct(Append(c, l))
    BY <1>2, <2>5, AppendFacts
  <2>7. DoneLog(l)
    <3>1. PICK k \in Nat : k = req[a].lsn
      BY <1>3
    <3>2. CommitBy(l, k) /\ k <= flushed
      BY <1>3, <1>4, <1>7, <2>1, <3>1
    <3> QED BY <1>1, <1>3, <3>2, CommitLater DEF DoneLog
  <2>8. ASSUME NEW m \in Range(c) PROVE DoneLog(m) /\ m # l
    <3>1. PICK i \in DOMAIN log_requests : log_requests[i].log = m /\ log_requests[i].lsn <= n
      BY <2>4 DEF SplitOk
    <3>2. PICK k \in Nat : k = log_requests[i].lsn
      BY <1>5
    <3>3. CommitBy(m, k) /\ k <= flushed
      BY <1>3, <1>4, <1>5, <2>1, <3>1, <3>2
    <3> QED BY <1>1, <1>3, <2>5, <3>3, CommitLater DEF DoneLog
  <2>9. ASSUME NEW m \in Range(to_notify'[a])
        PROVE  DoneLog(m) /\ ~(\E i \in DOMAIN log_requests' : log_requests'[i].log = m)
    <3>1. m \in Range(c) \/ m = l
      BY <2>3, <2>6
    <3> QED BY <1>6, <2>4, <2>7, <2>8, <3>1 DEF SplitOk
  <2>10. \A m : m \in Range(to_notify'[a]) \/ (\E i \in DOMAIN log_requests' : log_requests'[i].log = m)
                <=> m = l \/ \E i \in DOMAIN log_requests : log_requests[i].log = m
    <3> SUFFICES ASSUME NEW m
                 PROVE  m \in Range(to_notify'[a]) \/ (\E i \in DOMAIN log_requests' : log_requests'[i].log = m)
                        <=> m = l \/ \E i \in DOMAIN log_requests : log_requests[i].log = m
      OBVIOUS
    <3>1. m \in Range(to_notify'[a]) <=> m \in Range(c) \/ m = l
      BY <2>3, <2>6
    <3>2. (\E i \in DOMAIN log_requests : log_requests[i].log = m) <=>
             m \in Range(c) \/ \E i \in DOMAIN log_requests' : log_requests'[i].log = m
      BY <2>4 DEF SplitOk
    <3> QED BY <3>1, <3>2
  <2>11. \A i \in DOMAIN log_requests' :
           CommitBy(log_requests'[i].log, log_requests'[i].lsn) /\ log_requests'[i].lsn <= Len(elog)
    BY <1>5, <2>4 DEF SplitOk
  <2>12. ASSUME flush_notify.state # "flushed", log_requests' # <<>> PROVE log_requests'[1].lsn > flushed
    <3>0. log_requests # <<>>
      <4>1. log_requests' \in Seq(Requests)
        BY <2>4 DEF SplitOk
      <4>2. 1 \in DOMAIN log_requests'
        <5>1. Len(log_requests') \in Nat \ {0} /\ DOMAIN log_requests' = 1..Len(log_requests')
          BY <2>12, <4>1, EmptySeq, LenProperties
        <5> QED BY <5>1
      <4>3. PICK j \in DOMAIN log_requests : log_requests'[1] = log_requests[j]
        BY <2>4, <4>2 DEF SplitOk
      <4> QED BY <1>3, <4>3
    <3>1. log_requests[1].lsn > flushed /\ 1 \in DOMAIN log_requests
      <4>1. Len(log_requests) # 0
        BY <1>3, <3>0, EmptySeq
      <4> QED BY <1>1, <1>3, <2>12, <3>0, <4>1 DEF FlushOk
    <3>2. ~(log_requests[1].lsn <= n)
      <4>1. PICK z \in Nat : z = log_requests[1].lsn
        BY <1>5, <3>1
      <4>2. z > flushed /\ n <= flushed
        BY <1>4, <2>1, <3>1, <4>1
      <4>3. ~(z <= n)
        BY <1>3, <4>2
      <4> QED BY <4>1, <4>3
    <3>3. log_requests'[1] = log_requests[1]
      BY <2>4, <2>12, <3>2 DEF SplitOk
    <3> QED BY <3>1, <3>3
  <2> QED BY <2>3, <2>4, <2>6, <2>9, <2>10, <2>11, <2>12 DEF SplitOk, Detached
<1>8. CASE ~(req[a].flush_lsn >= req[a].lsn)
  <2>0. PICK x \in Requests : x = [log |-> l, lsn |-> req[a].lsn] /\ x.log = l /\ x.lsn = req[a].lsn
    <3>1. [log |-> l, lsn |-> req[a].lsn] \in Requests
      BY <1>2, <1>3 DEF Requests
    <3> QED BY <3>1
  <2>1. PICK n \in Nat : n = RequestLsn(a) /\ n <= flushed
    BY <1>3, <1>4 DEF RequestLsn
  <2>l. PICK list : list = Append(log_requests, x)
    OBVIOUS
  <2>2. PICK c : c = LogsOf(Complete(list, n))
    OBVIOUS
  <2>3. to_notify'[a] = c /\ log_requests' = Rest(list, n)
    BY <1>3, <1>8, <2>0, <2>1, <2>l, <2>2 DEF FlushRequest
  <2>5. /\ list \in Seq(Requests) /\ Len(list) = Len(log_requests) + 1 /\ DOMAIN list = 1..(Len(log_requests) + 1)
        /\ \A i \in 1..Len(log_requests) : list[i] = log_requests[i]
        /\ list[Len(log_requests) + 1] = x
    <3>1. list \in Seq(Requests) /\ Len(list) = Len(log_requests) + 1
      BY <1>3, <2>l, AppendFacts
    <3>2. Extends(log_requests, list)
      BY <1>3, <2>l, AppendFacts
    <3>3. list[Len(log_requests) + 1] = x
      BY <1>3, <2>l, AppendFacts
    <3> QED BY <3>1, <3>2, <3>3, LenProperties DEF Extends
  <2>el. \A i \in DOMAIN list : (i \in DOMAIN log_requests /\ list[i] = log_requests[i]) \/ (i = Len(log_requests) + 1 /\ list[i] = x)
    <3> SUFFICES ASSUME NEW i \in DOMAIN list
                 PROVE  (i \in DOMAIN log_requests /\ list[i] = log_requests[i]) \/ (i = Len(log_requests) + 1 /\ list[i] = x)
      OBVIOUS
    <3>1. CASE i = Len(log_requests) + 1
      BY <2>5, <3>1
    <3>2. CASE i # Len(log_requests) + 1
      <4>1. i \in 1..Len(log_requests)
        BY <1>3, <2>5, <3>2
      <4>2. list[i] = log_requests[i]
        BY <2>5, <4>1
      <4>3. i \in DOMAIN log_requests
        BY <1>3, <4>1, Zenon
      <4> QED BY <4>2, <4>3, Zenon
    <3> QED BY <3>1, <3>2
  <2>in. \A i \in DOMAIN log_requests : i \in DOMAIN list /\ list[i] = log_requests[i]
    BY <1>3, <2>5
  <2>new. Len(log_requests) + 1 \in DOMAIN list
    BY <1>3, <2>5
  <2>6. ASSUME NEW i \in DOMAIN list, NEW j \in DOMAIN list, list[i].log = list[j].log PROVE i = j
    BY <1>6, <2>0, <2>6, <2>el
  <2>7. \A m : (\E i \in DOMAIN list : list[i].log = m) <=> m = l \/ \E i \in DOMAIN log_requests : log_requests[i].log = m
    BY <2>0, <2>5, <2>el, <2>in, <2>new
  <2>4. SplitOk(list, n, c, log_requests')
    BY <2>2, <2>3, <2>5, <2>6, SplitFacts
  <2>8. \A i \in DOMAIN list : list[i].lsn \in Nat /\ CommitBy(list[i].log, list[i].lsn) /\ list[i].lsn <= Len(elog)
    BY <1>3, <1>4, <1>5, <2>0, <2>el
  <2>9. ASSUME NEW m \in Range(c) PROVE DoneLog(m)
    <3>1. PICK i \in DOMAIN list : list[i].log = m /\ list[i].lsn <= n
      BY <2>4 DEF SplitOk
    <3>2. PICK k \in Nat : k = list[i].lsn
      BY <2>8
    <3>3. CommitBy(m, k) /\ k <= flushed
      BY <1>3, <2>1, <2>8, <3>1, <3>2
    <3> QED BY <1>1, <1>3, <3>3, CommitLater DEF DoneLog
  <2>10. \A m : m \in Range(to_notify'[a]) \/ (\E i \in DOMAIN log_requests' : log_requests'[i].log = m)
                <=> m = l \/ \E i \in DOMAIN log_requests : log_requests[i].log = m
    BY <2>3, <2>4, <2>7 DEF SplitOk
  <2>11. \A i \in DOMAIN log_requests' :
           CommitBy(log_requests'[i].log, log_requests'[i].lsn) /\ log_requests'[i].lsn <= Len(elog)
    BY <2>4, <2>8 DEF SplitOk
  <2>12. ASSUME flush_notify.state # "flushed", log_requests' # <<>> PROVE log_requests'[1].lsn > flushed
    <3>1. CASE log_requests = <<>>
      <4>1. n = flushed
        BY <2>1, <3>1 DEF RequestLsn
      <4> QED BY <2>4, <2>12, <4>1 DEF SplitOk
    <3>2. CASE log_requests # <<>>
      <4>1. log_requests[1].lsn > flushed /\ 1 \in DOMAIN log_requests
        <5>1. Len(log_requests) # 0
          BY <1>3, <3>2, EmptySeq
        <5> QED BY <1>1, <1>3, <2>12, <3>2, <5>1 DEF FlushOk
      <4>2. list[1] = log_requests[1] /\ log_requests[1].lsn \in Nat
        BY <1>5, <2>in, <4>1
      <4>3. ~(list[1].lsn <= n)
        BY <1>3, <2>1, <4>1, <4>2
      <4>4. log_requests'[1] = list[1]
        BY <2>4, <2>12, <4>3 DEF SplitOk
      <4> QED BY <4>1, <4>2, <4>4
    <3> QED BY <3>1, <3>2
  <2> QED BY <2>3, <2>4, <2>9, <2>10, <2>11, <2>12 DEF SplitOk, Detached
<1> QED BY <1>7, <1>8

\* The request is in the list or detached, never lost, whatever was flushed meanwhile.
LEMMA FlushRequestStep ==
    ASSUME XaInv, NEW a \in Threads, FlushRequest(a), UNCHANGED sync_period
    PROVE  XaInv'
<1>1. /\ XaTypes /\ LabelsOk /\ LocksOk /\ GroupsOk /\ RotatedOk /\ IndexOk /\ SyncedOk /\ DisksOk /\ TrxsOk
      /\ MembersOk /\ RequestOk /\ FlushOk /\ CheckpointsOk /\ LastOk /\ DoneOk /\ HoldOk /\ TokensOk
  BY DEF XaInv
<1>2. /\ a \in Actors /\ pc[a] = "request" /\ pc'[a] = "notify"
      /\ \A b \in Actors : b # a => pc'[b] = pc[b]
  BY <1>1, Who, GotoFacts DEF FlushRequest, At
<1>3. UNCHANGED <<elog, flushed, blog, synced, first, indexed, inuse, current, head, xid_count, LOCK_log,
                  LOCK_after_binlog_sync, bg_queue, next_in_queue, group, rotated, done,
                  flush_notify, bg, lost, crashes>>
  BY DEF FlushRequest, diskVars, listVars, lockVars, bgVars, ctlVars
<1>nat. /\ current \in Nat /\ head \in Nat /\ indexed \in Nat /\ first \in Nat /\ MaxLogs \in Nat
        /\ 1 <= head /\ head <= current /\ current <= MaxLogs
  BY <1>1, DiskTypes
<1>at. PICK at \in [Logs -> Places], q \in Seq(Logs), r \in Seq(Logs) :
         PlacesOk(at, q, r) /\ CountsOk(at) /\ LeftOk(at)
  BY <1>1 DEF TokensOk
<1>donelog. \A m : DoneLog(m) => DoneLog(m)'
  BY <1>3 DEF DoneLog, CommitBy, InFile
<1>l. PICK l \in Logs : l = rotated[a] /\ l # 0 /\ l < current
  <2>1. rotated[a] # 0 /\ rotated[a] < current
    BY <1>1, <1>2 DEF RotatedOk, Requesting
  <2>2. rotated[a] \in Logs
    BY <1>1, <2>1, RotatedLog
  <2> QED BY <2>1, <2>2
<1>mine. \A b \in Threads : b # a => rotated[b] # l
  <2> SUFFICES ASSUME NEW b \in Threads, b # a, rotated[b] = l PROVE FALSE
    OBVIOUS
  <2>1. Holds(a, l) /\ Holds(b, l)
    BY <1>l DEF Holds
  <2> QED BY <1>1, <2>1 DEF HoldOk
<1>run. Running
  BY <1>1, <1>2, Who DEF Running, At, LabelsOk
<1>4. /\ to_notify'[a] \in Seq(Logs) /\ log_requests' \in Seq(Requests) /\ Distinct(to_notify'[a])
      /\ \A i, j \in DOMAIN log_requests' : log_requests'[i].log = log_requests'[j].log => i = j
      /\ \A m \in Range(to_notify'[a]) : DoneLog(m) /\ ~(\E i \in DOMAIN log_requests' : log_requests'[i].log = m)
      /\ \A m : m \in Range(to_notify'[a]) \/ (\E i \in DOMAIN log_requests' : log_requests'[i].log = m)
                <=> m = l \/ \E i \in DOMAIN log_requests : log_requests[i].log = m
      /\ \A i \in DOMAIN log_requests' :
            CommitBy(log_requests'[i].log, log_requests'[i].lsn) /\ log_requests'[i].lsn <= Len(elog)
      /\ flush_notify.state # "flushed" => log_requests' = <<>> \/ log_requests'[1].lsn > flushed
  <2>1. Detached(a, l)
    BY <1>l, RequestFacts
  <2> QED BY <2>1 DEF Detached
<1>5. to_notify' \in [Threads -> Seq(Logs)] /\ \A b \in Threads : b # a => to_notify'[b] = to_notify[b]
  <2>1. to_notify \in [Threads -> Seq(Logs)]
    BY <1>1 DEF XaTypes
  <2>2. \E x : to_notify' = [to_notify EXCEPT ![a] = x]
    BY DEF FlushRequest
  <2>3. PICK x : to_notify' = [to_notify EXCEPT ![a] = x]
    BY <2>2
  <2>4. x \in Seq(Logs)
    BY <1>4, <2>1, <2>3
  <2> QED BY <2>1, <2>3, <2>4
<1>6. to_notify[a] = <<>>
  BY <1>at, <1>2 DEF PlacesOk, ListsOk
<1>7. req' \in [Threads -> [flush_lsn : Nat, lsn : Nat]] /\ \A b \in Threads : b # a => req'[b] = req[b]
  <2>1. req \in [Threads -> [flush_lsn : Nat, lsn : Nat]] /\ NoRequest[a] \in [flush_lsn : Nat, lsn : Nat]
    BY <1>1 DEF XaTypes, NoRequest
  <2>2. req' = [req EXCEPT ![a] = NoRequest[a]]
    BY DEF FlushRequest
  <2> QED BY <2>1, <2>2
<1>types. XaTypes'
  <2>1. pc' \in [Actors -> TrxLabels \cup BgLabels]
    BY <1>1, <1>2, GotoType DEF FlushRequest, TrxLabels, FlusherLabels, BgLabels, Marking
  <2> QED BY <1>1, <1>3, <2>1, <1>4, <1>5, <1>7 DEF XaTypes
<1>labels. LabelsOk'
  BY <1>1, <1>2, Who DEF LabelsOk, TrxLabels, FlusherLabels, BgLabels, Marking
<1>locks. LocksOk'
  <2>1. Within(LogHolders) /\ Within({"order"})
    BY <1>2, <1>3 DEF Within, LogHolders
  <2> QED BY <1>1, <1>3, <2>1, LocksFrame DEF lockVars
<1>groups. GroupsOk'
  <2>1. Within(Leading) /\ Within({"follow"})
    BY <1>2, <1>3 DEF Within, Leading
  <2>2. group \in [Threads -> Seq(Trx)]
    BY <1>1 DEF XaTypes
  <2> QED BY <1>1, <1>3, <2>1, <2>2, GroupsFrame
<1>rotated. RotatedOk'
  <2> SUFFICES ASSUME NEW b \in Threads
               PROVE  /\ rotated'[b] # 0 => pc'[b] \in {"rotate_index", "rotate_list", "next_stage", "order",
                                                       "checkpoint", "request", "notify"}
                      /\ pc'[b] \in {"rotate_index", "rotate_list"} => rotated'[b] = current
                      /\ pc'[b] = "next_stage" => rotated'[b] \in {0, current - 1}
                      /\ pc'[b] \in {"order", "checkpoint", "request", "notify"} => rotated'[b] < current
                      /\ pc'[b] \in Requesting => rotated'[b] # 0
                      /\ pc'[b] \in {"rotate", "rotate_index"} => current < MaxLogs
    BY <1>3 DEF RotatedOk
  <2>1. CASE b = a
    BY <1>2, <1>3, <1>l, <2>1
  <2>2. CASE b # a
    <3>1. pc'[b] = pc[b] /\ rotated'[b] = rotated[b]
      BY <1>2, <1>3, <2>2, Who
    <3> QED BY <1>1, <3>1 DEF RotatedOk
  <2> QED BY <2>1, <2>2
<1>index. IndexOk'
  <2>1. Kept({"rotate_list"})
    BY <1>2, <1>3 DEF Kept
  <2> QED BY <1>1, <1>3, <2>1, IndexFrame
<1>synced. SyncedOk'
  <2>1. Kept({"sync"})
    BY <1>2, <1>3 DEF Kept
  <2> QED BY <1>1, <1>3, <2>1, SyncedFrame
<1>disks. DisksOk'
  BY <1>1, <1>3, DisksFrame
<1>trxs. TrxsOk'
  <2> SUFFICES ASSUME NEW u \in Trx PROVE TrxOk(u)'
    BY DEF TrxsOk
  <2>1. TrxOk(u) /\ u \in Actors
    BY <1>1, Who DEF TrxsOk
  <2>2. CASE u # a
    BY <1>2, <1>3, <2>1, <2>2, TrxFrame
  <2>3. CASE u = a
    BY <1>2, <1>3, <2>1, <2>3 DEF TrxOk, InBinlog, Durable, InEngine, Requesting, Marking
  <2> QED BY <2>2, <2>3
<1>members. MembersOk'
  <2>1. Within({"write"}) /\ Within(Leading \ {"write", "order"}) /\ Within({"order"}) /\ Within({"crashed"})
    BY <1>2, <1>3 DEF Within, Leading
  <2> QED BY <1>1, <1>3, <2>1, MembersFrame
<1>request. RequestOk'
  <2>1. ASSUME NEW b \in Threads
        PROVE  /\ pc'[b] = "checkpoint" => CommitBy(rotated[b], Len(elog))
               /\ pc'[b] = "request" => /\ CommitBy(rotated[b], req'[b].lsn) /\ req'[b].lsn <= Len(elog)
                                        /\ req'[b].flush_lsn <= flushed
    <3>1. CASE b = a
      BY <1>2, <3>1
    <3>2. CASE b # a
      <4>1. pc'[b] = pc[b] /\ req'[b] = req[b]
        BY <1>2, <1>7, <3>2, Who
      <4> QED BY <1>1, <4>1 DEF RequestOk
    <3> QED BY <3>1, <3>2
  <2> QED BY <1>3, <1>4, <2>1 DEF RequestOk, CommitBy, InFile
<1>flush. FlushOk'
  BY <1>1, <1>3, <1>4 DEF FlushOk
<1>checks. CheckpointsOk'
  BY <1>1, <1>3, CheckpointsFrame
<1>last. LastOk'
  <2>1. Kept({"rotate_index", "done_lock", "done_write", "crashed"})
    BY <1>2, <1>3 DEF Kept
  <2> QED BY <1>1, <1>3, <2>1, LastFrame
<1>dones. DoneOk'
  <2>1. Within(Marking)
    BY <1>2, <1>3 DEF Within, Marking
  <2> QED BY <1>1, <1>3, <2>1, DoneFrame
<1>hold. HoldOk'
  <2>1. Kept({"done"})
    BY <1>2, <1>3 DEF Kept
  <2> QED BY <1>1, <1>3, <2>1, HoldFrame
<1>tokens. TokensOk'
  <2>r. PICK T : T = Range(to_notify'[a])
    OBVIOUS
  <2> DEFINE bt == [m \in Logs |-> IF m \in T THEN "notify" ELSE IF m = l THEN "list" ELSE at[m]]
  <2>1. bt \in [Logs -> Places] /\ \A m \in Logs : bt[m] = IF m \in T THEN "notify" ELSE IF m = l THEN "list" ELSE at[m]
    BY <1>at DEF Places
  <2> HIDE DEF bt
  <2>was. at[l] = "request" /\ \A m \in Logs : m \in T /\ m # l => at[m] = "list"
    <3>1. at[l] = "request"
      BY <1>at, <1>2, <1>l DEF PlacesOk, PlaceOk
    <3>2. ASSUME NEW m \in Logs, m \in T, m # l PROVE at[m] = "list"
      <4>1. \E i \in DOMAIN log_requests : log_requests[i].log = m
        BY <1>4, <2>r, <3>2
      <4> QED BY <1>at, <4>1 DEF PlacesOk, PlaceOk
    <3> QED BY <3>1, <3>2
  <2>2. PlacesOk(bt, q, r)'
    <3>1. ListsOk(q, r)'
      <4>1. ListsOk(q, r)
        BY <1>at DEF PlacesOk
      <4>2. IsChain(q, bg_queue)' /\ IsChain(r, bg)'
        BY <1>3, <4>1 DEF ListsOk, IsChain
      <4>3. ASSUME NEW b \in Threads, NEW d \in Threads, NEW i \in DOMAIN to_notify'[b], NEW j \in DOMAIN to_notify'[d],
                   to_notify'[b][i] = to_notify'[d][j]
            PROVE  b = d /\ i = j
        <5>1. CASE b # a /\ d # a
          BY <1>5, <4>1, <4>3, <5>1 DEF ListsOk
        <5>2. CASE b = a /\ d = a
          BY <1>4, <4>3, <5>2 DEF Distinct
        <5>3. ASSUME NEW e \in Threads, e # a, NEW k \in DOMAIN to_notify[e], to_notify[e][k] \in T PROVE FALSE
          <6>1. PICK m : m = to_notify[e][k] /\ m \in Range(to_notify[e]) /\ m \in T
            BY <5>3 DEF Range
          <6>2. m \in Logs
            <7>1. to_notify'[a] \in Seq(Logs)
              BY <1>4
            <7> QED BY <2>r, <6>1, <7>1, RangeFacts
          <6>3. at[m] = "notify"
            BY <1>at, <6>1, <6>2 DEF PlacesOk, PlaceOk
          <6> QED BY <2>was, <6>1, <6>2, <6>3
        <5>4. CASE b = a /\ d # a
          <6>1. to_notify'[b][i] \in T
            BY <2>r, <5>4 DEF Range
          <6>2. j \in DOMAIN to_notify[d] /\ to_notify[d][j] \in T
            BY <1>5, <4>3, <5>4, <6>1
          <6> QED BY <5>3, <5>4, <6>2
        <5>5. CASE b # a /\ d = a
          <6>1. to_notify'[d][j] \in T
            BY <2>r, <5>5 DEF Range
          <6>2. i \in DOMAIN to_notify[b] /\ to_notify[b][i] \in T
            BY <1>5, <4>3, <5>5, <6>1
          <6> QED BY <5>3, <5>5, <6>2
        <5> QED BY <5>1, <5>2, <5>4, <5>5
      <4>4. \A b \in Threads : to_notify'[b] # <<>> => pc'[b] = "notify"
        <5> SUFFICES ASSUME NEW b \in Threads, to_notify'[b] # <<>> PROVE pc'[b] = "notify"
          OBVIOUS
        <5>1. CASE b = a
          BY <1>2, <5>1
        <5>2. CASE b # a
          BY <1>2, <1>5, <4>1, <5>2, Who DEF ListsOk
        <5> QED BY <5>1, <5>2
      <4> QED BY <1>3, <1>4, <4>1, <4>2, <4>3, <4>4 DEF ListsOk, Distinct
    <3>2. ASSUME NEW m \in Logs PROVE PlaceOk(bt, q, r, m)'
      <4>1. PlaceOk(at, q, r, m)
        BY <1>at DEF PlacesOk
      <4>2. bt[m] = IF m \in T THEN "notify" ELSE IF m = l THEN "list" ELSE at[m]
        BY <2>1
      <4>4. pc'[BG] = pc[BG]
        BY <1>2, Who
      <4>5. (\E b \in Threads : m \in Range(to_notify'[b])) <=> m \in T \/ at[m] = "notify"
        <5>1. (\E b \in Threads : m \in Range(to_notify'[b])) <=> m \in T \/ (\E b \in Threads : b # a /\ m \in Range(to_notify[b]))
          BY <1>5, <2>r
        <5>2. m \notin Range(to_notify[a])
          BY <1>6 DEF Range
        <5>3. at[m] = "notify" <=> \E b \in Threads : m \in Range(to_notify[b])
          BY <4>1 DEF PlaceOk
        <5> QED BY <5>1, <5>2, <5>3
      <4>6. (\E i \in DOMAIN log_requests' : log_requests'[i].log = m) <=> m \notin T /\ (m = l \/ at[m] = "list")
        <5>1. at[m] = "list" <=> \E i \in DOMAIN log_requests : log_requests[i].log = m
          BY <4>1 DEF PlaceOk
        <5> QED BY <1>4, <2>r, <5>1
      <4>7. CASE m = l
        <5>1. ~(\E b \in Threads : pc'[b] = "request" /\ rotated[b] = m)
          BY <1>2, <1>mine, <4>7
        <5> QED BY <1>3, <1>l, <2>was, <4>1, <4>2, <4>4, <4>5, <4>6, <4>7, <5>1 DEF PlaceOk
      <4>8. CASE m # l
        <5>1. \A b \in Threads : rotated[b] = m => pc'[b] = pc[b]
          BY <1>2, <1>l, <4>8, Who
        <5>2. (\E b \in Threads : pc'[b] = "request" /\ rotated[b] = m) <=> (\E b \in Threads : pc[b] = "request" /\ rotated[b] = m)
          BY <5>1
        <5>3. m \in T => at[m] = "list"
          BY <2>was, <4>8
        <5>4. CASE m \in T
          BY <1>3, <4>1, <4>2, <4>4, <4>5, <4>6, <5>2, <5>3, <5>4 DEF PlaceOk
        <5>5. CASE m \notin T
          BY <1>3, <4>1, <4>2, <4>4, <4>5, <4>6, <4>8, <5>2, <5>5 DEF PlaceOk
        <5> QED BY <5>4, <5>5
      <4> QED BY <4>7, <4>8
    <3>3. ASSUME NEW b \in Threads, rotated[b] # 0, pc'[b] \notin {"request", "notify"} PROVE bt[rotated[b]] = "none"
      <4>1. rotated[b] \in Logs /\ b # a
        BY <1>1, <1>2, <3>3, RotatedLog
      <4>2. at[rotated[b]] = "none"
        BY <1>at, <1>2, <3>3, <4>1, Who DEF PlacesOk
      <4> QED BY <1>mine, <2>1, <2>was, <4>1, <4>2
    <3> QED BY <1>3, <3>1, <3>2, <3>3 DEF PlacesOk
  <2>3. CountsOk(bt)'
    <3>1. \A t \in NeedUnlog : Counted(t)' <=> Counted(t)
      <4>1. Within(CountedLabels) /\ Within(Marking) /\ Within({"done"}) /\ Within({"follow"}) /\ Within({"write", "sync"})
        BY <1>2, <1>3 DEF Within, CountedLabels, Marking
      <4> QED BY <1>3, <4>1, CountedFrame, BinlogXaAssumption
    <3>2. \A m \in Logs : (\E b \in Threads : Holds(b, m)') <=> (\E b \in Threads : Holds(b, m))
      <4>1. Kept({"done"})
        BY <1>2 DEF Kept
      <4> QED BY <1>3, <4>1, HoldsFrame
    <3>3. \A m \in Logs : bt[m] # "none" <=> at[m] # "none"
      BY <2>1, <2>was
    <3> QED BY <1>3, <1>at, <3>1, <3>2, <3>3, CountsMove
  <2>4. LeftOk(bt)'
    <3>2. ASSUME NEW m \in Logs, at[m] \in {"request", "list"} PROVE bt[m] \in {"request", "list"} \/ DoneLog(m)'
      <4>1. CASE m \in T
        BY <1>4, <1>donelog, <2>r, <4>1
      <4>2. CASE m \notin T
        BY <2>1, <3>2, <4>2
      <4> QED BY <4>1, <4>2
    <3>3. \A b \in Threads : rotated[b] # 0 /\ pc[b] \in {"next_stage", "order", "checkpoint"} =>
               rotated'[b] = rotated[b] /\ pc'[b] \in {"next_stage", "order", "checkpoint"}
      BY <1>2, <1>3, Who
    <3> QED BY <1>1, <1>3, <1>at, <1>donelog, <1>run, <3>2, <3>3, LeftMove
  <2> QED BY <1>at, <2>1, <2>2, <2>3, <2>4 DEF TokensOk
<1> QED BY <1>types, <1>labels, <1>locks, <1>groups, <1>rotated, <1>index, <1>synced, <1>disks, <1>trxs,
     <1>members, <1>request, <1>flush, <1>checks, <1>last, <1>dones, <1>hold, <1>tokens DEF XaInv

\* innodb_log_flush_request() hands a detached request over to the background thread.
LEMMA RequestNotifyOneStep ==
    ASSUME XaInv, NEW a \in Threads, RequestNotify(a), to_notify[a] # <<>>, UNCHANGED sync_period
    PROVE  XaInv'
<1>1. /\ XaTypes /\ LabelsOk /\ LocksOk /\ GroupsOk /\ RotatedOk /\ IndexOk /\ SyncedOk /\ DisksOk /\ TrxsOk
      /\ MembersOk /\ RequestOk /\ FlushOk /\ CheckpointsOk /\ LastOk /\ DoneOk /\ HoldOk /\ TokensOk
  BY DEF XaInv
<1>3. UNCHANGED <<elog, flushed, blog, synced, first, indexed, inuse, current, head, xid_count, LOCK_log,
                  LOCK_after_binlog_sync, log_requests, pc, group, rotated, done, req, flush_notify, bg,
                  lost, crashes>>
  BY DEF RequestNotify, diskVars, listVars, lockVars, bgVars, ctlVars
<1>at. PICK at \in [Logs -> Places], q \in Seq(Logs), r \in Seq(Logs) :
         PlacesOk(at, q, r) /\ CountsOk(at) /\ LeftOk(at)
  BY <1>1 DEF TokensOk
<1>donelog. \A m : DoneLog(m) => DoneLog(m)'
  BY <1>3 DEF DoneLog, CommitBy, InFile
<1>a. pc[a] = "notify" /\ a \in Actors
  BY Who DEF RequestNotify, At
<1>run. Running
  BY <1>1, <1>a, Who DEF Running, At, LabelsOk
<1>tn. to_notify \in [Threads -> Seq(Logs)] /\ to_notify[a] \in Seq(Logs)
  BY <1>1 DEF XaTypes
<1>4. Notify(Head(to_notify[a])) /\ to_notify' = [to_notify EXCEPT ![a] = Tail(@)]
  BY DEF RequestNotify
<1>tail. /\ Tail(to_notify[a]) \in Seq(Logs) /\ Head(to_notify[a]) \in Logs
         /\ Head(to_notify[a]) \in Range(to_notify[a])
         /\ Distinct(Tail(to_notify[a]))
         /\ Range(Tail(to_notify[a])) = Range(to_notify[a]) \ {Head(to_notify[a])}
  <2>1. PICK s \in Seq(Logs) : s = to_notify[a]
    BY <1>tn
  <2>2. s # <<>> /\ Distinct(s)
    BY <1>at, <2>1 DEF PlacesOk, ListsOk, Distinct
  <2> QED BY <2>1, <2>2, HeadTail
<1>5. /\ to_notify' \in [Threads -> Seq(Logs)] /\ to_notify'[a] = Tail(to_notify[a])
      /\ \A b \in Threads : b # a => to_notify'[b] = to_notify[b]
  BY <1>4, <1>tail, <1>tn
<1>6. bg_queue' \in 0..MaxLogs /\ next_in_queue' \in [Logs -> 0..MaxLogs]
  <2>1. bg_queue \in 0..MaxLogs /\ next_in_queue \in [Logs -> 0..MaxLogs] /\ MaxLogs \in Nat
    BY <1>1, BinlogXaAssumption DEF XaTypes
  <2> QED BY <1>4, <1>tail, <2>1 DEF Notify, Logs
<1>types. XaTypes'
  BY <1>1, <1>3, <1>5, <1>6 DEF XaTypes
<1>labels. LabelsOk'
  BY <1>1, <1>3 DEF LabelsOk
<1>locks. LocksOk'
  <2>1. Within(LogHolders) /\ Within({"order"})
    BY <1>3 DEF Within, LogHolders
  <2> QED BY <1>1, <1>3, <2>1, LocksFrame DEF lockVars
<1>groups. GroupsOk'
  <2>1. Within(Leading) /\ Within({"follow"})
    BY <1>3 DEF Within, Leading
  <2>2. group \in [Threads -> Seq(Trx)]
    BY <1>1 DEF XaTypes
  <2> QED BY <1>1, <1>3, <2>1, <2>2, GroupsFrame
<1>rotated. RotatedOk'
  <2>1. Kept((Leading \cup Requesting) \ {"write", "sync"})
    BY <1>3 DEF Kept, Leading, Requesting
  <2> QED BY <1>1, <1>3, <2>1, RotatedFrame
<1>index. IndexOk'
  <2>1. Kept({"rotate_list"})
    BY <1>3 DEF Kept
  <2> QED BY <1>1, <1>3, <2>1, IndexFrame
<1>synced. SyncedOk'
  <2>1. Kept({"sync"})
    BY <1>3 DEF Kept
  <2> QED BY <1>1, <1>3, <2>1, SyncedFrame
<1>disks. DisksOk'
  BY <1>1, <1>3, DisksFrame
<1>trxs. TrxsOk'
  <2> SUFFICES ASSUME NEW u \in Trx PROVE TrxOk(u)'
    BY DEF TrxsOk
  <2>1. TrxOk(u)
    BY <1>1 DEF TrxsOk
  <2> QED BY <1>3, <2>1, TrxFrame
<1>members. MembersOk'
  <2>1. Within({"write"}) /\ Within(Leading \ {"write", "order"}) /\ Within({"order"}) /\ Within({"crashed"})
    BY <1>3 DEF Within, Leading
  <2> QED BY <1>1, <1>3, <2>1, MembersFrame
<1>request. RequestOk'
  <2>1. Kept({"checkpoint", "request"})
    BY <1>3 DEF Kept
  <2>2. \A l \in Logs : Stays(l)
    BY <1>3, StaysFrame
  <2>3. Len(elog') = Len(elog) /\ Len(elog) \in Nat /\ flushed' = flushed /\ flushed \in Nat
    BY <1>1, <1>3, DiskTypes
  <2>4. Len(elog) <= Len(elog') /\ flushed <= flushed'
    BY <2>3
  <2> QED BY <1>1, <1>3, <2>1, <2>2, <2>4, <1>types, RequestFrame, ListLogs
<1>flush. FlushOk'
  BY <1>1, <1>3, FlushFrame
<1>checks. CheckpointsOk'
  BY <1>1, <1>3, CheckpointsFrame
<1>last. LastOk'
  <2>1. Kept({"rotate_index", "done_lock", "done_write", "crashed"})
    BY <1>3 DEF Kept
  <2> QED BY <1>1, <1>3, <2>1, LastFrame
<1>dones. DoneOk'
  <2>1. Within(Marking)
    BY <1>3 DEF Within, Marking
  <2> QED BY <1>1, <1>3, <2>1, DoneFrame
<1>hold. HoldOk'
  <2>1. Kept({"done"})
    BY <1>3 DEF Kept
  <2> QED BY <1>1, <1>3, <2>1, HoldFrame
<1>tokens. TokensOk'
  <2>0. PICK l \in Logs : l = Head(to_notify[a])
    BY <1>tail
  <2>l. /\ l \in Range(to_notify[a]) /\ Notify(l)
        /\ Range(to_notify'[a]) = Range(to_notify[a]) \ {l} /\ Distinct(to_notify'[a])
    BY <1>4, <1>5, <1>tail, <2>0
  <2>was. at[l] = "notify" /\ l \notin Range(q) /\ l \notin Range(r)
    BY <1>at, <2>l DEF PlacesOk, PlaceOk
  <2>p. PICK p : p = <<l>> \o q
    OBVIOUS
  <2>q. p \in Seq(Logs) /\ IsChain(p, bg_queue)' /\ IsChain(r, bg)' /\ Distinct(p) /\ Range(p) = Range(q) \cup {l}
    <3>1. next_in_queue \in [Logs -> 0..MaxLogs] /\ IsChain(q, bg_queue) /\ IsChain(r, bg) /\ Distinct(q) /\ bg' = bg
      BY <1>1, <1>3, <1>at DEF XaTypes, PlacesOk, ListsOk
    <3> QED BY <2>l, <2>was, <2>p, <3>1, NotifyFacts
  <2> DEFINE bt == [at EXCEPT ![l] = "queue"]
  <2>1. bt \in [Logs -> Places] /\ \A m \in Logs : bt[m] = IF m = l THEN "queue" ELSE at[m]
    BY <1>at DEF Places
  <2> HIDE DEF bt
  <2>others. \A b \in Threads : b # a => l \notin Range(to_notify[b])
    <3> SUFFICES ASSUME NEW b \in Threads, b # a, l \in Range(to_notify[b]) PROVE FALSE
      OBVIOUS
    <3>1. PICK i \in DOMAIN to_notify[a] : to_notify[a][i] = l
      BY <2>l DEF Range
    <3>2. PICK j \in DOMAIN to_notify[b] : to_notify[b][j] = l
      BY DEF Range
    <3> QED BY <1>at, <3>1, <3>2 DEF PlacesOk, ListsOk
  <2>sub. \A b \in Threads : Range(to_notify'[b]) = Range(to_notify[b]) \ {l}
    BY <1>5, <2>l, <2>others
  <2>2. PlacesOk(bt, p, r)'
    <3>1. ListsOk(p, r)'
      <4>1. ListsOk(q, r)
        BY <1>at DEF PlacesOk
      <4>2. ASSUME NEW b \in Threads, NEW d \in Threads, NEW i \in DOMAIN to_notify'[b], NEW j \in DOMAIN to_notify'[d],
                   to_notify'[b][i] = to_notify'[d][j]
            PROVE  b = d /\ i = j
        <5>1. b = d
          <6>1. PICK m : m = to_notify'[b][i] /\ m \in Range(to_notify'[b]) /\ m \in Range(to_notify'[d])
            BY <4>2 DEF Range
          <6>2. m \in Range(to_notify[b]) /\ m \in Range(to_notify[d])
            BY <2>sub, <6>1
          <6>3. PICK x \in DOMAIN to_notify[b] : to_notify[b][x] = m
            BY <6>2 DEF Range
          <6>4. PICK y \in DOMAIN to_notify[d] : to_notify[d][y] = m
            BY <6>2 DEF Range
          <6> QED BY <4>1, <6>3, <6>4 DEF ListsOk
        <5>2. CASE b = a
          BY <2>l, <4>2, <5>1, <5>2 DEF Distinct
        <5>3. CASE b # a
          BY <1>5, <4>1, <4>2, <5>1, <5>3 DEF ListsOk
        <5> QED BY <5>1, <5>2, <5>3
      <4>3. \A b \in Threads : to_notify'[b] # <<>> => pc[b] = "notify"
        BY <1>5, <1>a, <4>1 DEF ListsOk
      <4> QED BY <1>3, <2>q, <4>1, <4>2, <4>3 DEF ListsOk, Distinct
    <3>2. ASSUME NEW m \in Logs PROVE PlaceOk(bt, p, r, m)'
      <4>1. PlaceOk(at, q, r, m)
        BY <1>at DEF PlacesOk
      <4>2. bt[m] = IF m = l THEN "queue" ELSE at[m]
        BY <2>1
      <4>3. CASE m = l
        <5>1. ~(\E b \in Threads : m \in Range(to_notify'[b]))
          BY <2>sub, <4>3
        <5> QED BY <1>3, <2>was, <2>q, <4>1, <4>2, <4>3, <5>1 DEF PlaceOk
      <4>4. CASE m # l
        <5>1. (\E b \in Threads : m \in Range(to_notify'[b])) <=> (\E b \in Threads : m \in Range(to_notify[b]))
          BY <2>sub, <4>4
        <5>2. m \in Range(p) <=> m \in Range(q)
          BY <2>q, <4>4
        <5> QED BY <1>3, <4>1, <4>2, <4>4, <5>1, <5>2 DEF PlaceOk
      <4> QED BY <4>3, <4>4
    <3>3. ASSUME NEW b \in Threads, rotated[b] # 0, pc[b] \notin {"request", "notify"} PROVE bt[rotated[b]] = "none"
      <4>1. rotated[b] \in Logs
        BY <1>1, <3>3, RotatedLog
      <4>2. at[rotated[b]] = "none"
        BY <1>at, <3>3 DEF PlacesOk
      <4> QED BY <2>1, <2>was, <4>1, <4>2
    <3> QED BY <1>3, <3>1, <3>2, <3>3 DEF PlacesOk
  <2>3. CountsOk(bt)'
    <3>1. \A t \in NeedUnlog : Counted(t)' <=> Counted(t)
      BY <1>3 DEF Counted
    <3>2. \A m \in Logs : (\E b \in Threads : Holds(b, m)') <=> (\E b \in Threads : Holds(b, m))
      BY <1>3 DEF Holds, HoldTo
    <3>3. \A m \in Logs : bt[m] # "none" <=> at[m] # "none"
      BY <2>1, <2>was
    <3> QED BY <1>3, <1>at, <3>1, <3>2, <3>3, CountsMove
  <2>4. LeftOk(bt)'
    <3>1. \A m \in Logs : at[m] \in {"request", "list"} => bt[m] \in {"request", "list"} \/ DoneLog(m)'
      BY <2>1, <2>was
    <3> QED BY <1>1, <1>3, <1>at, <1>donelog, <1>run, <3>1, LeftMove
  <2> QED BY <1>at, <2>1, <2>2, <2>3, <2>4, <2>q DEF TokensOk
<1> QED BY <1>types, <1>labels, <1>locks, <1>groups, <1>rotated, <1>index, <1>synced, <1>disks, <1>trxs,
     <1>members, <1>request, <1>flush, <1>checks, <1>last, <1>dones, <1>hold, <1>tokens DEF XaInv

\* When all detached requests are handed over, mark_xid_done() is called for the file that was rotated.
LEMMA RequestNotifyEndStep ==
    ASSUME XaInv, NEW a \in Threads, RequestNotify(a), to_notify[a] = <<>>, UNCHANGED sync_period
    PROVE  XaInv'
<1>1. /\ XaTypes /\ LabelsOk /\ LocksOk /\ GroupsOk /\ RotatedOk /\ IndexOk /\ SyncedOk /\ DisksOk /\ TrxsOk
      /\ MembersOk /\ RequestOk /\ FlushOk /\ CheckpointsOk /\ LastOk /\ DoneOk /\ HoldOk /\ TokensOk
  BY DEF XaInv
<1>2. /\ a \in Actors /\ pc[a] = "notify" /\ pc'[a] = "done"
      /\ \A b \in Actors : b # a => pc'[b] = pc[b]
  BY <1>1, Who, GotoFacts DEF RequestNotify, At, CallDone
<1>3. UNCHANGED <<elog, flushed, blog, synced, first, indexed, inuse, current, head, xid_count, LOCK_log,
                  LOCK_after_binlog_sync, bg_queue, next_in_queue, log_requests, group, to_notify,
                  flush_notify, bg, lost, crashes>>
  BY DEF RequestNotify, diskVars, listVars, lockVars, bgVars, ctlVars
<1>nat. /\ current \in Nat /\ head \in Nat /\ indexed \in Nat /\ first \in Nat /\ MaxLogs \in Nat
        /\ 1 <= head /\ head <= current /\ current <= MaxLogs
  BY <1>1, DiskTypes
<1>at. PICK at \in [Logs -> Places], q \in Seq(Logs), r \in Seq(Logs) :
         PlacesOk(at, q, r) /\ CountsOk(at) /\ LeftOk(at)
  BY <1>1 DEF TokensOk
<1>donelog. \A m : DoneLog(m) => DoneLog(m)'
  BY <1>3 DEF DoneLog, CommitBy, InFile
<1>l. PICK l \in Logs : l = rotated[a] /\ l # 0 /\ l < current
  <2>1. rotated[a] # 0 /\ rotated[a] < current
    BY <1>1, <1>2 DEF RotatedOk, Requesting
  <2>2. rotated[a] \in Logs
    BY <1>1, <2>1, RotatedLog
  <2> QED BY <2>1, <2>2
<1>mine. \A b \in Threads : b # a => rotated[b] # l
  <2> SUFFICES ASSUME NEW b \in Threads, b # a, rotated[b] = l PROVE FALSE
    OBVIOUS
  <2>1. Holds(a, l) /\ Holds(b, l)
    BY <1>l DEF Holds
  <2> QED BY <1>1, <2>1 DEF HoldOk
<1>4. /\ done' = [done EXCEPT ![a] = [log |-> l, to |-> HoldTo(a)]]
      /\ rotated' = [rotated EXCEPT ![a] = 0] /\ req' = req
  BY <1>l DEF RequestNotify, CallDone, HoldTo
<1>5. /\ done' \in [Actors -> [log : 0..MaxLogs, to : {"none", "idle", "unlog", "end"}]]
      /\ done'[a].log = l /\ done'[a].to = HoldTo(a) /\ \A b \in Actors : b # a => done'[b] = done[b]
  <2>1. done \in [Actors -> [log : 0..MaxLogs, to : {"none", "idle", "unlog", "end"}]]
    BY <1>1 DEF XaTypes
  <2>2. [log |-> l, to |-> HoldTo(a)] \in [log : 0..MaxLogs, to : {"none", "idle", "unlog", "end"}]
    BY <1>nat DEF Logs, HoldTo
  <2> QED BY <1>2, <1>4, <2>1, <2>2
<1>6. rotated' \in [Threads -> 0..MaxLogs] /\ rotated'[a] = 0 /\ \A b \in Threads : b # a => rotated'[b] = rotated[b]
  <2>1. rotated \in [Threads -> 0..MaxLogs] /\ 0 \in 0..MaxLogs
    BY <1>1, <1>nat DEF XaTypes
  <2> QED BY <1>4, <2>1
<1>7. req' \in [Threads -> [flush_lsn : Nat, lsn : Nat]] /\ \A b \in Threads : b # a => req'[b] = req[b]
  <2>1. req \in [Threads -> [flush_lsn : Nat, lsn : Nat]]
    BY <1>1 DEF XaTypes
  <2> QED BY <1>4, <2>1
<1>same. \A b \in Threads : \A m \in Logs : Holds(b, m)' <=> Holds(b, m)
  <2> SUFFICES ASSUME NEW b \in Threads, NEW m \in Logs PROVE Holds(b, m)' <=> Holds(b, m)
    OBVIOUS
  <2>0. m # 0
    BY <1>nat DEF Logs
  <2>1. CASE b = a
    BY <1>2, <1>5, <1>6, <1>l, <2>0, <2>1 DEF Holds, HoldTo
  <2>2. CASE b # a
    <3>1. pc'[b] = pc[b] /\ done'[b] = done[b] /\ rotated'[b] = rotated[b]
      BY <1>2, <1>5, <1>6, <2>2, Who
    <3> QED BY <3>1 DEF Holds, HoldTo
  <2> QED BY <2>1, <2>2
<1>types. XaTypes'
  <2>1. pc' \in [Actors -> TrxLabels \cup BgLabels]
    BY <1>1, <1>2, GotoType DEF RequestNotify, TrxLabels, FlusherLabels, BgLabels, Marking, CallDone
  <2> QED BY <1>1, <1>3, <2>1, <1>5, <1>6, <1>7 DEF XaTypes
<1>labels. LabelsOk'
  BY <1>1, <1>2, Who DEF LabelsOk, TrxLabels, FlusherLabels, BgLabels, Marking
<1>locks. LocksOk'
  <2>1. Within(LogHolders) /\ Within({"order"})
    BY <1>2, <1>3 DEF Within, LogHolders
  <2> QED BY <1>1, <1>3, <2>1, LocksFrame DEF lockVars
<1>groups. GroupsOk'
  <2>1. Within(Leading) /\ Within({"follow"})
    BY <1>2, <1>3 DEF Within, Leading
  <2>2. group \in [Threads -> Seq(Trx)]
    BY <1>1 DEF XaTypes
  <2> QED BY <1>1, <1>3, <2>1, <2>2, GroupsFrame
<1>rotated. RotatedOk'
  <2> SUFFICES ASSUME NEW b \in Threads
               PROVE  /\ rotated'[b] # 0 => pc'[b] \in {"rotate_index", "rotate_list", "next_stage", "order",
                                                       "checkpoint", "request", "notify"}
                      /\ pc'[b] \in {"rotate_index", "rotate_list"} => rotated'[b] = current
                      /\ pc'[b] = "next_stage" => rotated'[b] \in {0, current - 1}
                      /\ pc'[b] \in {"order", "checkpoint", "request", "notify"} => rotated'[b] < current
                      /\ pc'[b] \in Requesting => rotated'[b] # 0
                      /\ pc'[b] \in {"rotate", "rotate_index"} => current < MaxLogs
    BY <1>3 DEF RotatedOk
  <2>1. CASE b = a
    BY <1>2, <1>6, <2>1 DEF Requesting
  <2>2. CASE b # a
    <3>1. pc'[b] = pc[b] /\ rotated'[b] = rotated[b]
      BY <1>2, <1>6, <2>2, Who
    <3> QED BY <1>1, <3>1 DEF RotatedOk
  <2> QED BY <2>1, <2>2
<1>index. IndexOk'
  <2>1. Kept({"rotate_list"})
    BY <1>2, <1>3 DEF Kept
  <2> QED BY <1>1, <1>3, <2>1, IndexFrame
<1>synced. SyncedOk'
  <2>1. Kept({"sync"})
    BY <1>2, <1>3 DEF Kept
  <2> QED BY <1>1, <1>3, <2>1, SyncedFrame
<1>disks. DisksOk'
  BY <1>1, <1>3, DisksFrame
<1>trxs. TrxsOk'
  <2> SUFFICES ASSUME NEW u \in Trx PROVE TrxOk(u)'
    BY DEF TrxsOk
  <2>1. TrxOk(u) /\ u \in Actors
    BY <1>1, Who DEF TrxsOk
  <2>2. CASE u # a
    BY <1>2, <1>3, <2>1, <2>2, TrxFrame
  <2>3. CASE u = a
    BY <1>2, <1>3, <2>1, <2>3 DEF TrxOk, InBinlog, Durable, InEngine, Requesting, Marking
  <2> QED BY <2>2, <2>3
<1>members. MembersOk'
  <2>1. ASSUME NEW b \in Threads, NEW u \in Range(group[b]) PROVE MemberOk(b, u)'
    <3>1. MemberOk(b, u) /\ pc[b] \in Leading
      BY <1>1 DEF MembersOk, GroupsOk
    <3>2. b # a
      BY <1>2, <3>1 DEF Leading
    <3>3. pc'[b] = pc[b] /\ rotated'[b] = rotated[b]
      BY <1>2, <1>6, <3>2, Who
    <3> QED BY <1>3, <3>1, <3>3 DEF MemberOk, InFile, InBinlog, Durable, InEngine, FileOf
  <2>2. Running' <=> Running
    BY <1>2, Who DEF Running, At
  <2> QED BY <1>1, <1>3, <2>1, <2>2 DEF MembersOk, InBinlog, InEngine
<1>request. RequestOk'
  <2>1. ASSUME NEW b \in Threads
        PROVE  /\ pc'[b] = "checkpoint" => CommitBy(rotated'[b], Len(elog))
               /\ pc'[b] = "request" => /\ CommitBy(rotated'[b], req'[b].lsn) /\ req'[b].lsn <= Len(elog)
                                        /\ req'[b].flush_lsn <= flushed
    <3>1. CASE b = a
      BY <1>2, <3>1
    <3>2. CASE b # a
      <4>1. pc'[b] = pc[b] /\ rotated'[b] = rotated[b] /\ req'[b] = req[b]
        BY <1>2, <1>6, <1>7, <3>2, Who
      <4> QED BY <1>1, <4>1 DEF RequestOk
    <3> QED BY <3>1, <3>2
  <2>2. \A i \in DOMAIN log_requests :
          CommitBy(log_requests[i].log, log_requests[i].lsn) /\ log_requests[i].lsn <= Len(elog)
    BY <1>1 DEF RequestOk
  <2> QED BY <1>3, <2>1, <2>2 DEF RequestOk, CommitBy, InFile
<1>flush. FlushOk'
  BY <1>1, <1>3, FlushFrame
<1>checks. CheckpointsOk'
  BY <1>1, <1>3, CheckpointsFrame
<1>last. LastOk'
  <2>1. Kept({"rotate_index", "done_lock", "done_write", "crashed"})
    BY <1>2, <1>3 DEF Kept
  <2> QED BY <1>1, <1>3, <2>1, LastFrame
<1>dones. DoneOk'
  <2> SUFFICES ASSUME NEW b \in Actors, pc'[b] \in Marking
               PROVE  /\ done'[b].log \in 1..current
                      /\ b = BG => done'[b].to = "idle" /\ done'[b].log < current
                      /\ b = FLUSHER => done'[b].to = "end"
                      /\ b \in Trx => done'[b].to \in {"unlog", "end"}
                      /\ b \in Trx /\ done'[b].to = "end" => b \in NeedUnlog /\ InFile(b, done'[b].log)
    BY <1>3 DEF DoneOk, InFile
  <2>1. CASE b = a
    <3>1. l \in 1..current /\ b # BG
      BY <1>nat, <1>l, <2>1, Who DEF Logs
    <3>2. b \in Trx => b # FLUSHER
      BY Who
    <3> QED BY <1>5, <2>1, <3>1, <3>2 DEF HoldTo
  <2>2. CASE b # a
    <3>1. pc'[b] = pc[b] /\ done'[b] = done[b]
      BY <1>2, <1>5, <2>2
    <3> QED BY <1>1, <3>1 DEF DoneOk
  <2> QED BY <2>1, <2>2
<1>hold. HoldOk'
  <2>1. \A b, d \in Threads, m \in Logs : Holds(b, m)' /\ Holds(d, m)' => b = d
    BY <1>1, <1>same DEF HoldOk
  <2>2. ASSUME NEW b \in Threads, pc'[b] = "done", done'[b].to = HoldTo(b) PROVE done'[b].log < current
    <3>1. CASE b = a
      BY <1>5, <1>l, <3>1
    <3>2. CASE b # a
      BY <1>1, <1>2, <1>5, <2>2, <3>2, Who DEF HoldOk
    <3> QED BY <3>1, <3>2
  <2> QED BY <1>3, <2>1, <2>2 DEF HoldOk, HoldTo
<1>tokens. TokensOk'
  <2>2. PlacesOk(at, q, r)'
    <3>1. ListsOk(q, r)'
      <4>1. ListsOk(q, r)
        BY <1>at DEF PlacesOk
      <4>2. \A b \in Threads : to_notify[b] # <<>> => pc'[b] = "notify"
        BY <1>2, <4>1, Who DEF ListsOk
      <4>3. IsChain(q, bg_queue)' /\ IsChain(r, bg)'
        BY <1>3, <4>1 DEF ListsOk, IsChain
      <4> QED BY <1>3, <4>1, <4>2, <4>3 DEF ListsOk, Distinct
    <3>2. ASSUME NEW m \in Logs PROVE PlaceOk(at, q, r, m)'
      <4>1. PlaceOk(at, q, r, m)
        BY <1>at DEF PlacesOk
      <4>2. \A b \in Threads : pc'[b] = "request" /\ rotated'[b] = m <=> pc[b] = "request" /\ rotated[b] = m
        <5> SUFFICES ASSUME NEW b \in Threads PROVE pc'[b] = "request" /\ rotated'[b] = m <=> pc[b] = "request" /\ rotated[b] = m
          OBVIOUS
        <5>1. CASE b = a
          BY <1>2, <5>1
        <5>2. CASE b # a
          BY <1>2, <1>6, <5>2, Who
        <5> QED BY <5>1, <5>2
      <4>3. pc'[BG] = pc[BG] /\ done'[BG] = done[BG]
        BY <1>2, <1>5, Who
      <4> QED BY <1>3, <4>1, <4>2, <4>3 DEF PlaceOk
    <3>3. ASSUME NEW b \in Threads, rotated'[b] # 0, pc'[b] \notin {"request", "notify"} PROVE at[rotated'[b]] = "none"
      <4>1. b # a
        BY <1>6, <3>3
      <4> QED BY <1>at, <1>2, <1>6, <3>3, <4>1, Who DEF PlacesOk
    <3> QED BY <1>3, <3>1, <3>2, <3>3 DEF PlacesOk
  <2>3. CountsOk(at)'
    <3>1. ASSUME NEW t \in NeedUnlog PROVE Counted(t)' <=> Counted(t)
      <4>0. t \in Trx /\ t \in Actors
        BY BinlogXaAssumption, Who
      <4>1. CASE t = a
        <5>1. Counted(t)
          BY <1>2, <4>1 DEF Counted, CountedLabels
        <5>2. done'[t].to = "unlog"
          BY <1>5, <4>0, <4>1, Who DEF HoldTo
        <5>3. Counted(t)'
          BY <1>2, <4>1, <5>2 DEF Counted, Marking
        <5> QED BY <5>1, <5>3
      <4>2. CASE t # a
        <5>1. pc'[t] = pc[t] /\ done'[t] = done[t]
          BY <1>2, <1>5, <4>0, <4>2
        <5>2. \A b \in Threads : pc'[b] \notin {"write", "sync"} <=> pc[b] \notin {"write", "sync"}
          BY <1>2, Who
        <5> QED BY <1>3, <5>1, <5>2 DEF Counted
      <4> QED BY <4>1, <4>2
    <3> QED BY <1>3, <1>at, <1>same, <3>1, CountsMove
  <2>4. LeftOk(at)'
    <3>1. Running
      BY <1>1, <1>2, Who DEF Running, At, LabelsOk
    <3>3. \A b \in Threads : rotated[b] # 0 /\ pc[b] \in {"next_stage", "order", "checkpoint"} =>
               rotated'[b] = rotated[b] /\ pc'[b] \in {"next_stage", "order", "checkpoint"}
      BY <1>2, <1>6, Who
    <3> QED BY <1>1, <1>3, <1>at, <1>donelog, <3>1, <3>3, LeftMove
  <2> QED BY <1>at, <2>2, <2>3, <2>4 DEF TokensOk
<1> QED BY <1>types, <1>labels, <1>locks, <1>groups, <1>rotated, <1>index, <1>synced, <1>disks, <1>trxs,
     <1>members, <1>request, <1>flush, <1>checks, <1>last, <1>dones, <1>hold, <1>tokens DEF XaInv

\* The group is committed in order: when a leader that rotated goes on
\* to the checkpoint request, every transaction of the rotated file has
\* its commit record.
LEMMA RunCommitOrderedStep ==
    ASSUME XaInv, NEW a \in Threads, RunCommitOrdered(a), UNCHANGED sync_period
    PROVE  XaInv'
<1>1. /\ XaTypes /\ LabelsOk /\ LocksOk /\ GroupsOk /\ RotatedOk /\ IndexOk /\ SyncedOk /\ DisksOk /\ TrxsOk
      /\ MembersOk /\ RequestOk /\ FlushOk /\ CheckpointsOk /\ LastOk /\ DoneOk /\ HoldOk /\ TokensOk
  BY DEF XaInv
<1>3. UNCHANGED <<flushed, blog, synced, first, indexed, inuse, current, head, xid_count, LOCK_log,
                  bg_queue, next_in_queue, log_requests, rotated, done, req, to_notify, flush_notify, bg,
                  lost, crashes>>
  BY DEF RunCommitOrdered, diskVars, listVars, lockVars, bgVars, ctlVars
<1>nat. /\ current \in Nat /\ head \in Nat /\ indexed \in Nat /\ first \in Nat /\ MaxLogs \in Nat
        /\ 1 <= head /\ head <= current /\ current <= MaxLogs
  BY <1>1, DiskTypes
<1>at. PICK at \in [Logs -> Places], q \in Seq(Logs), r \in Seq(Logs) :
         PlacesOk(at, q, r) /\ CountsOk(at) /\ LeftOk(at)
  BY <1>1 DEF TokensOk
<1>a. pc[a] = "order" /\ a \in Actors /\ \A b \in Actors : b # a => pc[b] # "order"
  <2>1. pc[a] = "order" /\ a \in Actors
    BY Who DEF RunCommitOrdered, At
  <2> QED BY <1>1, <2>1, OnlyOrder
<1>run. Running
  BY <1>1, <1>a, Who DEF Running, At, LabelsOk
<1>g. PICK g \in Seq(Trx) : g = group[a]
  BY <1>1, GroupTypes
<1>gd. /\ Distinct(g) /\ Range(g) \subseteq Trx
       /\ \A t \in Range(g) : MemberOk(a, t) /\ InBinlog(t) /\ (t # a => pc[t] = "follow")
       /\ a \in Trx => a \in Range(g)
  <2>1. Distinct(g)
    BY <1>1, <1>g DEF GroupsOk, Distinct
  <2>2. Range(g) \subseteq Trx
    BY RangeFacts
  <2>3. \A t \in Range(g) : MemberOk(a, t) /\ (t # a => pc[t] = "follow")
    BY <1>1, <1>g DEF MembersOk, GroupsOk
  <2>4. \A t \in Range(g) : InBinlog(t)
    BY <1>a, <2>3 DEF MemberOk
  <2>5. a \in Trx => a \in Range(g)
    BY <1>1, <1>a, <1>g DEF GroupsOk, Leading
  <2> QED BY <2>1, <2>2, <2>3, <2>4, <2>5
<1>uniq. \A b \in Threads : \A t \in Range(group[b]) : b # a => t \notin Range(g)
  <2> SUFFICES ASSUME NEW b \in Threads, NEW t \in Range(group[b]), b # a, t \in Range(g) PROVE FALSE
    OBVIOUS
  <2>1. PICK i \in DOMAIN group[b] : group[b][i] = t
    BY DEF Range
  <2>2. PICK j \in DOMAIN group[a] : group[a][j] = t
    BY <1>g DEF Range
  <2> QED BY <1>1, <2>1, <2>2 DEF GroupsOk
<1>pcs. /\ pc' \in [Actors -> TrxLabels \cup BgLabels] /\ pc'[a] = AfterOrder(a) /\ AfterOrder(a) \in {"checkpoint", "unlog"}
        /\ \A b \in Actors : b # a /\ b \in Range(g) => pc[b] = "follow" /\ pc'[b] = "unlog"
        /\ \A b \in Actors : b # a /\ b \notin Range(g) => pc'[b] = pc[b]
  <2>1. pc' = [u \in Actors |-> IF u = a THEN AfterOrder(a) ELSE IF u \in Range(g) THEN "unlog" ELSE pc[u]]
    BY <1>g DEF RunCommitOrdered
  <2>2. pc \in [Actors -> TrxLabels \cup BgLabels]
    BY <1>1 DEF XaTypes
  <2>3. AfterOrder(a) \in {"checkpoint", "unlog"}
    BY DEF AfterOrder
  <2>4. {"checkpoint", "unlog"} \subseteq TrxLabels \cup BgLabels
    BY DEF TrxLabels, FlusherLabels
  <2> QED BY <1>a, <1>gd, <2>1, <2>2, <2>3, <2>4
<1>2. \A b \in Actors : pc'[b] = pc[b] \/ (pc[b] \in {"order", "follow"} /\ pc'[b] \in {"checkpoint", "unlog"})
  BY <1>a, <1>pcs
<1>follow. \A b \in Threads : b # a /\ b \in Range(g) => rotated[b] = 0
  BY <1>1, <1>pcs, Who DEF RotatedOk
<1>s. PICK s : s = [i \in DOMAIN g |-> EngineRecord("commit", g[i])]
  OBVIOUS
<1>4. elog' = elog \o s /\ LOCK_after_binlog_sync' = NONE /\ group' = [group EXCEPT ![a] = <<>>]
  BY <1>g, <1>s DEF RunCommitOrdered
<1>sf. /\ s \in Seq(EngineRecords) /\ Distinct(s)
       /\ \A k, t : EngineRecord(k, t) \in Range(s) <=> k = "commit" /\ t \in Range(g)
  <2>1. s \in Seq(EngineRecords) /\ (Distinct(g) => Distinct(s))
    BY <1>s, CommitsFacts
  <2>2. \A k, t : EngineRecord(k, t) \in Range(s) <=> k = "commit" /\ t \in Range(g)
    BY <1>s, CommitsFacts
  <2> QED BY <1>gd, <2>1, <2>2
<1>5. /\ elog' \in Seq(EngineRecords) /\ Extends(elog, elog') /\ Len(elog) <= Len(elog')
      /\ \A k, u : InEngine(k, u)' <=> InEngine(k, u) \/ (k = "commit" /\ u \in Range(g))
      /\ Distinct(elog')
  <2>1. elog' \in Seq(EngineRecords) /\ Extends(elog, elog') /\ Len(elog) <= Len(elog')
    BY <1>1, <1>4, <1>sf, ElogGrows
  <2>2. \A k, u : InEngine(k, u)' <=> InEngine(k, u) \/ EngineRecord(k, u) \in Range(s)
    BY <1>1, <1>4, <1>sf, ElogGrows
  <2>3. Range(elog) \cap Range(s) = {}
    <3> SUFFICES ASSUME NEW x, x \in Range(elog), x \in Range(s) PROVE FALSE
      OBVIOUS
    <3>1. x \in EngineRecords
      BY <1>sf, RangeFacts
    <3>2. PICK k, t : x = EngineRecord(k, t)
      BY <3>1 DEF EngineRecords, EngineRecord
    <3>3. k = "commit" /\ t \in Range(g) /\ InEngine(k, t)
      BY <1>sf, <3>2 DEF InEngine
    <3> QED BY <1>gd, <3>3 DEF MemberOk
  <2>4. Distinct(elog) /\ Distinct(s) /\ Range(elog) \cap Range(s) = {} => Distinct(elog')
    BY <1>1, <1>4, <1>sf, ElogGrows
  <2> QED BY <1>1, <1>sf, <2>1, <2>2, <2>3, <2>4 DEF DisksOk
<1>6. Len(elog) \in Nat /\ Len(elog') \in Nat /\ flushed \in Nat /\ flushed <= Len(elog) /\ DOMAIN elog' = 1..Len(elog')
  <2>1. Len(elog') \in Nat /\ DOMAIN elog' = 1..Len(elog')
    BY <1>5, LenProperties
  <2> QED BY <1>1, <2>1, DiskTypes
<1>gr. /\ group' \in [Threads -> Seq(Trx)] /\ group'[a] = <<>> /\ Range(group'[a]) = {}
       /\ \A b \in Threads : b # a => group'[b] = group[b]
  <2>1. group \in [Threads -> Seq(Trx)] /\ <<>> \in Seq(Trx)
    BY <1>1 DEF XaTypes
  <2>2. group' \in [Threads -> Seq(Trx)] /\ group'[a] = <<>> /\ \A b \in Threads : b # a => group'[b] = group[b]
    BY <1>4, <2>1
  <2> QED BY <2>2 DEF Range
<1>types. XaTypes'
  <2>1. flushed' \in 0..Len(elog')
    BY <1>3, <1>5, <1>6
  <2> QED BY <1>1, <1>3, <1>5, <1>pcs, <1>gr, <2>1 DEF XaTypes
<1>grow. /\ \A k, u : Durable(k, u) => Durable(k, u)'
         /\ \A l : Stays(l) /\ (DoneLog(l) => DoneLog(l)')
         /\ Len(elog) <= Len(elog') /\ flushed <= flushed'
  <2>1. flushed <= flushed' /\ \A l : blog'[l] = blog[l]
    BY <1>3, <1>6
  <2> QED BY <1>1, <1>5, <1>types, <2>1, Grows
<1>files. /\ \A u : InBinlog(u)' <=> InBinlog(u)
          /\ \A u : \A l \in Logs : InFile(u, l)' <=> InFile(u, l)
  BY <1>3 DEF InBinlog, InFile
<1>labels. LabelsOk'
  <2> SUFFICES ASSUME NEW b \in Actors PROVE /\ b \in Trx => pc'[b] \in TrxLabels
                                             /\ b = FLUSHER => pc'[b] \in FlusherLabels
                                             /\ b = BG => pc'[b] \in BgLabels
                                             /\ pc'[b] = "crashed" <=> pc'[BG] = "crashed"
    BY Who DEF LabelsOk
  <2>1. BG \notin Range(g) /\ BG # a /\ FLUSHER \notin Range(g)
    BY <1>gd, Who
  <2>2. pc'[BG] = pc[BG] /\ pc[BG] # "crashed"
    BY <1>1, <1>a, <1>pcs, <2>1, Who DEF LabelsOk
  <2>3. CASE pc'[b] = pc[b]
    BY <1>1, <2>2, <2>3 DEF LabelsOk
  <2>4. CASE pc'[b] \in {"checkpoint", "unlog"} /\ b # BG
    BY <2>2, <2>4 DEF TrxLabels, FlusherLabels
  <2> QED BY <1>2, <2>2, <2>3, <2>4
<1>locks. LocksOk'
  <2>1. Within(LogHolders)
    BY <1>2 DEF Within, LogHolders
  <2>2. \A b \in Actors : pc'[b] # "order"
    BY <1>a, <1>2, <1>pcs
  <2> QED BY <1>1, <1>3, <1>4, <2>1, <2>2, Who DEF LocksOk, Within
<1>groups. GroupsOk'
  <2>1. ASSUME NEW b \in Threads, NEW t \in Range(group'[b])
        PROVE  b \in Trx /\ pc'[b] \in Leading /\ (t = b \/ pc'[t] = "follow")
    <3>1. b # a /\ group'[b] = group[b]
      BY <1>gr
    <3>2. b \in Trx /\ pc[b] \in Leading /\ (t = b \/ pc[t] = "follow")
      BY <1>1, <3>1 DEF GroupsOk
    <3>3. t \notin Range(g) /\ t \in Trx
      BY <1>1, <1>uniq, <3>1, GroupTypes
    <3>4. b \notin Range(g)
      BY <1>pcs, <3>1, <3>2, Who DEF Leading
    <3>5. pc'[b] = pc[b]
      BY <1>pcs, <3>1, <3>4, Who
    <3>6. t # b => t # a
      BY <1>a, <3>2
    <3>7. t # b => pc'[t] = pc[t]
      BY <1>pcs, <3>3, <3>6, Who
    <3> QED BY <3>2, <3>5, <3>7
  <2>2. \A b, d \in Threads : \A i \in DOMAIN group'[b], j \in DOMAIN group'[d] :
          group'[b][i] = group'[d][j] => b = d /\ i = j
    <3> SUFFICES ASSUME NEW b \in Threads, NEW d \in Threads, NEW i \in DOMAIN group'[b], NEW j \in DOMAIN group'[d],
                        group'[b][i] = group'[d][j]
                 PROVE  b = d /\ i = j
      OBVIOUS
    <3>1. b # a /\ d # a
      BY <1>gr DEF Range
    <3>2. group'[b] = group[b] /\ group'[d] = group[d]
      BY <1>gr, <3>1
    <3>3. i \in DOMAIN group[b] /\ j \in DOMAIN group[d] /\ group[b][i] = group[d][j]
      BY <3>2
    <3> QED BY <1>1, <3>3 DEF GroupsOk
  <2>3. ASSUME NEW b \in Trx, pc'[b] \in Leading PROVE b \in Range(group'[b])
    <3>1. b # a /\ pc'[b] = pc[b] /\ b \in Threads
      BY <1>2, <1>pcs, <2>3, Who DEF Leading
    <3> QED BY <1>1, <1>gr, <2>3, <3>1 DEF GroupsOk
  <2> QED BY <2>1, <2>2, <2>3 DEF GroupsOk
<1>rotated. RotatedOk'
  <2> SUFFICES ASSUME NEW b \in Threads
               PROVE  /\ rotated[b] # 0 => pc'[b] \in {"rotate_index", "rotate_list", "next_stage", "order",
                                                       "checkpoint", "request", "notify"}
                      /\ pc'[b] \in {"rotate_index", "rotate_list"} => rotated[b] = current
                      /\ pc'[b] = "next_stage" => rotated[b] \in {0, current - 1}
                      /\ pc'[b] \in {"order", "checkpoint", "request", "notify"} => rotated[b] < current
                      /\ pc'[b] \in Requesting => rotated[b] # 0
                      /\ pc'[b] \in {"rotate", "rotate_index"} => current < MaxLogs
    BY <1>3 DEF RotatedOk
  <2>1. CASE b = a
    <3>1. rotated[a] < current
      BY <1>1, <1>a DEF RotatedOk
    <3> QED BY <1>pcs, <2>1, <3>1 DEF AfterOrder, Requesting
  <2>2. CASE b # a /\ b \in Range(g)
    BY <1>pcs, <1>follow, <2>2, Who DEF Requesting
  <2>3. CASE b # a /\ b \notin Range(g)
    <3>1. pc'[b] = pc[b]
      BY <1>pcs, <2>3, Who
    <3> QED BY <1>1, <3>1 DEF RotatedOk
  <2> QED BY <2>1, <2>2, <2>3
<1>index. IndexOk'
  <2>1. Kept({"rotate_list"})
    BY <1>2, <1>3 DEF Kept
  <2> QED BY <1>1, <1>3, <2>1, IndexFrame
<1>synced. SyncedOk'
  <2>1. \A b \in Threads : pc[b] = "sync" => pc'[b] = "sync" /\ group'[b] = group[b]
    BY <1>a, <1>2, <1>gr, Who
  <2> QED BY <1>1, <1>3, <2>1 DEF SyncedOk
<1>disks. DisksOk'
  <2>1. ASSUME NEW u \in Trx PROVE DiskOk(u)'
    <3>1. DiskOk(u)
      BY <1>1 DEF DisksOk
    <3>2. u \in Range(g) => InBinlog(u)
      BY <1>gd
    <3> QED BY <1>5, <1>grow, <1>files, <3>1, <3>2 DEF DiskOk
  <2> QED BY <1>5, <2>1 DEF DisksOk, Distinct
<1>trxs. TrxsOk'
  <2> SUFFICES ASSUME NEW u \in Trx PROVE TrxOk(u)'
    BY DEF TrxsOk
  <2>1. TrxOk(u) /\ u \in Actors
    BY <1>1, Who DEF TrxsOk
  <2>2. CASE u \in Range(g)
    <3>1. InEngine("commit", u)' /\ InBinlog(u)' /\ pc'[u] \in {"checkpoint", "unlog"}
      BY <1>5, <1>pcs, <1>gd, <1>files, <2>1, <2>2
    <3> QED BY <3>1 DEF TrxOk
  <2>3. CASE u \notin Range(g)
    <3>1. pc'[u] = pc[u]
      BY <1>pcs, <1>gd, <2>1, <2>3
    <3>2. \A k : InEngine(k, u)' <=> InEngine(k, u)
      BY <1>5, <2>3
    <3> QED BY <1>files, <1>grow, <2>1, <3>1, <3>2 DEF TrxOk
  <2> QED BY <2>2, <2>3
<1>members. MembersOk'
  <2>1. ASSUME NEW b \in Threads, NEW u \in Range(group'[b]) PROVE MemberOk(b, u)'
    <3>1. b # a /\ group'[b] = group[b] /\ u \in Range(group[b])
      BY <1>gr
    <3>2. MemberOk(b, u) /\ pc[b] \in Leading /\ u \notin Range(g)
      BY <1>1, <1>uniq, <3>1 DEF MembersOk, GroupsOk
    <3>3. pc'[b] = pc[b]
      BY <1>2, <1>a, <3>1, <3>2, Who DEF Leading
    <3>4. \A k : InEngine(k, u)' <=> InEngine(k, u)
      BY <1>5, <3>2
    <3>5. InBinlog(u)' <=> InBinlog(u)
      BY <1>files
    <3>6. Durable("prepare", u)'
      BY <1>grow, <3>2 DEF MemberOk
    <3>7. pc[b] \in Leading \ {"write", "order"} => InFile(u, FileOf(b))'
      BY <1>3, <3>2 DEF MemberOk, InFile, FileOf
    <3> QED BY <3>2, <3>3, <3>4, <3>5, <3>6, <3>7 DEF MemberOk
  <2>2. ASSUME NEW t \in Trx, InBinlog(t)', ~InEngine("commit", t)' PROVE \E b \in Threads : t \in Range(group'[b])
    <3>1. InBinlog(t) /\ ~InEngine("commit", t) /\ t \notin Range(g)
      BY <1>5, <1>files, <2>2
    <3>2. PICK b \in Threads : t \in Range(group[b])
      BY <1>1, <1>run, <3>1 DEF MembersOk
    <3>3. b # a
      BY <1>g, <3>1, <3>2
    <3> QED BY <1>gr, <3>2, <3>3
  <2> QED BY <2>1, <2>2 DEF MembersOk
<1>request. RequestOk'
  <2>1. Kept({"request"})
    BY <1>2 DEF Kept
  <2>2. ASSUME NEW b \in Threads, pc'[b] = "checkpoint", pc[b] # "checkpoint" PROVE CommitBy(rotated[b], Len(elog))'
    <3>1. b = a /\ rotated[a] # 0
      BY <1>pcs, <2>2, Who DEF AfterOrder
    <3>2. rotated[a] \in Logs /\ rotated[a] < current
      BY <1>1, <1>a, <3>1, RotatedLog DEF RotatedOk
    <3>3. ASSUME NEW t \in Trx, InFile(t, rotated[a]) PROVE InEngine("commit", t)'
      <4>1. CASE InEngine("commit", t)
        BY <1>5, <4>1
      <4>2. CASE ~InEngine("commit", t)
        <5>1. InBinlog(t)
          BY <3>2, <3>3 DEF InBinlog, InFile
        <5>2. PICK d \in Threads : t \in Range(group[d])
          BY <1>1, <1>run, <4>2, <5>1 DEF MembersOk
        <5>3. CASE d = a
          BY <1>5, <1>g, <5>2, <5>3
        <5>4. CASE d # a
          <6>1. MemberOk(d, t) /\ pc[d] \in Leading /\ pc[d] # "order"
            BY <1>1, <1>a, <5>2, <5>4, Who DEF MembersOk, GroupsOk
          <6>2. InFile(t, FileOf(d))
            BY <5>1, <6>1 DEF MemberOk
          <6>3. FileOf(d) \in Logs
            BY <1>1, RotatedLog, DiskTypes DEF FileOf
          <6>4. FileOf(d) = rotated[a]
            BY <1>1, <3>2, <3>3, <6>2, <6>3 DEF DisksOk, DiskOk
          <6>5. rotated[d] = rotated[a]
            BY <1>nat, <3>2, <6>4 DEF FileOf, Logs
          <6>6. Holds(d, rotated[a]) /\ Holds(a, rotated[a])
            BY <6>5 DEF Holds
          <6> QED BY <1>1, <3>2, <5>4, <6>6 DEF HoldOk
        <5> QED BY <5>3, <5>4
      <4> QED BY <4>1, <4>2
    <3>4. ASSUME NEW t \in Trx, InFile(t, rotated[b])'
          PROVE  \E i \in DOMAIN elog' : i <= Len(elog') /\ elog'[i] = EngineRecord("commit", t)
      <4>1. InFile(t, rotated[a])
        BY <1>3, <3>1, <3>4 DEF InFile
      <4>2. InEngine("commit", t)'
        BY <3>3, <4>1
      <4> QED BY <1>6, <4>2 DEF InEngine, Range
    <3> QED BY <3>4 DEF CommitBy
  <2> QED BY <1>1, <1>3, <1>types, <1>grow, <2>1, <2>2, RequestMove, ListLogs
<1>flush. FlushOk'
  BY <1>1, <1>3, FlushFrame
<1>checks. CheckpointsOk'
  BY <1>1, <1>3, <1>grow, CheckpointsGrow
<1>last. LastOk'
  <2>1. Kept({"rotate_index", "done_lock", "done_write", "crashed"})
    BY <1>2, <1>3 DEF Kept
  <2> QED BY <1>1, <1>3, <2>1, LastFrame
<1>dones. DoneOk'
  <2>1. Within(Marking)
    BY <1>2, <1>3 DEF Within, Marking
  <2> QED BY <1>1, <1>3, <2>1, DoneFrame
<1>hold. HoldOk'
  <2>1. Kept({"done"})
    BY <1>2, <1>3 DEF Kept
  <2> QED BY <1>1, <1>3, <2>1, HoldFrame
<1>tokens. TokensOk'
  <2>1. PlacesOk(at, q, r)'
    <3>1. Kept({"request", "notify", "done"})
      BY <1>2 DEF Kept
    <3> QED BY <1>3, <1>at, <3>1, PlacesFrame DEF bgVars
  <2>2. ASSUME NEW t \in NeedUnlog PROVE Counted(t)' <=> Counted(t)
    <3>0. t \in Trx /\ t \in Actors
      BY BinlogXaAssumption, Who
    <3>1. CASE t \in Range(g)
      <4>1. Counted(t)
        <5>1. CASE t = a
          BY <1>a, <5>1 DEF Counted, CountedLabels
        <5>2. CASE t # a
          BY <1>a, <1>g, <1>pcs, <3>0, <3>1, <5>2 DEF Counted
        <5> QED BY <5>1, <5>2
      <4>2. Counted(t)'
        BY <1>pcs, <3>0, <3>1 DEF Counted, CountedLabels
      <4> QED BY <4>1, <4>2
    <3>2. CASE t \notin Range(g)
      <4>1. pc'[t] = pc[t]
        BY <1>pcs, <1>gd, <3>0, <3>2
      <4>2. \A b \in Threads : t \in Range(group'[b]) <=> t \in Range(group[b])
        BY <1>g, <1>gr, <3>2
      <4>3. \A b \in Threads : pc'[b] \notin {"write", "sync"} <=> pc[b] \notin {"write", "sync"}
        BY <1>2, Who
      <4> QED BY <1>3, <4>1, <4>2, <4>3 DEF Counted
    <3> QED BY <3>1, <3>2
  <2>3. CountsOk(at)'
    <3>1. Kept({"done"})
      BY <1>2 DEF Kept
    <3>2. \A l \in Logs : (\E b \in Threads : Holds(b, l)') <=> (\E b \in Threads : Holds(b, l))
      BY <1>3, <3>1, HoldsFrame
    <3> QED BY <1>3, <1>at, <2>2, <3>2, CountsMove
  <2>4. LeftOk(at)'
    <3>1. \A b \in Threads : rotated[b] # 0 /\ pc[b] \in {"next_stage", "order", "checkpoint"} =>
               rotated'[b] = rotated[b] /\ pc'[b] \in {"next_stage", "order", "checkpoint"}
      BY <1>3, <1>2, <1>a, <1>pcs, Who DEF AfterOrder
    <3> QED BY <1>1, <1>3, <1>at, <1>run, <1>grow, <3>1, LeftMove
  <2> QED BY <1>at, <2>1, <2>3, <2>4 DEF TokensOk
<1> QED BY <1>types, <1>labels, <1>locks, <1>groups, <1>rotated, <1>index, <1>synced, <1>disks, <1>trxs,
     <1>members, <1>request, <1>flush, <1>checks, <1>last, <1>dones, <1>hold, <1>tokens DEF XaInv

\* A leader takes everyone who is queued: all are prepared and none is in the binlog.
LEMMA LeadGroupStep ==
    ASSUME XaInv, NEW a \in Threads, Lead(a), pc[a] = "queued", UNCHANGED sync_period
    PROVE  XaInv'
<1>1. /\ XaTypes /\ LabelsOk /\ LocksOk /\ GroupsOk /\ RotatedOk /\ IndexOk /\ SyncedOk /\ DisksOk /\ TrxsOk
      /\ MembersOk /\ RequestOk /\ FlushOk /\ CheckpointsOk /\ LastOk /\ DoneOk /\ HoldOk /\ TokensOk
  BY DEF XaInv
<1>a. pc[a] = "queued" /\ a \in Trx /\ a \in Actors
  <2>1. a # FLUSHER
    BY <1>1 DEF LabelsOk, FlusherLabels
  <2> QED BY <2>1, Who
<1>3. UNCHANGED <<elog, flushed, blog, synced, first, indexed, inuse, current, head, xid_count,
                  LOCK_after_binlog_sync, bg_queue, next_in_queue, log_requests, rotated, done, req,
                  to_notify, flush_notify, bg, lost, crashes>>
  <2>1. rotated \in [Threads -> 0..MaxLogs]
    BY <1>1 DEF XaTypes
  <2>2. rotated[a] = 0
    BY <1>1, <1>a DEF RotatedOk
  <2>3. rotated' = rotated
    BY <2>1, <2>2 DEF Lead
  <2> QED BY <1>a, <2>3 DEF Lead, diskVars, listVars, lockVars, bgVars, ctlVars, At
<1>m. PICK M \in SUBSET Trx : M = {t \in Trx : pc[t] = "queued"}
  OBVIOUS
<1>4. /\ LOCK_log = NONE /\ LOCK_log' = a /\ group' = [group EXCEPT ![a] = SetToSeq(M)]
      /\ pc' = [u \in Actors |-> IF u = a THEN "write" ELSE IF u \in M THEN "follow" ELSE pc[u]]
  BY <1>a, <1>m DEF Lead, At
<1>g. PICK g \in Seq(Trx) : g = SetToSeq(M) /\ Range(g) = M /\ Distinct(g)
  <2>1. IsFiniteSet(M)
    BY GroupFinite
  <2>2. SetToSeq(M) \in Seq(M) /\ Range(SetToSeq(M)) = M /\ Distinct(SetToSeq(M))
    BY <2>1, EnumFacts
  <2>3. SetToSeq(M) \in Seq(Trx)
    BY <2>2
  <2> QED BY <2>2, <2>3
<1>gr. group' \in [Threads -> Seq(Trx)] /\ group'[a] = g /\ \A b \in Threads : b # a => group'[b] = group[b]
  <2>1. group \in [Threads -> Seq(Trx)]
    BY <1>1 DEF XaTypes
  <2> QED BY <1>4, <1>g, <2>1
<1>was. /\ \A t \in Range(group[a]) : FALSE
        /\ \A b \in Threads : \A t \in Range(group[b]) : pc[b] # "queued" /\ pc[t] # "queued" /\ t \notin M
  <2>1. ASSUME NEW b \in Threads, NEW t \in Range(group[b]) PROVE pc[b] # "queued" /\ pc[t] # "queued" /\ t \notin M
    BY <1>1, <1>m DEF GroupsOk, Leading
  <2> QED BY <1>a, <2>1
<1>pcs. /\ pc' \in [Actors -> TrxLabels \cup BgLabels] /\ pc'[a] = "write"
        /\ \A b \in Actors : b # a /\ b \in M => pc[b] = "queued" /\ pc'[b] = "follow"
        /\ \A b \in Actors : b # a /\ b \notin M => pc'[b] = pc[b] /\ pc[b] # "queued"
  <2>1. pc \in [Actors -> TrxLabels \cup BgLabels] /\ {"write", "follow"} \subseteq TrxLabels \cup BgLabels
    BY <1>1 DEF XaTypes, TrxLabels
  <2>2. pc[BG] # "queued" /\ pc[FLUSHER] # "queued"
    BY <1>1 DEF LabelsOk, BgLabels, FlusherLabels, Marking
  <2> QED BY <1>4, <1>a, <1>m, <2>1, <2>2, Who
<1>2. \A b \in Actors : pc'[b] = pc[b] \/ (pc[b] = "queued" /\ pc'[b] \in {"write", "follow"} /\ b \in M)
  BY <1>a, <1>m, <1>pcs
<1>types. XaTypes'
  BY <1>1, <1>3, <1>pcs, <1>gr DEF XaTypes
<1>labels. LabelsOk'
  <2> SUFFICES ASSUME NEW b \in Actors PROVE /\ b \in Trx => pc'[b] \in TrxLabels
                                             /\ b = FLUSHER => pc'[b] \in FlusherLabels
                                             /\ b = BG => pc'[b] \in BgLabels
                                             /\ pc'[b] = "crashed" <=> pc'[BG] = "crashed"
    BY Who DEF LabelsOk
  <2>1. pc'[BG] = pc[BG] /\ pc[BG] # "crashed"
    BY <1>1, <1>a, <1>2, Who DEF LabelsOk
  <2>2. CASE pc'[b] = pc[b]
    BY <1>1, <2>1, <2>2 DEF LabelsOk
  <2>3. CASE pc'[b] \in {"write", "follow"} /\ b \in Trx
    BY <2>1, <2>3, Who DEF TrxLabels
  <2> QED BY <1>2, <1>m, <2>2, <2>3
<1>locks. LocksOk'
  <2>1. \A b \in Actors : pc[b] \notin LogHolders
    BY <1>1, <1>4, Who DEF LocksOk
  <2>2. \A b \in Actors : pc'[b] \in LogHolders <=> b = a
    BY <1>pcs, <1>2, <2>1 DEF LogHolders
  <2>3. Within({"order"})
    BY <1>2 DEF Within
  <2> QED BY <1>1, <1>3, <1>4, <2>2, <2>3 DEF LocksOk, Within
<1>groups. GroupsOk'
  <2>1. ASSUME NEW b \in Threads, NEW t \in Range(group'[b])
        PROVE  b \in Trx /\ pc'[b] \in Leading /\ (t = b \/ pc'[t] = "follow")
    <3>1. CASE b = a
      <4>1. t \in M
        BY <1>g, <1>gr, <3>1
      <4>2. t # a => pc'[t] = "follow"
        BY <1>pcs, <4>1, Who
      <4> QED BY <1>a, <1>pcs, <3>1, <4>2 DEF Leading
    <3>2. CASE b # a
      <4>1. t \in Range(group[b])
        BY <1>gr, <3>2
      <4>2. b \in Trx /\ pc[b] \in Leading /\ (t = b \/ pc[t] = "follow") /\ t \in Trx
        BY <1>1, <4>1, GroupTypes DEF GroupsOk
      <4>3. pc[b] # "queued" /\ pc[t] # "queued"
        BY <1>was, <4>1
      <4> QED BY <1>2, <4>2, <4>3, Who
    <3> QED BY <3>1, <3>2
  <2>2. ASSUME NEW b \in Threads, NEW d \in Threads, NEW i \in DOMAIN group'[b], NEW j \in DOMAIN group'[d],
               group'[b][i] = group'[d][j]
        PROVE  b = d /\ i = j
    <3>1. CASE b = a /\ d = a
      BY <1>g, <1>gr, <2>2, <3>1 DEF Distinct
    <3>2. CASE b # a /\ d # a
      <4>1. group'[b] = group[b] /\ group'[d] = group[d]
        BY <1>gr, <3>2
      <4>2. i \in DOMAIN group[b] /\ j \in DOMAIN group[d] /\ group[b][i] = group[d][j]
        BY <2>2, <4>1
      <4> QED BY <1>1, <4>2 DEF GroupsOk
    <3>3. CASE b = a /\ d # a
      <4>1. group'[b][i] \in M /\ group'[d][j] \in Range(group[d])
        BY <1>g, <1>gr, <3>3 DEF Range
      <4> QED BY <1>was, <2>2, <4>1
    <3>4. CASE b # a /\ d = a
      <4>1. group'[d][j] \in M /\ group'[b][i] \in Range(group[b])
        BY <1>g, <1>gr, <3>4 DEF Range
      <4> QED BY <1>was, <2>2, <4>1
    <3> QED BY <3>1, <3>2, <3>3, <3>4
  <2>3. ASSUME NEW b \in Trx, pc'[b] \in Leading PROVE b \in Range(group'[b])
    <3>1. CASE b = a
      BY <1>a, <1>m, <1>g, <1>gr, <3>1
    <3>2. CASE b # a
      <4>1. pc'[b] = pc[b] /\ b \in Threads
        BY <1>pcs, <2>3, <3>2, Who DEF Leading
      <4> QED BY <1>1, <1>gr, <2>3, <3>2, <4>1 DEF GroupsOk
    <3> QED BY <3>1, <3>2
  <2> QED BY <2>1, <2>2, <2>3 DEF GroupsOk
<1>rotated. RotatedOk'
  <2>1. Kept((Leading \cup Requesting) \ {"write", "sync"})
    BY <1>2, <1>3 DEF Kept, Leading, Requesting
  <2> QED BY <1>1, <1>3, <2>1, RotatedFrame
<1>index. IndexOk'
  <2>1. Kept({"rotate_list"})
    BY <1>2, <1>3 DEF Kept
  <2> QED BY <1>1, <1>3, <2>1, IndexFrame
<1>synced. SyncedOk'
  <2>1. \A b \in Threads : pc[b] = "sync" => pc'[b] = "sync" /\ group'[b] = group[b]
    BY <1>a, <1>2, <1>gr, Who
  <2> QED BY <1>1, <1>3, <2>1 DEF SyncedOk
<1>disks. DisksOk'
  BY <1>1, <1>3, DisksFrame
<1>trxs. TrxsOk'
  <2> SUFFICES ASSUME NEW u \in Trx PROVE TrxOk(u)'
    BY DEF TrxsOk
  <2>1. TrxOk(u) /\ u \in Actors
    BY <1>1, Who DEF TrxsOk
  <2>2. CASE pc'[u] = pc[u]
    BY <1>3, <2>1, <2>2, TrxFrame
  <2>3. CASE pc'[u] \in {"write", "follow"}
    BY <2>3 DEF TrxOk, Requesting, Marking
  <2> QED BY <1>2, <2>1, <2>2, <2>3
<1>members. MembersOk'
  <2>1. ASSUME NEW b \in Threads, NEW u \in Range(group'[b]) PROVE MemberOk(b, u)'
    <3>1. CASE b = a
      <4>1. u \in Trx /\ pc[u] = "queued"
        BY <1>m, <1>g, <1>gr, <3>1
      <4>2. Durable("prepare", u) /\ ~InEngine("rollback", u) /\ ~InBinlog(u)
        BY <1>1, <4>1 DEF TrxsOk, TrxOk
      <4>3. ~InEngine("commit", u)
        BY <1>1, <4>1 DEF TrxsOk, TrxOk
      <4> QED BY <1>3, <1>pcs, <3>1, <4>2, <4>3 DEF MemberOk, InBinlog, Durable, InEngine, Leading
    <3>2. CASE b # a
      <4>1. u \in Range(group[b])
        BY <1>gr, <3>2
      <4>2. MemberOk(b, u) /\ pc[b] # "queued"
        BY <1>1, <1>was, <4>1 DEF MembersOk
      <4>3. pc'[b] = pc[b]
        BY <1>2, <4>2, Who
      <4> QED BY <1>3, <4>2, <4>3 DEF MemberOk, InFile, InBinlog, Durable, InEngine, FileOf
    <3> QED BY <3>1, <3>2
  <2>2. Running' <=> Running
    BY <1>2, Who DEF Running, At
  <2>3. ASSUME NEW t, NEW b \in Threads, t \in Range(group[b]) PROVE t \in Range(group'[b])
    BY <1>was, <1>gr, <2>3
  <2> QED BY <1>1, <1>3, <2>1, <2>2, <2>3 DEF MembersOk, InBinlog, InEngine
<1>request. RequestOk'
  <2>1. Kept({"checkpoint", "request"})
    BY <1>2, <1>3 DEF Kept
  <2>2. \A l \in Logs : Stays(l)
    BY <1>3, StaysFrame
  <2>3. Len(elog') = Len(elog) /\ Len(elog) \in Nat /\ flushed' = flushed /\ flushed \in Nat
    BY <1>1, <1>3, DiskTypes
  <2>4. Len(elog) <= Len(elog') /\ flushed <= flushed'
    BY <2>3
  <2> QED BY <1>1, <1>3, <2>1, <2>2, <2>4, <1>types, RequestFrame, ListLogs
<1>flush. FlushOk'
  BY <1>1, <1>3, FlushFrame
<1>checks. CheckpointsOk'
  BY <1>1, <1>3, CheckpointsFrame
<1>last. LastOk'
  <2>1. Kept({"rotate_index", "done_lock", "done_write", "crashed"})
    BY <1>2, <1>3 DEF Kept
  <2> QED BY <1>1, <1>3, <2>1, LastFrame
<1>dones. DoneOk'
  <2>1. Within(Marking)
    BY <1>2, <1>3 DEF Within, Marking
  <2> QED BY <1>1, <1>3, <2>1, DoneFrame
<1>hold. HoldOk'
  <2>1. Kept({"done"})
    BY <1>2, <1>3 DEF Kept
  <2> QED BY <1>1, <1>3, <2>1, HoldFrame
<1>tokens. TokensOk'
  <2>1. Kept({"request", "notify", "done"})
    BY <1>2 DEF Kept
  <2>2. ASSUME NEW t \in NeedUnlog PROVE Counted(t)' <=> Counted(t)
    <3>0. t \in Trx /\ t \in Actors
      BY BinlogXaAssumption, Who
    <3>1. CASE t \in M
      <4>1. ~Counted(t)
        BY <1>m, <3>1 DEF Counted, CountedLabels, Marking
      <4>2. \A b \in Threads : t \in Range(group'[b]) => b = a
        BY <1>was, <1>gr, <3>1
      <4>3. pc'[t] \in {"write", "follow"}
        BY <1>pcs, <3>0, <3>1
      <4>4. ~Counted(t)'
        BY <1>pcs, <4>2, <4>3 DEF Counted, CountedLabels, Marking
      <4> QED BY <4>1, <4>4
    <3>2. CASE t \notin M
      <4>1. pc'[t] = pc[t]
        BY <1>a, <1>m, <1>pcs, <3>0, <3>2
      <4>2. \A b \in Threads : t \in Range(group'[b]) <=> t \in Range(group[b])
        BY <1>was, <1>g, <1>gr, <3>2
      <4>3. \A b \in Threads : t \in Range(group[b]) => pc'[b] = pc[b]
        BY <1>was, <1>2, Who
      <4> QED BY <1>3, <4>1, <4>2, <4>3 DEF Counted
    <3> QED BY <3>1, <3>2
  <2>3. ASSUME NEW at, LeftOk(at) PROVE LeftOk(at)'
    <3>1. Within({"next_stage", "order", "checkpoint"}) /\ Within({"crashed"})
      BY <1>2, <1>3 DEF Within
    <3>2. \A l : DoneLog(l) => DoneLog(l)'
      BY <1>3 DEF DoneLog, CommitBy, InFile
    <3> QED BY <1>3, <2>3, <3>1, <3>2, LeftFrame
  <2> QED BY <1>1, <1>3, <2>1, <2>2, <2>3, TokensFrame DEF bgVars
<1> QED BY <1>types, <1>labels, <1>locks, <1>groups, <1>rotated, <1>index, <1>synced, <1>disks, <1>trxs,
     <1>members, <1>request, <1>flush, <1>checks, <1>last, <1>dones, <1>hold, <1>tokens DEF XaInv

\* FLUSH LOGS takes LOCK_log with nobody to commit.
LEMMA LeadFlusherStep ==
    ASSUME XaInv, NEW a \in Threads, Lead(a), pc[a] # "queued", UNCHANGED sync_period
    PROVE  XaInv'
<1>1. /\ XaTypes /\ LabelsOk /\ LocksOk /\ GroupsOk /\ RotatedOk /\ IndexOk /\ SyncedOk /\ DisksOk /\ TrxsOk
      /\ MembersOk /\ RequestOk /\ FlushOk /\ CheckpointsOk /\ LastOk /\ DoneOk /\ HoldOk /\ TokensOk
  BY DEF XaInv
<1>a. pc[a] = "begin" /\ a = FLUSHER /\ a \in Actors
  BY Who DEF Lead, At
<1>3. UNCHANGED <<elog, flushed, blog, synced, first, indexed, inuse, current, head, xid_count,
                  LOCK_after_binlog_sync, bg_queue, next_in_queue, log_requests, group, rotated, done,
                  req, to_notify, flush_notify, bg, lost, crashes>>
  <2>1. rotated \in [Threads -> 0..MaxLogs]
    BY <1>1 DEF XaTypes
  <2>2. rotated[a] = 0
    BY <1>1, <1>a DEF RotatedOk
  <2>3. rotated' = rotated
    BY <2>1, <2>2 DEF Lead
  <2> QED BY <1>a, <2>3 DEF Lead, diskVars, listVars, lockVars, bgVars, ctlVars, At
<1>4. LOCK_log = NONE /\ LOCK_log' = a /\ current < MaxLogs /\ Goto(a, "rotate")
  BY <1>a DEF Lead, At
<1>2. pc'[a] = "rotate" /\ pc[a] = "begin" /\ \A b \in Actors : b # a => pc'[b] = pc[b]
  BY <1>1, <1>4, <1>a, GotoFacts
<1>none. Range(group[a]) = {}
  <2>1. \A t \in Range(group[a]) : FALSE
    BY <1>1, <1>a, Who DEF GroupsOk
  <2> QED BY <2>1
<1>types. XaTypes'
  <2>1. pc' \in [Actors -> TrxLabels \cup BgLabels]
    <3>1. "rotate" \in TrxLabels \cup BgLabels
      BY DEF TrxLabels, FlusherLabels
    <3> QED BY <1>1, <1>4, <1>a, <3>1, GotoType
  <2> QED BY <1>1, <1>3, <2>1 DEF XaTypes
<1>labels. LabelsOk'
  BY <1>1, <1>2, <1>a, Who DEF LabelsOk, TrxLabels, FlusherLabels, BgLabels, Marking
<1>locks. LocksOk'
  <2>1. \A b \in Actors : pc[b] \notin LogHolders
    BY <1>1, <1>4, Who DEF LocksOk
  <2>2. \A b \in Actors : pc'[b] \in LogHolders <=> b = a
    BY <1>2, <2>1 DEF LogHolders
  <2>3. Within({"order"})
    BY <1>2 DEF Within
  <2> QED BY <1>1, <1>3, <1>4, <2>2, <2>3 DEF LocksOk, Within
<1>groups. GroupsOk'
  <2>1. ASSUME NEW b \in Threads, NEW t \in Range(group[b])
        PROVE  b \in Trx /\ pc'[b] \in Leading /\ (t = b \/ pc'[t] = "follow")
    <3>1. b \in Trx /\ pc[b] \in Leading /\ (t = b \/ pc[t] = "follow") /\ t \in Trx
      BY <1>1, GroupTypes DEF GroupsOk
    <3> QED BY <1>2, <1>a, <3>1, Who
  <2>2. \A b \in Trx : pc'[b] = pc[b]
    BY <1>2, <1>a, Who
  <2> QED BY <1>1, <1>3, <2>1, <2>2 DEF GroupsOk
<1>rotated. RotatedOk'
  <2> SUFFICES ASSUME NEW b \in Threads
               PROVE  /\ rotated[b] # 0 => pc'[b] \in {"rotate_index", "rotate_list", "next_stage", "order",
                                                       "checkpoint", "request", "notify"}
                      /\ pc'[b] \in {"rotate_index", "rotate_list"} => rotated[b] = current
                      /\ pc'[b] = "next_stage" => rotated[b] \in {0, current - 1}
                      /\ pc'[b] \in {"order", "checkpoint", "request", "notify"} => rotated[b] < current
                      /\ pc'[b] \in Requesting => rotated[b] # 0
                      /\ pc'[b] \in {"rotate", "rotate_index"} => current < MaxLogs
    BY <1>3 DEF RotatedOk
  <2>1. CASE b = a
    <3>1. rotated[a] = 0
      BY <1>1, <1>2 DEF RotatedOk
    <3> QED BY <1>2, <1>4, <2>1, <3>1 DEF Requesting
  <2>2. CASE b # a
    <3>1. pc'[b] = pc[b]
      BY <1>2, <2>2, Who
    <3> QED BY <1>1, <3>1 DEF RotatedOk
  <2> QED BY <2>1, <2>2
<1>index. IndexOk'
  <2>1. Kept({"rotate_list"})
    BY <1>2, <1>3 DEF Kept
  <2> QED BY <1>1, <1>3, <2>1, IndexFrame
<1>synced. SyncedOk'
  <2>1. Kept({"sync"})
    BY <1>2, <1>3 DEF Kept
  <2> QED BY <1>1, <1>3, <2>1, SyncedFrame
<1>disks. DisksOk'
  BY <1>1, <1>3, DisksFrame
<1>trxs. TrxsOk'
  <2> SUFFICES ASSUME NEW u \in Trx PROVE TrxOk(u)'
    BY DEF TrxsOk
  <2>1. TrxOk(u) /\ pc'[u] = pc[u]
    BY <1>1, <1>2, <1>a, Who DEF TrxsOk
  <2> QED BY <1>3, <2>1, TrxFrame
<1>members. MembersOk'
  <2>1. ASSUME NEW b \in Threads, NEW u \in Range(group[b]) PROVE MemberOk(b, u)'
    <3>1. MemberOk(b, u) /\ b # a
      BY <1>1, <1>none DEF MembersOk
    <3>2. pc'[b] = pc[b]
      BY <1>2, <3>1, Who
    <3> QED BY <1>3, <3>1, <3>2 DEF MemberOk, InFile, InBinlog, Durable, InEngine, FileOf
  <2>2. Running' <=> Running
    BY <1>2, <1>a, Who DEF Running, At
  <2> QED BY <1>1, <1>3, <2>1, <2>2 DEF MembersOk, InBinlog, InEngine
<1>request. RequestOk'
  <2>1. Kept({"checkpoint", "request"})
    BY <1>2, <1>3 DEF Kept
  <2>2. \A l \in Logs : Stays(l)
    BY <1>3, StaysFrame
  <2>3. Len(elog') = Len(elog) /\ Len(elog) \in Nat /\ flushed' = flushed /\ flushed \in Nat
    BY <1>1, <1>3, DiskTypes
  <2>4. Len(elog) <= Len(elog') /\ flushed <= flushed'
    BY <2>3
  <2> QED BY <1>1, <1>3, <2>1, <2>2, <2>4, <1>types, RequestFrame, ListLogs
<1>flush. FlushOk'
  BY <1>1, <1>3, FlushFrame
<1>checks. CheckpointsOk'
  BY <1>1, <1>3, CheckpointsFrame
<1>last. LastOk'
  <2>1. Kept({"rotate_index", "done_lock", "done_write", "crashed"})
    BY <1>2, <1>3 DEF Kept
  <2> QED BY <1>1, <1>3, <2>1, LastFrame
<1>dones. DoneOk'
  <2>1. Within(Marking)
    BY <1>2, <1>3 DEF Within, Marking
  <2> QED BY <1>1, <1>3, <2>1, DoneFrame
<1>hold. HoldOk'
  <2>1. Kept({"done"})
    BY <1>2, <1>3 DEF Kept
  <2> QED BY <1>1, <1>3, <2>1, HoldFrame
<1>tokens. TokensOk'
  <2>1. Kept({"request", "notify", "done"})
    BY <1>2 DEF Kept
  <2>2. ASSUME NEW t \in NeedUnlog PROVE Counted(t)' <=> Counted(t)
    <3>1. pc'[t] = pc[t]
      BY <1>2, <1>a, BinlogXaAssumption, Who
    <3>2. \A b \in Threads : t \in Range(group[b]) => pc'[b] = pc[b]
      BY <1>2, <1>none, Who
    <3> QED BY <1>3, <3>1, <3>2 DEF Counted
  <2>3. ASSUME NEW at, LeftOk(at) PROVE LeftOk(at)'
    <3>1. Within({"next_stage", "order", "checkpoint"}) /\ Within({"crashed"})
      BY <1>2, <1>3 DEF Within
    <3>2. \A l : DoneLog(l) => DoneLog(l)'
      BY <1>3 DEF DoneLog, CommitBy, InFile
    <3> QED BY <1>3, <2>3, <3>1, <3>2, LeftFrame
  <2> QED BY <1>1, <1>3, <2>1, <2>2, <2>3, TokensFrame DEF bgVars
<1> QED BY <1>types, <1>labels, <1>locks, <1>groups, <1>rotated, <1>index, <1>synced, <1>disks, <1>trxs,
     <1>members, <1>request, <1>flush, <1>checks, <1>last, <1>dones, <1>hold, <1>tokens DEF XaInv

-----------------------------------------------------------------------------
(* Crash and recovery *)

\* what a crash leaves in memory, and what Init has there
MemoryEmpty ==
    /\ current = indexed /\ head = indexed /\ synced = Len(blog[indexed]) /\ xid_count = ForLogs(0)
    /\ LOCK_log = NONE /\ LOCK_after_binlog_sync = NONE
    /\ bg_queue = 0 /\ next_in_queue = ForLogs(0) /\ log_requests = <<>>
    /\ group = [a \in Threads |-> <<>>] /\ rotated = [a \in Threads |-> 0]
    /\ done = NotDone /\ req = NoRequest /\ to_notify = [a \in Threads |-> <<>>]
    /\ flush_notify = NoFlush /\ bg = 0
CrashedOk == ~Running => MemoryEmpty

\* nobody is at work, and nothing is in memory
Quiet ==
    /\ MemoryEmpty
    /\ \A a \in Threads : pc[a] \in {"begin", "end", "crashed"}
    /\ pc[BG] \in {"idle", "crashed"}

\* their types
MemoryTypes ==
    /\ xid_count \in [Logs -> Nat] /\ bg_queue \in 0..MaxLogs /\ bg \in 0..MaxLogs
    /\ next_in_queue \in [Logs -> 0..MaxLogs] /\ log_requests \in Seq(Requests)
    /\ group \in [Threads -> Seq(Trx)] /\ rotated \in [Threads -> 0..MaxLogs]
    /\ done \in [Actors -> [log : 0..MaxLogs, to : {"none", "idle", "unlog", "end"}]]
    /\ req \in [Threads -> [flush_lsn : Nat, lsn : Nat]]
    /\ to_notify \in [Threads -> Seq(Logs)]
    /\ flush_notify \in [state : {"idle", "flushed", "notify"}, lsn : Nat, list : Seq(Logs)]
    /\ current \in Logs /\ head \in 1..current
IndexedType == indexed \in Logs

\* What is in memory after a crash has its types.
LEMMA EmptyTypes ==
    MemoryEmpty /\ IndexedType => MemoryTypes
<1> SUFFICES ASSUME MemoryEmpty, indexed \in Logs PROVE MemoryTypes
  BY DEF IndexedType
<1>1. MaxLogs \in Nat
  BY BinlogXaAssumption
<1>2. 0 \in 0..MaxLogs
  BY <1>1
<1>3. \A X : <<>> \in Seq(X)
  BY EmptySeq
<1>4. current \in Logs /\ head \in 1..current
  BY <1>1 DEF MemoryEmpty, Logs
<1>5. done \in [Actors -> [log : 0..MaxLogs, to : {"none", "idle", "unlog", "end"}]]
  BY <1>2 DEF MemoryEmpty, NotDone
<1>6. req \in [Threads -> [flush_lsn : Nat, lsn : Nat]]
  BY DEF MemoryEmpty, NoRequest
<1>7. flush_notify \in [state : {"idle", "flushed", "notify"}, lsn : Nat, list : Seq(Logs)]
  BY <1>3 DEF MemoryEmpty, NoFlush
<1> QED BY <1>2, <1>3, <1>4, <1>5, <1>6, <1>7 DEF MemoryEmpty, ForLogs, MemoryTypes

\* Without anybody at work, everything about threads holds.
LEMMA QuietOk ==
    XaTypes /\ Quiet =>
        LocksOk /\ GroupsOk /\ RotatedOk /\ SyncedOk /\ RequestOk /\ FlushOk /\ DoneOk /\ HoldOk
<1> SUFFICES ASSUME XaTypes, Quiet
             PROVE  LocksOk /\ GroupsOk /\ RotatedOk /\ SyncedOk /\ RequestOk /\ FlushOk /\ DoneOk /\ HoldOk
  OBVIOUS
<1>1. /\ \A a \in Threads : pc[a] \in {"begin", "end", "crashed"} /\ a \in Actors
      /\ \A a \in Actors : pc[a] \in {"begin", "end", "idle", "crashed"} /\ a # NONE
  BY Who DEF Quiet
<1>2. \A a \in Threads : /\ group[a] = <<>> /\ rotated[a] = 0 /\ to_notify[a] = <<>>
                         /\ Range(group[a]) = {} /\ DOMAIN group[a] = {}
  BY DEF Quiet, MemoryEmpty, Range
<1>3. LOCK_log = NONE /\ LOCK_after_binlog_sync = NONE /\ log_requests = <<>> /\ flush_notify = NoFlush
  BY DEF Quiet, MemoryEmpty
<1>4. LocksOk
  BY <1>1, <1>3 DEF LocksOk, LogHolders
<1>5. GroupsOk
  BY <1>1, <1>2, Who DEF GroupsOk, Leading
<1>6. RotatedOk
  BY <1>1, <1>2 DEF RotatedOk, Requesting
<1>7. SyncedOk
  <2>1. synced = Len(blog[indexed]) /\ DOMAIN blog[indexed] = 1..Len(blog[indexed]) /\ Len(blog[indexed]) \in Nat
    BY DiskTypes DEF Quiet, MemoryEmpty
  <2>2. \A i \in DOMAIN blog[indexed] : ~(i > synced)
    BY <2>1
  <2> QED BY <2>2 DEF SyncedOk
<1>8. RequestOk
  BY <1>1, <1>3 DEF RequestOk
<1>9. FlushOk
  BY <1>3 DEF FlushOk, NoFlush
<1>10. DoneOk
  BY <1>1 DEF DoneOk, Marking
<1>11. HoldOk
  <2>1. \A a \in Threads, l \in Logs : ~Holds(a, l)
    <3>1. 0 \notin Logs
      BY DEF Logs
    <3> QED BY <1>1, <1>2, <3>1 DEF Holds
  <2> QED BY <1>1, <2>1 DEF HoldOk
<1> QED BY <1>4, <1>5, <1>6, <1>7, <1>8, <1>9, <1>10, <1>11

BehindDone == Running => \A l \in 1..(current - 1) : DoneLog(l)

\* Nothing is pending, and all files left behind have been committed.
LEMMA QuietTokens ==
    XaTypes /\ Quiet /\ BehindDone => TokensOk
<1> SUFFICES ASSUME XaTypes, Quiet, Running => \A l \in 1..(current - 1) : DoneLog(l)
             PROVE  TokensOk
  BY DEF BehindDone
<1>1. /\ \A a \in Threads : pc[a] \in {"begin", "end", "crashed"} /\ a \in Actors
      /\ pc[BG] \in {"idle", "crashed"}
  BY Who DEF Quiet
<1>2. \A a \in Threads : /\ group[a] = <<>> /\ rotated[a] = 0 /\ to_notify[a] = <<>>
                         /\ Range(to_notify[a]) = {} /\ DOMAIN to_notify[a] = {} /\ Range(group[a]) = {}
  BY DEF Quiet, MemoryEmpty, Range
<1>3. bg_queue = 0 /\ bg = 0 /\ log_requests = <<>> /\ flush_notify.list = <<>> /\ xid_count = ForLogs(0)
  BY DEF Quiet, MemoryEmpty, NoFlush
<1> DEFINE at == [l \in Logs |-> "none"]
<1>4. at \in [Logs -> Places] /\ \A l \in Logs : at[l] = "none"
  BY DEF Places
<1> HIDE DEF at
<1>5. <<>> \in Seq(Logs) /\ Range(<<>>) = {} /\ DOMAIN <<>> = {}
  BY EmptySeq DEF Range
<1>6. ListsOk(<<>>, <<>>)
  BY <1>2, <1>3, <1>5 DEF ListsOk, IsChain, Distinct
<1>7. \A l \in Logs : PlaceOk(at, <<>>, <<>>, l)
  BY <1>1, <1>2, <1>3, <1>4, <1>5 DEF PlaceOk
<1>8. PlacesOk(at, <<>>, <<>>)
  BY <1>2, <1>6, <1>7 DEF PlacesOk
<1>9. CountsOk(at)
  <2> SUFFICES ASSUME NEW l \in Logs
               PROVE  xid_count[l] = Cardinality(Unlogged(l)) + Bit(\E a \in Threads : Holds(a, l)) + Bit(at[l] # "none")
    BY DEF CountsOk
  <2>1. \A t \in NeedUnlog : ~Counted(t)
    BY <1>1, <1>2, BinlogXaAssumption, Who DEF Counted, CountedLabels, Marking
  <2>2. Unlogged(l) = {}
    BY <2>1 DEF Unlogged
  <2>3. Cardinality(Unlogged(l)) = 0
    BY <2>2, FS_EmptySet
  <2>4. ~\E a \in Threads : Holds(a, l)
    <3>1. l # 0
      BY DEF Logs
    <3> QED BY <1>1, <1>2, <3>1 DEF Holds
  <2>5. Bit(\E a \in Threads : Holds(a, l)) = 0
    BY <2>4 DEF Bit
  <2>6. Bit(at[l] # "none") = 0
    BY <1>4 DEF Bit
  <2>7. xid_count[l] = 0
    BY <1>3 DEF ForLogs
  <2>8. 0 = 0 + 0 + 0
    OBVIOUS
  <2> QED BY <2>3, <2>5, <2>6, <2>7, <2>8, Zenon
<1>10. LeftOk(at)
  BY DEF LeftOk
<1> QED BY <1>4, <1>5, <1>8, <1>9, <1>10 DEF TokensOk

\* The server crashes: what had reached the disk is enough.
LEMMA CrashStep ==
    ASSUME XaInv, Crash, UNCHANGED sync_period
    PROVE  XaInv' /\ CrashedOk'
<1>1. /\ XaTypes /\ LabelsOk /\ LocksOk /\ GroupsOk /\ RotatedOk /\ IndexOk /\ SyncedOk /\ DisksOk /\ TrxsOk
      /\ MembersOk /\ RequestOk /\ FlushOk /\ CheckpointsOk /\ LastOk /\ DoneOk /\ HoldOk /\ TokensOk
  BY DEF XaInv
<1>2. PICK n \in flushed..Len(elog) : elog' = SubSeq(elog, 1, n) /\ flushed' = n
  BY DEF Crash
<1>3. PICK m \in synced..Len(blog[indexed]) :
          /\ blog' = [l \in Logs |-> IF l < indexed THEN blog[l]
                                     ELSE IF l = indexed THEN SubSeq(blog[l], 1, m) ELSE <<>>]
          /\ synced' = m
  BY DEF Crash
<1>4. pc' = [a \in Actors |-> "crashed"] /\ UNCHANGED <<first, indexed, inuse, lost>> /\ MemoryLost
  BY DEF Crash
<1>5. \A a \in Actors : pc'[a] = "crashed"
  BY <1>4
<1>6. /\ Len(elog) \in Nat /\ DOMAIN elog = 1..Len(elog) /\ flushed \in Nat /\ flushed <= Len(elog)
      /\ elog \in Seq(EngineRecords) /\ indexed \in Nat /\ indexed \in Logs /\ current \in Nat
      /\ MaxLogs \in Nat /\ synced \in Nat /\ first \in Nat /\ current <= indexed
      /\ \A l \in Logs : blog[l] \in Seq(LogRecords) /\ Len(blog[l]) \in Nat /\ DOMAIN blog[l] = 1..Len(blog[l]) /\ l \in Nat
  <2>1. current <= indexed
    BY <1>1, DiskTypes DEF IndexOk
  <2> QED BY <1>1, <2>1, DiskTypes
<1>7. n \in Nat /\ n \in 0..Len(elog) /\ flushed <= n /\ synced >= 1 /\ m \in Nat /\ m \in 0..Len(blog[indexed]) /\ synced <= m /\ m >= 1
  <2>1. n \in Nat /\ n \in 0..Len(elog) /\ flushed <= n
    BY <1>2, <1>6
  <2>2. synced >= 1
    BY <1>1, <1>6 DEF XaTypes
  <2> QED BY <1>3, <1>6, <2>1, <2>2
<1>8. elog' \in Seq(EngineRecords) /\ Len(elog') = n /\ DOMAIN elog' = 1..n /\ \A i \in 1..n : elog'[i] = elog[i]
  <2>1. elog' \in Seq(EngineRecords) /\ Len(elog') = n /\ \A i \in 1..n : elog'[i] = elog[i]
    BY <1>2, <1>6, <1>7, FrontFacts
  <2> QED BY <2>1
<1>9. blog'[indexed] \in Seq(LogRecords) /\ Len(blog'[indexed]) = m /\ \A i \in 1..m : blog'[indexed][i] = blog[indexed][i]
  <2>1. blog'[indexed] = SubSeq(blog[indexed], 1, m)
    BY <1>3, <1>6
  <2> QED BY <1>6, <1>7, <2>1, FrontFacts
<1>10. /\ \A l \in Logs : l < indexed => blog'[l] = blog[l]
       /\ \A l \in Logs : l > indexed => blog'[l] = <<>>
  BY <1>3, <1>6
<1>11. blog' \in [Logs -> Seq(LogRecords)]
  <2>1. \A l \in Logs : blog'[l] \in Seq(LogRecords)
    <3> SUFFICES ASSUME NEW l \in Logs PROVE blog'[l] \in Seq(LogRecords)
      OBVIOUS
    <3>1. l < indexed \/ l = indexed \/ l > indexed
      BY <1>6
    <3> QED BY <1>6, <1>9, <1>10, <3>1, EmptySeq
  <2> QED BY <1>3, <2>1
\* what is found after the crash was there before it
<1>12. \A l \in Logs : /\ DOMAIN blog'[l] \subseteq DOMAIN blog[l]
                       /\ \A i \in DOMAIN blog'[l] : blog'[l][i] = blog[l][i] /\ l <= indexed
  <2> SUFFICES ASSUME NEW l \in Logs
               PROVE  /\ DOMAIN blog'[l] \subseteq DOMAIN blog[l]
                      /\ \A i \in DOMAIN blog'[l] : blog'[l][i] = blog[l][i] /\ l <= indexed
    OBVIOUS
  <2>1. CASE l < indexed
    <3>1. blog'[l] = blog[l]
      BY <1>10, <2>1
    <3>2. l <= indexed
      BY <1>6, <2>1
    <3> QED BY <3>1, <3>2
  <2>2. CASE l = indexed
    <3>1. DOMAIN blog'[l] = 1..m /\ DOMAIN blog[l] = 1..Len(blog[indexed])
      BY <1>6, <1>9, <2>2
    <3>2. 1..m \subseteq 1..Len(blog[indexed])
      BY <1>6, <1>7
    <3> QED BY <1>6, <1>9, <2>2, <3>1, <3>2
  <2>3. CASE l > indexed
    BY <1>10, <2>3
  <2> QED BY <1>6, <2>1, <2>2, <2>3
<1>13. \A t, l : l \in Logs /\ InFile(t, l)' => InFile(t, l) /\ l <= indexed
  BY <1>12 DEF InFile, Range
<1>14. \A t : InBinlog(t)' => InBinlog(t)
  BY <1>13 DEF InBinlog, InFile
<1>15. \A k, t : InEngine(k, t)' => InEngine(k, t)
  <2>1. 1..n \subseteq 1..Len(elog)
    BY <1>6, <1>7
  <2> QED BY <1>6, <1>8, <2>1 DEF InEngine, Range
<1>16. \A k, t : Durable(k, t) => Durable(k, t)'
  <2>1. 1..flushed \subseteq 1..n
    BY <1>6, <1>7
  <2> QED BY <1>2, <1>8, <2>1 DEF Durable
<1>17. \A l \in Logs : DoneLog(l) => DoneLog(l)'
  <2> SUFFICES ASSUME NEW l \in Logs, DoneLog(l), NEW t \in Trx, InFile(t, l)'
               PROVE  \E i \in DOMAIN elog' : i <= flushed' /\ elog'[i] = EngineRecord("commit", t)
    BY DEF DoneLog, CommitBy
  <2>1. PICK i \in DOMAIN elog : i <= flushed /\ elog[i] = EngineRecord("commit", t)
    BY <1>13 DEF DoneLog, CommitBy
  <2>2. i \in 1..n /\ i <= n
    BY <1>6, <1>7, <2>1
  <2> QED BY <1>2, <1>8, <2>1, <2>2
\* a transaction that has committed was synced
<1>18. ASSUME sync_period = 1, NEW t \in Trx, InEngine("commit", t), NEW l \in Logs, InFile(t, l)
       PROVE  InFile(t, l)'
  <2>1. l <= indexed
    <3>1. l <= current
      BY <1>1, <1>18 DEF IndexOk
    <3> QED BY <1>6, <3>1
  <2>2. CASE l < indexed
    BY <1>10, <1>18, <2>2 DEF InFile
  <2>3. CASE l = indexed
    <3>1. PICK i \in DOMAIN blog[indexed] : blog[indexed][i] = Xid(t)
      BY <1>18, <2>3 DEF InFile, Range
    <3>2. ~(i > synced)
      <4> SUFFICES ASSUME i > synced PROVE FALSE
        OBVIOUS
      <4>1. PICK a \in Threads : \E u \in Range(group[a]) : blog[indexed][i] = Xid(u)
        BY <1>1, <1>18, <3>1 DEF SyncedOk
      <4>2. t \in Range(group[a])
        BY <3>1, <4>1, XidIs
      <4>3. ~InEngine("commit", t)
        BY <1>1, <4>2 DEF MembersOk, MemberOk
      <4> QED BY <1>18, <4>3
    <3>3. i \in 1..m
      BY <1>6, <1>7, <3>1, <3>2
    <3>4. i \in DOMAIN blog'[indexed] /\ blog'[indexed][i] = Xid(t)
      BY <1>9, <3>1, <3>3
    <3> QED BY <2>3, <3>4 DEF InFile, Range
  <2> QED BY <1>6, <2>1, <2>2, <2>3
<1>empty. MemoryEmpty'
  BY <1>3, <1>4, <1>9 DEF MemoryLost, MemoryEmpty, ForLogs, NotDone, NoRequest, NoFlush
<1>types. XaTypes'
  <2>1. pc' \in [Actors -> TrxLabels \cup BgLabels]
    BY <1>4 DEF TrxLabels, FlusherLabels, BgLabels
  <2>2. flushed' \in 0..Len(elog')
    BY <1>2, <1>7, <1>8
  <2>3. indexed' \in Logs /\ first' \in 1..indexed' /\ synced' \in 1..Len(blog'[indexed'])
    <3>1. first \in 1..indexed
      BY <1>1 DEF XaTypes
    <3>2. synced' \in 1..Len(blog'[indexed])
      BY <1>3, <1>7, <1>9
    <3> QED BY <1>4, <1>6, <3>1, <3>2
  <2>4. MemoryEmpty' /\ IndexedType' => MemoryTypes'
    BY EmptyTypes, PTL
  <2> QED BY <1>8, <1>11, <1>empty, <2>1, <2>2, <2>3, <2>4 DEF XaTypes, MemoryTypes, IndexedType
<1>labels. LabelsOk'
  BY <1>5, Who DEF LabelsOk, TrxLabels, FlusherLabels, BgLabels, Marking
<1>quiet. Quiet'
  BY <1>5, <1>empty, Who DEF Quiet
<1>all. LocksOk' /\ GroupsOk' /\ RotatedOk' /\ SyncedOk' /\ RequestOk' /\ FlushOk' /\ DoneOk' /\ HoldOk'
  <2>1. XaTypes' /\ Quiet' =>
          LocksOk' /\ GroupsOk' /\ RotatedOk' /\ SyncedOk' /\ RequestOk' /\ FlushOk' /\ DoneOk' /\ HoldOk'
    BY QuietOk, PTL
  <2> QED BY <1>types, <1>quiet, <2>1
<1>notrunning. ~Running'
  BY <1>5, Who DEF Running, At
<1>index. IndexOk'
  <2>1. current' = indexed /\ head' = indexed
    BY <1>4 DEF MemoryLost
  <2>2. first <= indexed
    BY <1>1, <1>6 DEF XaTypes
  <2>3. indexed \in inuse
    BY <1>1 DEF IndexOk
  <2>4. \A a \in Threads : pc'[a] # "rotate_list"
    BY <1>5, Who
  <2>5. blog'[indexed][1].type = "checkpoint"
    BY <1>1, <1>7, <1>9 DEF IndexOk
  <2> QED BY <1>4, <1>13, <2>1, <2>2, <2>3, <2>4, <2>5 DEF IndexOk
<1>disks. DisksOk'
  <2>1. Distinct(elog')
    <3>1. 1..n \subseteq 1..Len(elog)
      BY <1>6, <1>7
    <3> QED BY <1>1, <1>6, <1>8, <3>1 DEF Distinct, DisksOk
  <2>2. ASSUME NEW t \in Trx PROVE DiskOk(t)'
    <3>1. DiskOk(t)
      BY <1>1 DEF DisksOk
    <3>2. \A l, k \in Logs : InFile(t, l)' /\ InFile(t, k)' => l = k
      BY <1>13, <3>1 DEF DiskOk
    <3>3. InBinlog(t)' => Durable("prepare", t)' /\ ~InEngine("rollback", t)'
      BY <1>14, <1>15, <1>16, <3>1 DEF DiskOk
    <3>4. sync_period = 1 /\ InEngine("commit", t)' => InBinlog(t)'
      <4> SUFFICES ASSUME sync_period = 1, InEngine("commit", t)' PROVE InBinlog(t)'
        OBVIOUS
      <4>1. InEngine("commit", t)
        BY <1>15
      <4>2. PICK l \in Logs : InFile(t, l)
        BY <3>1, <4>1 DEF DiskOk, InBinlog, InFile
      <4>3. InFile(t, l)'
        BY <1>18, <4>1, <4>2
      <4> QED BY <4>3 DEF InBinlog, InFile
    <3>5. InEngine("rollback", t)' => Durable("rollback", t)' /\ Durable("prepare", t)'
      BY <1>15, <1>16, <3>1 DEF DiskOk
    <3>6. InEngine("commit", t)' => Durable("prepare", t)' /\ ~InEngine("rollback", t)'
      BY <1>15, <1>16, <3>1 DEF DiskOk
    <3> QED BY <3>2, <3>3, <3>4, <3>5, <3>6 DEF DiskOk
  <2> QED BY <2>1, <2>2 DEF DisksOk
<1>trxs. TrxsOk'
  BY <1>5, Who DEF TrxsOk, TrxOk, Requesting, Marking
<1>members. MembersOk'
  <2>1. \A a \in Threads : Range(group'[a]) = {}
    BY <1>4 DEF MemoryLost, Range
  <2> QED BY <1>notrunning, <2>1 DEF MembersOk
<1>checks. CheckpointsOk'
  <2> SUFFICES ASSUME NEW l \in Logs, NEW i \in DOMAIN blog'[l], blog'[l][i].type = "checkpoint"
               PROVE  /\ blog'[l][i].arg <= l /\ blog'[l][i].arg <= current'
                      /\ \A k \in 1..(blog'[l][i].arg - 1) : DoneLog(k)'
    BY DEF CheckpointsOk
  <2>1. i \in DOMAIN blog[l] /\ blog'[l][i] = blog[l][i] /\ l <= indexed
    BY <1>12
  <2>2. blog[l][i].arg <= l /\ \A k \in 1..(blog[l][i].arg - 1) : DoneLog(k)
    BY <1>1, <2>1 DEF CheckpointsOk
  <2>3. blog[l][i].arg \in Logs
    <3>0. blog[l] \in Seq(LogRecords)
      BY <1>6
    <3>1. blog[l][i] \in LogRecords
      BY <2>1, <3>0, ElementOfSeq
    <3> QED BY <2>1, <3>1 DEF LogRecords
  <2>4. blog[l][i].arg <= indexed /\ 1..(blog[l][i].arg - 1) \subseteq Logs
    BY <1>6, <2>1, <2>2, <2>3 DEF Logs
  <2>5. current' = indexed
    BY <1>4 DEF MemoryLost
  <2> QED BY <1>17, <2>1, <2>2, <2>4, <2>5
<1>last. LastOk'
  <2>1. ASSUME sync_period = 1 PROVE \E c \in Logs : IsLast(blog'[indexed], c) /\ (~PurgeInWindow => first <= c)
    <3>1. PICK c \in Logs : IsLast(blog[indexed], c) /\ (~PurgeInWindow => first <= c)
      BY <1>1, <2>1 DEF LastOk
    <3>2. PICK i \in DOMAIN blog[indexed] :
             blog[indexed][i] = Checkpoint(c) /\ \A j \in DOMAIN blog[indexed] : j > i => blog[indexed][j].type # "checkpoint"
      BY <3>1 DEF IsLast
    <3>3. ~(i > synced)
      BY <1>1, <2>1, <3>2, XidIs DEF SyncedOk
    <3>4. i \in 1..m /\ DOMAIN blog'[indexed] = 1..m
      BY <1>6, <1>7, <1>9, <3>2, <3>3
    <3>5. IsLast(blog'[indexed], c)
      BY <1>6, <1>9, <1>12, <3>2, <3>4 DEF IsLast
    <3> QED BY <3>1, <3>5
  \* otherwise it may be lost, but there is an older one
  <2>2. \E c \in Logs : IsLast(blog'[indexed], c)
    <3> DEFINE cps == {j \in 1..m : blog'[indexed][j].type = "checkpoint"}
    <3>1. 1 \in cps /\ cps \in SUBSET Nat /\ \A y \in cps : y <= m
      BY <1>7, <1>index, <1>4 DEF IndexOk
    <3>2. PICK i \in cps : \A y \in cps : y <= i
      <4> HIDE DEF cps
      <4> QED BY <1>7, <3>1, MaxFacts
    <3>3. blog'[indexed][i] \in LogRecords /\ DOMAIN blog'[indexed] = 1..m
      BY <1>9, <3>2
    <3>4. PICK c \in Logs : blog'[indexed][i] = Checkpoint(c)
      BY <3>2, <3>3 DEF LogRecords, Checkpoint
    <3>5. \A j \in 1..m : j > i => blog'[indexed][j].type # "checkpoint"
      BY <1>7, <3>2
    <3>6. IsLast(blog'[indexed], c)
      BY <3>2, <3>3, <3>4, <3>5 DEF IsLast
    <3> QED BY <3>6
  <2>c. PICK c \in Logs : IsLast(blog'[indexed], c) /\ (~PurgeInWindow /\ sync_period = 1 => first <= c)
    BY <2>1, <2>2
  <2>3. /\ \A a \in Threads : pc'[a] # "rotate_index"
        /\ head' = current' /\ xid_count' = ForLogs(0)
    BY <1>4, <1>5, Who DEF MemoryLost
  <2>4. \A l \in Logs : xid_count'[l] = 0
    BY <2>3 DEF ForLogs
  <2>5. ~PurgeInWindow /\ sync_period = 1 => ~lost
    BY <1>1 DEF LastOk
  <2> QED BY <1>4, <1>notrunning, <2>c, <2>3, <2>4, <2>5 DEF LastOk
<1>tokens. TokensOk'
  <2>1. XaTypes' /\ Quiet' /\ BehindDone' => TokensOk'
    BY QuietTokens, PTL
  <2> QED BY <1>types, <1>quiet, <1>notrunning, <2>1 DEF BehindDone
<1> QED
  BY <1>types, <1>labels, <1>all, <1>index, <1>disks, <1>trxs, <1>members, <1>checks, <1>last, <1>tokens,
     <1>empty DEF XaInv, CrashedOk

\* The last checkpoint of the last file is the one recover() reads.
LEMMA LastIs ==
    ASSUME XaTypes, NEW c \in Logs, IsLast(blog[indexed], c)
    PROVE  LastCheckpoint = c
<1>1. blog[indexed] \in Seq(LogRecords) /\ Len(blog[indexed]) \in Nat /\ DOMAIN blog[indexed] = 1..Len(blog[indexed])
  BY DiskTypes
<1>2. PICK i \in DOMAIN blog[indexed] :
         blog[indexed][i] = Checkpoint(c) /\ \A j \in DOMAIN blog[indexed] : j > i => blog[indexed][j].type # "checkpoint"
  BY DEF IsLast
<1> DEFINE cps == {j \in DOMAIN blog[indexed] : blog[indexed][j].type = "checkpoint"}
<1>3. i \in cps
  BY <1>2, XidIs
<1>4. cps \in SUBSET Nat /\ \A y \in cps : y <= Len(blog[indexed])
  BY <1>1
<1>5. Max(cps) \in cps /\ \A y \in cps : y <= Max(cps)
  <2> HIDE DEF cps
  <2> QED BY <1>1, <1>3, <1>4, MaxFacts
<1>6. Max(cps) = i
  <2>1. ~(Max(cps) > i)
    BY <1>2, <1>5
  <2>2. i <= Max(cps)
    BY <1>3, <1>5
  <2> QED BY <1>1, <1>2, <1>4, <1>5, <2>1, <2>2
<1>7. LastCheckpoint = blog[indexed][Max(cps)].arg
  BY DEF LastCheckpoint
<1>8. blog[indexed][i].arg = c
  BY <1>2, XidIs
<1> QED BY <1>6, <1>7, <1>8

\* What recovery writes: a commit record for who is found in the binlog, a
\* rollback record for the others that are prepared.
Recovered == {EngineRecord("commit", t) : t \in InDoubt \cap Scanned}
                \cup {EngineRecord("rollback", t) : t \in InDoubt \ Scanned}
\* Each of these records is written once.
LEMMA RecoveredFacts ==
    ASSUME NEW s, s = SetToSeq(Recovered)
    PROVE  /\ s \in Seq(EngineRecords) /\ Distinct(s)
           /\ \A k, t : EngineRecord(k, t) \in Range(s) <=>
                 t \in InDoubt /\ ((k = "commit" /\ t \in Scanned) \/ (k = "rollback" /\ t \notin Scanned))
<1>1. InDoubt \subseteq Trx
  BY DEF InDoubt
<1>2. IsFiniteSet(InDoubt)
  BY <1>1, BinlogXaAssumption, FS_Subset
<1> DEFINE f == [t \in InDoubt |-> IF t \in Scanned THEN EngineRecord("commit", t) ELSE EngineRecord("rollback", t)]
<1>3. f \in Surjection(InDoubt, Recovered)
  <2>1. \A t \in InDoubt : f[t] \in Recovered
    BY DEF Recovered
  <2>2. \A x \in Recovered : \E t \in InDoubt : f[t] = x
    BY DEF Recovered
  <2> QED BY <2>1, <2>2 DEF Surjection
<1>4. IsFiniteSet(Recovered)
  <2> HIDE DEF f
  <2> QED BY <1>2, <1>3, FS_Surjection
<1>7. s \in Seq(Recovered) /\ Range(s) = Recovered /\ Distinct(s)
  BY <1>4, EnumFacts
<1>8. Recovered \subseteq EngineRecords
  BY <1>1 DEF Recovered, EngineRecords, EngineRecord
<1>9. s \in Seq(EngineRecords)
  BY <1>7, <1>8, SeqMonotonic
<1>10. ASSUME NEW k, NEW t
       PROVE  EngineRecord(k, t) \in Recovered <=>
                 t \in InDoubt /\ ((k = "commit" /\ t \in Scanned) \/ (k = "rollback" /\ t \notin Scanned))
  BY EngineIs DEF Recovered
<1> QED BY <1>7, <1>9, <1>10

\* Recovery settles every transaction, and opens a new file.
LEMMA RecoverStep ==
    ASSUME XaInv, CrashedOk, Recover, ~(LastCheckpoint < first), UNCHANGED sync_period
    PROVE  XaInv' /\ CrashedOk'
<1>1. /\ XaTypes /\ LabelsOk /\ LocksOk /\ GroupsOk /\ RotatedOk /\ IndexOk /\ SyncedOk /\ DisksOk /\ TrxsOk
      /\ MembersOk /\ RequestOk /\ FlushOk /\ CheckpointsOk /\ LastOk /\ DoneOk /\ HoldOk /\ TokensOk
  BY DEF XaInv
<1>2. MemoryEmpty /\ current = indexed /\ indexed < MaxLogs /\ indexed \in inuse /\ ~lost
  <2>1. MemoryEmpty
    BY DEF Recover, CrashedOk
  <2> QED BY <1>1, <2>1 DEF Recover, IndexOk, MemoryEmpty
<1>3. /\ elog' = elog \o SetToSeq(Recovered) /\ flushed' = Len(elog')
      /\ indexed' = indexed + 1 /\ inuse' = {indexed + 1}
      /\ blog' = [blog EXCEPT ![indexed + 1] = <<Checkpoint(indexed + 1)>>]
      /\ synced' = 1 /\ current' = indexed + 1 /\ head' = indexed + 1
      /\ pc' = [a \in Actors |-> IF a = BG THEN "idle"
                  ELSE IF a \in Trx /\ ~InEngine("prepare", a) THEN "begin" ELSE "end"]
      /\ UNCHANGED <<first, lost>>
  BY <1>2 DEF Recover, Recovered
<1>4. UNCHANGED <<xid_count, LOCK_log, LOCK_after_binlog_sync, bg_queue, next_in_queue, log_requests,
                  group, rotated, done, req, to_notify, flush_notify, bg>>
  BY DEF Recover, lockVars, bgVars
<1>5. /\ \A a \in Threads : pc'[a] \in {"begin", "end"}
      /\ pc'[BG] = "idle"
      /\ \A t \in Trx : pc'[t] = IF ~InEngine("prepare", t) THEN "begin" ELSE "end"
  BY <1>3, Who
<1>6. /\ elog \in Seq(EngineRecords) /\ Len(elog) \in Nat /\ flushed \in Nat /\ flushed <= Len(elog)
      /\ indexed \in Nat /\ indexed \in Logs /\ MaxLogs \in Nat /\ first \in Nat
      /\ \A l \in Logs : blog[l] \in Seq(LogRecords) /\ Len(blog[l]) \in Nat /\ DOMAIN blog[l] = 1..Len(blog[l]) /\ l \in Nat
  BY <1>1, DiskTypes
<1>7. indexed + 1 \in Logs /\ indexed + 1 \in Nat
  BY <1>2, <1>6 DEF Logs
<1> DEFINE s == SetToSeq(Recovered)
<1>8. /\ s \in Seq(EngineRecords) /\ Distinct(s)
      /\ \A k, t : EngineRecord(k, t) \in Range(s) <=>
            t \in InDoubt /\ ((k = "commit" /\ t \in Scanned) \/ (k = "rollback" /\ t \notin Scanned))
  BY RecoveredFacts
<1>9. elog' = elog \o s
  BY <1>3
<1> HIDE DEF s
<1>10. PICK z : z = s
  OBVIOUS
<1>11. /\ z \in Seq(EngineRecords) /\ Distinct(z) /\ elog' = elog \o z
       /\ \A k, t : EngineRecord(k, t) \in Range(z) <=>
            t \in InDoubt /\ ((k = "commit" /\ t \in Scanned) \/ (k = "rollback" /\ t \notin Scanned))
  BY <1>8, <1>9, <1>10
<1>12. /\ elog' \in Seq(EngineRecords) /\ Extends(elog, elog') /\ Len(elog) <= Len(elog')
       /\ \A k, t : InEngine(k, t)' <=> InEngine(k, t) \/ EngineRecord(k, t) \in Range(z)
       /\ Distinct(elog) /\ Distinct(z) /\ Range(elog) \cap Range(z) = {} => Distinct(elog')
       /\ Len(elog') = Len(elog) + Len(z)
  BY <1>1, <1>11, ElogGrows
<1>13. /\ \A l \in Logs : l # indexed + 1 => blog'[l] = blog[l]
       /\ blog'[indexed + 1] = <<Checkpoint(indexed + 1)>>
       /\ blog' \in [Logs -> Seq(LogRecords)]
  <2>0. Checkpoint(indexed + 1) \in LogRecords
    BY <1>7 DEF Checkpoint, LogRecords
  <2>1. <<Checkpoint(indexed + 1)>> \in Seq(LogRecords)
    BY <2>0, OneFacts
  <2>2. blog \in [Logs -> Seq(LogRecords)]
    BY <1>1 DEF XaTypes
  <2> QED BY <1>3, <1>7, <2>1, <2>2
<1>14. Len(elog') \in Nat /\ flushed <= flushed' /\ DOMAIN elog' = 1..Len(elog')
  <2>1. Len(elog') \in Nat /\ DOMAIN elog' = 1..Len(elog')
    BY <1>12
  <2> QED BY <1>3, <1>6, <1>12, <2>1
<1>empty. MemoryEmpty'
  <2>1. Len(blog'[indexed']) = 1
    BY <1>3, <1>13
  <2> QED BY <1>2, <1>3, <1>4, <2>1 DEF MemoryEmpty, ForLogs, NotDone, NoRequest, NoFlush
<1>types. XaTypes'
  <2>1. pc' \in [Actors -> TrxLabels \cup BgLabels]
    BY <1>3 DEF TrxLabels, FlusherLabels, BgLabels
  <2>2. flushed' \in 0..Len(elog')
    BY <1>3, <1>14
  <2>3. indexed' \in Logs /\ first' \in 1..indexed' /\ synced' \in 1..Len(blog'[indexed'])
    <3>1. first \in 1..indexed
      BY <1>1 DEF XaTypes
    <3>2. Len(blog'[indexed']) = 1
      BY <1>3, <1>13
    <3>3. first \in 1..(indexed + 1)
      BY <1>6, <3>1
    <3>4. indexed' = indexed + 1 /\ first' = first /\ synced' = 1
      BY <1>3
    <3> QED BY <1>7, <3>2, <3>3, <3>4
  <2>4. MemoryEmpty' /\ IndexedType' => MemoryTypes'
    BY EmptyTypes, PTL
  <2> QED BY <1>12, <1>13, <1>empty, <2>1, <2>2, <2>3, <2>4 DEF XaTypes, MemoryTypes, IndexedType
<1>labels. LabelsOk'
  BY <1>5, Who DEF LabelsOk, TrxLabels, FlusherLabels, BgLabels, Marking
<1>quiet. Quiet'
  BY <1>5, <1>empty, Who DEF Quiet
<1>all. LocksOk' /\ GroupsOk' /\ RotatedOk' /\ SyncedOk' /\ RequestOk' /\ FlushOk' /\ DoneOk' /\ HoldOk'
  <2>1. XaTypes' /\ Quiet' =>
          LocksOk' /\ GroupsOk' /\ RotatedOk' /\ SyncedOk' /\ RequestOk' /\ FlushOk' /\ DoneOk' /\ HoldOk'
    BY QuietOk, PTL
  <2> QED BY <1>types, <1>quiet, <2>1
<1>grow. /\ \A k, t : InEngine(k, t) => InEngine(k, t)'
         /\ \A k, t : Durable(k, t) => Durable(k, t)'
         /\ \A l : blog'[l] = blog[l] => (DoneLog(l) => DoneLog(l)')
  BY <1>1, <1>types, <1>12, <1>14, Grows
<1>15. ASSUME NEW k, NEW t, InEngine(k, t)' PROVE Durable(k, t)'
  BY <1>3, <1>14, <1>15 DEF InEngine, Durable, Range
\* the new file has no transaction
<1>16. \A t \in Trx, l \in Logs : InFile(t, l)' <=> InFile(t, l)
  <2> SUFFICES ASSUME NEW t \in Trx, NEW l \in Logs PROVE InFile(t, l)' <=> InFile(t, l)
    OBVIOUS
  <2>1. CASE l # indexed + 1
    BY <1>13, <2>1 DEF InFile
  <2>2. CASE l = indexed + 1
    <3>1. ~InFile(t, l)
      <4>1. ~(l <= indexed)
        BY <1>6, <2>2
      <4> QED BY <1>1, <1>2, <4>1 DEF IndexOk
    <3>2. Range(<<Checkpoint(indexed + 1)>>) = {Checkpoint(indexed + 1)}
      BY OneFacts
    <3>3. Xid(t) \notin Range(blog'[l])
      BY <1>13, <2>2, <3>2, XidIs
    <3> QED BY <3>1, <3>3 DEF InFile
  <2> QED BY <2>1, <2>2
<1>17. \A t \in Trx : InBinlog(t)' <=> InBinlog(t)
  BY <1>16 DEF InBinlog, InFile
\* what is not scanned has been committed
<1>18. ASSUME NEW t \in Trx, NEW l \in Logs, InFile(t, l) PROVE InEngine("commit", t) \/ t \in Scanned
  <2>1. PICK c \in Logs : IsLast(blog[indexed], c)
    BY <1>1 DEF LastOk
  <2>2. LastCheckpoint = c
    BY <1>1, <2>1, LastIs
  <2>3. l <= indexed
    BY <1>1, <1>2, <1>18 DEF IndexOk
  <2>4. l \in Nat /\ c \in Nat /\ 1 <= l
    BY <1>6 DEF Logs
  <2>5. CASE c <= l
    <3>1. l \in LastCheckpoint..indexed
      BY <1>6, <2>2, <2>3, <2>4, <2>5
    <3> QED BY <1>18, <3>1 DEF Scanned, InFile
  <2>6. CASE ~(c <= l)
    <3>1. PICK i \in DOMAIN blog[indexed] : blog[indexed][i] = Checkpoint(c)
      BY <2>1 DEF IsLast
    <3>2. blog[indexed][i].type = "checkpoint" /\ blog[indexed][i].arg = c
      BY <3>1, XidIs
    <3>3. \A k \in 1..(c - 1) : DoneLog(k)
      BY <1>1, <1>6, <3>1, <3>2 DEF CheckpointsOk
    <3>4. l \in 1..(c - 1)
      BY <2>4, <2>6
    <3>5. DoneLog(l)
      BY <3>3, <3>4
    <3> QED BY <1>18, <3>5 DEF DoneLog, CommitBy, InEngine, Range
  <2> QED BY <2>5, <2>6
\* every transaction in the binlog is committed now
<1>19. ASSUME NEW t \in Trx, NEW l \in Logs, InFile(t, l)
       PROVE  InEngine("commit", t)' /\ InEngine("prepare", t) /\ ~InEngine("rollback", t)'
  <2>1. InBinlog(t) /\ DiskOk(t)
    BY <1>1, <1>19 DEF InBinlog, InFile, DisksOk
  <2>2. InEngine("prepare", t) /\ ~InEngine("rollback", t)
    BY <1>1, <2>1, DurableIn DEF DiskOk
  <2>3. CASE InEngine("commit", t)
    <3>1. t \notin InDoubt
      BY <2>3 DEF InDoubt
    <3> QED BY <1>11, <1>12, <2>2, <2>3, <3>1
  <2>4. CASE ~InEngine("commit", t)
    <3>1. t \in InDoubt
      BY <2>2, <2>4 DEF InDoubt
    <3>2. t \in Scanned
      BY <1>18, <1>19, <2>4
    <3>3. EngineRecord("commit", t) \in Range(z) /\ EngineRecord("rollback", t) \notin Range(z)
      BY <1>11, <3>1, <3>2
    <3> QED BY <1>12, <2>2, <3>3
  <2> QED BY <2>3, <2>4
<1>20. \A l \in Logs : DoneLog(l)'
  <2> SUFFICES ASSUME NEW l \in Logs, NEW t \in Trx, InFile(t, l)'
               PROVE  \E i \in DOMAIN elog' : i <= flushed' /\ elog'[i] = EngineRecord("commit", t)
    BY DEF DoneLog, CommitBy
  <2>1. InEngine("commit", t)'
    BY <1>16, <1>19
  <2> QED BY <1>3, <1>14, <2>1 DEF InEngine, Range
<1>index. IndexOk'
  <2>1. first <= indexed + 1
    <3>1. first \in 1..indexed
      BY <1>1 DEF XaTypes
    <3> QED BY <1>6, <3>1
  <2>2. \A t \in Trx, l \in Logs : InFile(t, l)' => l <= indexed + 1
    <3> SUFFICES ASSUME NEW t \in Trx, NEW l \in Logs, InFile(t, l)' PROVE l <= indexed + 1
      OBVIOUS
    <3>1. l <= indexed
      BY <1>1, <1>2, <1>16 DEF IndexOk
    <3> QED BY <1>6, <3>1
  <2>3. \A a \in Threads : pc'[a] # "rotate_list"
    BY <1>5
  <2>4. blog'[indexed + 1][1].type = "checkpoint"
    BY <1>13, XidIs
  <2> QED BY <1>3, <2>1, <2>2, <2>3, <2>4 DEF IndexOk
<1>disks. DisksOk'
  <2>1. Distinct(elog')
    <3>1. Range(elog) \cap Range(z) = {}
      <4> SUFFICES ASSUME NEW x \in Range(elog), x \in Range(z) PROVE FALSE
        OBVIOUS
      <4>1. Range(z) \subseteq EngineRecords
        BY <1>11, RangeFacts
      <4>2. PICK k \in {"prepare", "commit", "rollback"}, t \in Trx : x = EngineRecord(k, t)
        BY <4>1 DEF EngineRecords, EngineRecord
      <4>3. t \in InDoubt /\ k \in {"commit", "rollback"}
        BY <1>11, <4>2
      <4>4. InEngine(k, t)
        BY <4>2 DEF InEngine
      <4> QED BY <4>3, <4>4 DEF InDoubt
    <3> QED BY <1>1, <1>11, <1>12, <3>1 DEF DisksOk
  <2>2. ASSUME NEW t \in Trx PROVE DiskOk(t)'
    <3>1. DiskOk(t)
      BY <1>1 DEF DisksOk
    <3>2. \A l, k \in Logs : InFile(t, l)' /\ InFile(t, k)' => l = k
      BY <1>16, <3>1 DEF DiskOk
    <3>3. InBinlog(t)' => Durable("prepare", t)' /\ ~InEngine("rollback", t)'
      <4> SUFFICES ASSUME InBinlog(t)' PROVE Durable("prepare", t)' /\ ~InEngine("rollback", t)'
        OBVIOUS
      <4>1. PICK l \in Logs : InFile(t, l)
        BY <1>17 DEF InBinlog, InFile
      <4>2. InEngine("prepare", t)' /\ ~InEngine("rollback", t)'
        BY <1>19, <1>grow, <4>1
      <4> QED BY <1>15, <4>2
    <3>4. InEngine("commit", t)' => /\ Durable("prepare", t)' /\ ~InEngine("rollback", t)'
                                    /\ sync_period = 1 => InBinlog(t)'
      <4>1. CASE InEngine("commit", t)
        <5>1. t \notin InDoubt
          BY <4>1 DEF InDoubt
        <5> QED BY <1>11, <1>12, <1>17, <1>grow, <3>1, <4>1, <5>1 DEF DiskOk
      <4>2. CASE ~InEngine("commit", t) /\ InEngine("commit", t)'
        <5>1. t \in Scanned
          BY <1>11, <1>12, <4>2
        <5>2. PICK l \in LastCheckpoint..indexed : Xid(t) \in Range(blog[l])
          BY <5>1 DEF Scanned
        <5>3. PICK c \in Logs : IsLast(blog[indexed], c)
          BY <1>1 DEF LastOk
        <5>4. LastCheckpoint = c
          BY <1>1, <5>3, LastIs
        <5>5. l \in Logs
          BY <1>6, <5>4 DEF Logs
        <5>6. InBinlog(t)
          BY <5>2, <5>5 DEF InBinlog
        <5> QED BY <1>17, <3>3, <5>6
      <4> QED BY <4>1, <4>2
    <3>5. InEngine("rollback", t)' => Durable("rollback", t)' /\ Durable("prepare", t)'
      <4> SUFFICES ASSUME InEngine("rollback", t)' PROVE Durable("rollback", t)' /\ Durable("prepare", t)'
        OBVIOUS
      <4>1. InEngine("prepare", t)
        <5>1. CASE InEngine("rollback", t)
          BY <1>1, <3>1, <5>1, DurableIn DEF DiskOk
        <5>2. CASE ~InEngine("rollback", t)
          <6>1. t \in InDoubt
            BY <1>11, <1>12, <5>2
          <6> QED BY <6>1 DEF InDoubt
        <5> QED BY <5>1, <5>2
      <4>2. InEngine("prepare", t)'
        BY <1>grow, <4>1
      <4> QED BY <1>15, <4>2
    <3> QED BY <3>2, <3>3, <3>4, <3>5 DEF DiskOk
  <2> QED BY <2>1, <2>2 DEF DisksOk
<1>trxs. TrxsOk'
  <2> SUFFICES ASSUME NEW t \in Trx PROVE TrxOk(t)'
    BY DEF TrxsOk
  <2>1. CASE ~InEngine("prepare", t)
    <3>1. pc'[t] = "begin"
      BY <1>5, <2>1
    <3>2. ~InEngine("prepare", t)'
      BY <1>11, <1>12, <2>1
    <3> QED BY <3>1, <3>2 DEF TrxOk, Requesting, Marking
  <2>2. CASE InEngine("prepare", t)
    <3>1. pc'[t] = "end"
      BY <1>5, <2>2
    <3>2. InEngine("commit", t)' \/ InEngine("rollback", t)'
      <4>1. CASE t \in InDoubt
        BY <1>11, <1>12, <4>1
      <4>2. CASE t \notin InDoubt
        BY <1>grow, <2>2, <4>2 DEF InDoubt
      <4> QED BY <4>1, <4>2
    <3> QED BY <3>1, <3>2 DEF TrxOk, Requesting, Marking
  <2> QED BY <2>1, <2>2
<1>members. MembersOk'
  <2>1. \A a \in Threads : Range(group'[a]) = {}
    BY <1>empty DEF MemoryEmpty, Range
  <2>2. ASSUME NEW t \in Trx, InBinlog(t)' PROVE InEngine("commit", t)'
    <3>1. PICK l \in Logs : InFile(t, l)
      BY <1>17, <2>2 DEF InBinlog, InFile
    <3> QED BY <1>19, <3>1
  <2> QED BY <2>1, <2>2 DEF MembersOk
<1>checks. CheckpointsOk'
  <2> SUFFICES ASSUME NEW l \in Logs, NEW i \in DOMAIN blog'[l], blog'[l][i].type = "checkpoint"
               PROVE  /\ blog'[l][i].arg <= l /\ blog'[l][i].arg <= current'
                      /\ \A k \in 1..(blog'[l][i].arg - 1) : DoneLog(k)'
    BY DEF CheckpointsOk
  <2>1. blog'[l][i].arg \in Logs
    <3>0. blog'[l] \in Seq(LogRecords)
      BY <1>13
    <3>1. blog'[l][i] \in LogRecords
      BY <3>0, ElementOfSeq
    <3> QED BY <3>1 DEF LogRecords
  <2>2. blog'[l][i].arg <= l /\ blog'[l][i].arg <= indexed + 1
    <3>1. CASE l # indexed + 1
      <4>1. blog[l][i].arg <= l /\ blog[l][i].arg <= indexed /\ blog'[l][i] = blog[l][i]
        BY <1>1, <1>2, <1>13, <3>1 DEF CheckpointsOk
      <4>2. blog[l][i].arg \in Nat
        BY <2>1, <4>1 DEF Logs
      <4> QED BY <1>6, <4>1, <4>2
    <3>2. CASE l = indexed + 1
      <4>1. blog'[l][i] = Checkpoint(indexed + 1)
        BY <1>13, <3>2
      <4>2. blog'[l][i].arg = indexed + 1
        BY <4>1, XidIs
      <4> QED BY <1>7, <3>2, <4>2
    <3> QED BY <3>1, <3>2
  <2>3. \A k \in 1..(blog'[l][i].arg - 1) : k \in Logs
    BY <1>6, <2>1 DEF Logs
  <2> QED BY <1>3, <1>20, <2>2, <2>3
<1>last. LastOk'
  <2>1. IsLast(blog'[indexed + 1], indexed + 1)
    <3>1. 1 \in DOMAIN <<Checkpoint(indexed + 1)>> /\ \A j \in DOMAIN <<Checkpoint(indexed + 1)>> : j = 1
      OBVIOUS
    <3> QED BY <1>13, <3>1 DEF IsLast
  <2>2. first <= indexed + 1 /\ indexed + 1 <= indexed + 1
    <3>1. first \in 1..indexed
      BY <1>1 DEF XaTypes
    <3> QED BY <1>6, <3>1
  <2>3. \A a \in Threads : pc'[a] # "rotate_index"
    BY <1>5
  <2>4. \A l \in Logs : xid_count'[l] = 0
    BY <1>empty DEF MemoryEmpty, ForLogs
  <2> QED BY <1>2, <1>3, <1>7, <2>1, <2>2, <2>3, <2>4 DEF LastOk
<1>tokens. TokensOk'
  <2>1. XaTypes' /\ Quiet' /\ BehindDone' => TokensOk'
    BY QuietTokens, PTL
  <2>2. \A l \in 1..(current' - 1) : l \in Logs
    BY <1>3, <1>6, <1>7 DEF Logs
  <2>3. BehindDone'
    BY <1>20, <2>2 DEF BehindDone
  <2> QED BY <1>types, <1>quiet, <2>1, <2>3
<1> QED
  BY <1>types, <1>labels, <1>all, <1>index, <1>disks, <1>trxs, <1>members, <1>checks, <1>last, <1>tokens,
     <1>empty DEF XaInv, CrashedOk

\* a stuttering step, or recovery that does not find its file
OnlyLost == UNCHANGED <<elog, flushed, blog, synced, first, indexed, inuse, current, head, xid_count,
                        LOCK_log, LOCK_after_binlog_sync, bg_queue, next_in_queue, log_requests, pc,
                        group, rotated, done, req, to_notify, flush_notify, bg>>

\* Nothing that the invariant looks at changes but lost.
LEMMA OnlyLostStep ==
    ASSUME XaInv, OnlyLost, ~PurgeInWindow /\ sync_period = 1 => ~lost', UNCHANGED sync_period
    PROVE  XaInv'
<1>1. /\ XaTypes /\ LabelsOk /\ LocksOk /\ GroupsOk /\ RotatedOk /\ IndexOk /\ SyncedOk /\ DisksOk /\ TrxsOk
      /\ MembersOk /\ RequestOk /\ FlushOk /\ CheckpointsOk /\ LastOk /\ DoneOk /\ HoldOk /\ TokensOk
  BY DEF XaInv
<1>3. UNCHANGED <<elog, flushed, blog, synced, first, indexed, inuse, current, head, xid_count, LOCK_log,
                  LOCK_after_binlog_sync, bg_queue, next_in_queue, log_requests, pc, group, rotated, done,
                  req, to_notify, flush_notify, bg>>
  BY DEF OnlyLost, diskVars, listVars, lockVars, bgVars, ctlVars
<1>types. XaTypes'
  <2> QED BY <1>1, <1>3 DEF XaTypes
<1>labels. LabelsOk'
  BY <1>1, <1>3 DEF LabelsOk
<1>locks. LocksOk'
  <2>1. Within(LogHolders) /\ Within({"order"})
    BY <1>3 DEF Within, LogHolders
  <2> QED BY <1>1, <1>3, <2>1, LocksFrame DEF lockVars
<1>groups. GroupsOk'
  <2>1. Within(Leading) /\ Within({"follow"})
    BY <1>3 DEF Within, Leading
  <2>2. group \in [Threads -> Seq(Trx)]
    BY <1>1 DEF XaTypes
  <2> QED BY <1>1, <1>3, <2>1, <2>2, GroupsFrame
<1>rotated. RotatedOk'
  <2>1. Kept((Leading \cup Requesting) \ {"write", "sync"})
    BY <1>3 DEF Kept, Leading, Requesting
  <2> QED BY <1>1, <1>3, <2>1, RotatedFrame
<1>index. IndexOk'
  <2>1. Kept({"rotate_list"})
    BY <1>3 DEF Kept
  <2> QED BY <1>1, <1>3, <2>1, IndexFrame
<1>synced. SyncedOk'
  <2>1. Kept({"sync"})
    BY <1>3 DEF Kept
  <2> QED BY <1>1, <1>3, <2>1, SyncedFrame
<1>disks. DisksOk'
  BY <1>1, <1>3, DisksFrame
<1>trxs. TrxsOk'
  <2> SUFFICES ASSUME NEW u \in Trx PROVE TrxOk(u)'
    BY DEF TrxsOk
  <2>1. TrxOk(u)
    BY <1>1 DEF TrxsOk
  <2> QED BY <1>3, <2>1, TrxFrame
<1>members. MembersOk'
  <2>1. Within({"write"}) /\ Within(Leading \ {"write", "order"}) /\ Within({"order"}) /\ Within({"crashed"})
    BY <1>3 DEF Within, Leading
  <2> QED BY <1>1, <1>3, <2>1, MembersFrame
<1>request. RequestOk'
  <2>1. Kept({"checkpoint", "request"})
    BY <1>3 DEF Kept
  <2>2. \A l \in Logs : Stays(l)
    BY <1>3, StaysFrame
  <2>3. Len(elog') = Len(elog) /\ Len(elog) \in Nat /\ flushed' = flushed /\ flushed \in Nat
    BY <1>1, <1>3, DiskTypes
  <2>4. Len(elog) <= Len(elog') /\ flushed <= flushed'
    BY <2>3
  <2> QED BY <1>1, <1>3, <2>1, <2>2, <2>4, <1>types, RequestFrame, ListLogs
<1>flush. FlushOk'
  BY <1>1, <1>3, FlushFrame
<1>checks. CheckpointsOk'
  BY <1>1, <1>3, CheckpointsFrame
<1>last. LastOk'
  <2>1. /\ \A a \in Threads : pc[a] = "rotate_index" =>
              \E c \in head..current : blog[current + 1] = <<Checkpoint(c)>>
        /\ \E c \in Logs : /\ IsLast(blog[indexed], c)
                           /\ ~PurgeInWindow /\ sync_period = 1 => first <= c
                           /\ Running /\ ~Window => head <= c
        /\ head # current /\ xid_count[head] = 0 => \E a \in Actors : pc[a] = "done_lock"
        /\ \A l \in Logs : l < head => xid_count[l] = 0
    BY <1>1 DEF LastOk
  <2> QED BY <1>3, <2>1 DEF LastOk, Window, Running, At
<1>dones. DoneOk'
  <2>1. Within(Marking)
    BY <1>3 DEF Within, Marking
  <2> QED BY <1>1, <1>3, <2>1, DoneFrame
<1>hold. HoldOk'
  <2>1. Kept({"done"})
    BY <1>3 DEF Kept
  <2> QED BY <1>1, <1>3, <2>1, HoldFrame
<1>tokens. TokensOk'
  <2>1. Kept({"request", "notify", "done"})
    BY <1>3 DEF Kept
  <2>2. \A u \in NeedUnlog : Counted(u)' <=> Counted(u)
    <3>1. Within(CountedLabels) /\ Within(Marking) /\ Within({"done"}) /\ Within({"follow"}) /\ Within({"write", "sync"})
      BY <1>3 DEF Within, CountedLabels, Marking
    <3> QED BY <1>3, <3>1, CountedFrame, BinlogXaAssumption
  <2>3. ASSUME NEW at, LeftOk(at) PROVE LeftOk(at)'
    <3>1. Within({"next_stage", "order", "checkpoint"}) /\ Within({"crashed"})
      BY <1>3 DEF Within
    <3>2. \A l : DoneLog(l) => DoneLog(l)'
      BY <1>3 DEF DoneLog, CommitBy, InFile
    <3> QED BY <1>3, <2>3, <3>1, <3>2, LeftFrame
  <2> QED BY <1>1, <1>3, <2>1, <2>2, <2>3, TokensFrame DEF bgVars
<1> QED BY <1>types, <1>labels, <1>locks, <1>groups, <1>rotated, <1>index, <1>synced, <1>disks, <1>trxs,
     <1>members, <1>request, <1>flush, <1>checks, <1>last, <1>dones, <1>hold, <1>tokens DEF XaInv

\* Recovery that finds a file missing: only if files are purged while a
\* checkpoint is under way.
LEMMA RecoverLostStep ==
    ASSUME XaInv, CrashedOk, Recover, LastCheckpoint < first, UNCHANGED sync_period
    PROVE  XaInv' /\ CrashedOk'
<1>1. XaTypes /\ IndexOk /\ LastOk /\ LabelsOk
  BY DEF XaInv
<1>2. indexed \in inuse
  BY <1>1 DEF IndexOk
<1>3. OnlyLost
  BY <1>2 DEF Recover, OnlyLost, diskVars, lockVars, bgVars
<1>4. PICK c \in Logs : IsLast(blog[indexed], c) /\ (~PurgeInWindow /\ sync_period = 1 => first <= c)
  BY <1>1 DEF LastOk
<1>5. LastCheckpoint = c
  BY <1>1, <1>4, LastIs
<1>6. PurgeInWindow \/ sync_period # 1
  <2>1. c \in Nat /\ first \in Nat
    BY <1>1, DiskTypes DEF Logs
  <2>2. c < first
    BY <1>5
  <2>3. ~(first <= c)
    BY <2>1, <2>2
  <2> QED BY <1>4, <2>3
<1>7. XaInv'
  BY <1>3, <1>6, OnlyLostStep
<1>8. CrashedOk'
  BY <1>3 DEF CrashedOk, OnlyLost, Running, At, MemoryEmpty, ForLogs, NotDone, NoRequest, NoFlush
<1> QED BY <1>7, <1>8

\* The first binlog file has just been opened.
LEMMA InitInv ==
    ASSUME Init
    PROVE  XaInv /\ CrashedOk
<1>1. /\ elog = <<>> /\ flushed = 0
      /\ blog = [l \in Logs |-> IF l = 1 THEN <<Checkpoint(1)>> ELSE <<>>]
      /\ synced = 1 /\ first = 1 /\ indexed = 1 /\ inuse = {1} /\ current = 1 /\ head = 1
      /\ MemoryInit /\ pc = [a \in Actors |-> IF a = BG THEN "idle" ELSE "begin"] /\ lost = FALSE
  BY DEF Init, MemoryInit
<1>2. MaxLogs \in Nat /\ 1 \in Logs /\ \A l \in Logs : l \in Nat
  BY BinlogXaAssumption DEF Logs
<1>3. (\A a \in Threads : pc[a] = "begin") /\ pc[BG] = "idle"
  BY <1>1, Who
<1>4. <<Checkpoint(1)>> \in Seq(LogRecords) /\ Len(<<Checkpoint(1)>>) = 1 /\ Range(<<Checkpoint(1)>>) = {Checkpoint(1)}
  <2>1. Checkpoint(1) \in LogRecords
    BY <1>2 DEF Checkpoint, LogRecords
  <2> QED BY <2>1, OneFacts
<1>5. blog[1] = <<Checkpoint(1)>> /\ \A l \in Logs : l # 1 => blog[l] = <<>>
  BY <1>1, <1>2
<1>6. MemoryEmpty
  BY <1>1, <1>4, <1>5 DEF MemoryInit, MemoryEmpty
<1>7. XaTypes
  <2>1. pc \in [Actors -> TrxLabels \cup BgLabels]
    BY <1>1 DEF TrxLabels, FlusherLabels, BgLabels
  <2>2. blog \in [Logs -> Seq(LogRecords)]
    BY <1>1, <1>4, EmptySeq
  <2>3. elog \in Seq(EngineRecords) /\ flushed \in 0..Len(elog)
    BY <1>1, EmptySeq
  <2>4. indexed \in Logs /\ synced \in 1..Len(blog[indexed]) /\ first \in 1..indexed
    BY <1>1, <1>2, <1>4, <1>5
  <2>5. MemoryTypes
    BY <1>6, <2>4, EmptyTypes DEF IndexedType
  <2> QED BY <2>1, <2>2, <2>3, <2>4, <2>5 DEF XaTypes, MemoryTypes
<1>8. LabelsOk
  BY <1>3, Who DEF LabelsOk, TrxLabels, FlusherLabels, BgLabels
<1>9. Quiet
  BY <1>3, <1>6 DEF Quiet
<1>10. \A t, l : l \in Logs => ~InFile(t, l)
  <2>1. \A l \in Logs : l # 1 => Range(blog[l]) = {}
    BY <1>5 DEF Range
  <2> QED BY <1>4, <1>5, <2>1, XidIs DEF InFile
<1>11. \A k, t : ~InEngine(k, t) /\ ~InBinlog(t)
  BY <1>1, <1>10 DEF InEngine, Range, InBinlog, InFile
<1>12. IndexOk
  BY <1>1, <1>3, <1>5, <1>10, XidIs DEF IndexOk
<1>13. DisksOk
  <2>1. Distinct(elog)
    BY <1>1 DEF Distinct
  <2> QED BY <1>10, <1>11, <2>1 DEF DisksOk, DiskOk
<1>14. TrxsOk
  BY <1>3, <1>11, Who DEF TrxsOk, TrxOk, Requesting, Marking
<1>15. MembersOk
  <2>1. \A a \in Threads : Range(group[a]) = {}
    BY <1>6 DEF MemoryEmpty, Range
  <2> QED BY <1>11, <2>1 DEF MembersOk
<1>16. CheckpointsOk
  <2> SUFFICES ASSUME NEW l \in Logs, NEW i \in DOMAIN blog[l], blog[l][i].type = "checkpoint"
               PROVE  /\ blog[l][i].arg <= l /\ blog[l][i].arg <= current
                      /\ \A k \in 1..(blog[l][i].arg - 1) : DoneLog(k)
    BY DEF CheckpointsOk
  <2>1. l = 1
    BY <1>5
  <2>2. blog[l][i].arg = 1
    BY <1>5, <2>1, XidIs
  <2> QED BY <1>1, <2>1, <2>2
<1>17. LastOk
  <2>1. IsLast(blog[1], 1)
    <3>1. 1 \in DOMAIN <<Checkpoint(1)>> /\ \A j \in DOMAIN <<Checkpoint(1)>> : j = 1
      OBVIOUS
    <3> QED BY <1>5, <3>1 DEF IsLast
  <2>2. \A l \in Logs : xid_count[l] = 0
    BY <1>6 DEF MemoryEmpty, ForLogs
  <2> QED BY <1>1, <1>2, <1>3, <2>1, <2>2 DEF LastOk
<1>18. TokensOk
  <2>1. BehindDone
    BY <1>1 DEF BehindDone
  <2> QED BY <1>7, <1>9, <2>1, QuietTokens
<1> QED
  BY <1>6, <1>7, <1>8, <1>9, <1>12, <1>13, <1>14, <1>15, <1>16, <1>17, <1>18, QuietOk DEF XaInv, CrashedOk

-----------------------------------------------------------------------------
(* The whole invariant *)

InuseOk == inuse \subseteq Logs
FullInv == XaInv /\ CrashedOk /\ InuseOk

\* A step of a thread that runs afterwards happens while the server runs.
LEMMA Alive ==
    ASSUME XaInv', NEW a \in Actors, pc'[a] # "crashed"
    PROVE  CrashedOk'
<1>1. LabelsOk'
  BY DEF XaInv
<1>2. pc'[BG] # "crashed"
  BY <1>1 DEF LabelsOk
<1> QED BY <1>2 DEF CrashedOk, Running, At

\* Where mark_xid_done() returns to.
LEMMA ReturnLabel ==
    ASSUME XaTypes, NEW a \in Actors
    PROVE  done[a].to # "crashed"
BY DEF XaTypes

\* Every step of a thread keeps the invariant.
LEMMA ThreadStep ==
    ASSUME FullInv, \/ \E t \in Trx : Prepare(t) \/ Prepared(t) \/ Unlog(t)
                    \/ \E a \in Threads : Committing(a)
                    \/ \E a \in Actors : MarkingDone(a),
           UNCHANGED sync_period
    PROVE  FullInv'
<1>1. XaInv /\ XaTypes /\ RotatedOk /\ inuse \subseteq Logs
  BY DEF FullInv, XaInv, InuseOk
<1>2. ASSUME NEW t \in Trx, Prepare(t) PROVE FullInv'
  <2>1. XaInv'
    BY <1>1, <1>2, PrepareStep
  <2>2. t \in Actors
    BY <1>2, Who
  <2>3. pc'[t] # "crashed"
    BY <1>1, <1>2, <2>2, GotoFacts DEF Prepare, At
  <2>4. inuse' \subseteq Logs
    BY <1>1, <1>2 DEF Prepare, diskVars
  <2> QED BY <2>1, <2>2, <2>3, <2>4, Alive DEF FullInv, InuseOk
<1>3. ASSUME NEW t \in Trx, Prepared(t) PROVE FullInv'
  <2>1. XaInv'
    BY <1>1, <1>3, PreparedStep
  <2>2. t \in Actors
    BY <1>3, Who
  <2>3. pc'[t] # "crashed"
    BY <1>1, <1>3, <2>2, GotoFacts DEF Prepared, At
  <2>4. inuse' \subseteq Logs
    BY <1>1, <1>3 DEF Prepared, diskVars
  <2> QED BY <2>1, <2>2, <2>3, <2>4, Alive DEF FullInv, InuseOk
<1>4. ASSUME NEW t \in Trx, Unlog(t) PROVE FullInv'
  <2>1. XaInv'
    BY <1>1, <1>4, UnlogStep
  <2>2. t \in Actors
    BY <1>4, Who
  <2>3. pc'[t] # "crashed"
    BY <1>1, <1>4, <2>2, GotoFacts DEF Unlog, At, CallDone
  <2>4. inuse' \subseteq Logs
    BY <1>1, <1>4 DEF Unlog, diskVars
  <2> QED BY <2>1, <2>2, <2>3, <2>4, Alive DEF FullInv, InuseOk
<1>5. ASSUME NEW a \in Threads, Lead(a) PROVE FullInv'
  <2>1. XaInv'
    BY <1>1, <1>5, LeadGroupStep, LeadFlusherStep
  <2>2. a \in Actors
    BY <1>5, Who
  <2>3. pc'[a] # "crashed"
    BY <1>1, <1>5, <2>2, GotoFacts DEF Lead, At
  <2>4. inuse' \subseteq Logs
    BY <1>1, <1>5 DEF Lead, diskVars
  <2> QED BY <2>1, <2>2, <2>3, <2>4, Alive DEF FullInv, InuseOk
<1>6. ASSUME NEW a \in Threads, WriteGroup(a) PROVE FullInv'
  <2>1. XaInv'
    BY <1>1, <1>6, WriteGroupStep
  <2>2. a \in Actors
    BY <1>6, Who
  <2>3. pc'[a] # "crashed"
    BY <1>1, <1>6, <2>2, GotoFacts DEF WriteGroup, At
  <2>4. inuse' \subseteq Logs
    BY <1>1, <1>6 DEF WriteGroup, diskVars
  <2> QED BY <2>1, <2>2, <2>3, <2>4, Alive DEF FullInv, InuseOk
<1>7. ASSUME NEW a \in Threads, SyncGroup(a) PROVE FullInv'
  <2>1. XaInv'
    BY <1>1, <1>7, SyncGroupStep
  <2>2. a \in Actors
    BY <1>7, Who
  <2>3. pc'[a] # "crashed"
    BY <1>1, <1>7, <2>2, GotoFacts DEF SyncGroup, At
  <2>4. inuse' \subseteq Logs
    BY <1>1, <1>7 DEF SyncGroup, diskVars
  <2> QED BY <2>1, <2>2, <2>3, <2>4, Alive DEF FullInv, InuseOk
<1>8. ASSUME NEW a \in Threads, RotateBegin(a) PROVE FullInv'
  <2>1. XaInv'
    BY <1>1, <1>8, RotateBeginStep
  <2>2. a \in Actors
    BY <1>8, Who
  <2>3. pc'[a] # "crashed"
    BY <1>1, <1>8, <2>2, GotoFacts DEF RotateBegin, At
  <2>4. inuse' \subseteq Logs
    BY <1>1, <1>8 DEF RotateBegin, diskVars
  <2> QED BY <2>1, <2>2, <2>3, <2>4, Alive DEF FullInv, InuseOk
<1>9. ASSUME NEW a \in Threads, RotateIndex(a) PROVE FullInv'
  <2>1. XaInv'
    BY <1>1, <1>9, RotateIndexStep
  <2>2. a \in Actors
    BY <1>9, Who
  <2>3. pc'[a] # "crashed"
    BY <1>1, <1>9, <2>2, GotoFacts DEF RotateIndex, At
  <2>4. inuse' \subseteq Logs
    <3>1. current < MaxLogs
      BY <1>1, <1>9 DEF RotatedOk, RotateIndex, At
    <3>2. current + 1 \in Logs
      BY <1>1, <3>1, DiskTypes DEF Logs
    <3> QED BY <1>1, <1>9, <3>2 DEF RotateIndex
  <2> QED BY <2>1, <2>2, <2>3, <2>4, Alive DEF FullInv, InuseOk
<1>10. ASSUME NEW a \in Threads, RotateList(a) PROVE FullInv'
  <2>1. XaInv'
    BY <1>1, <1>10, RotateListStep
  <2>2. a \in Actors
    BY <1>10, Who
  <2>3. pc'[a] # "crashed"
    BY <1>1, <1>10, <2>2, GotoFacts DEF RotateList, At
  <2>4. inuse' \subseteq Logs
    BY <1>1, <1>10 DEF RotateList, diskVars
  <2> QED BY <2>1, <2>2, <2>3, <2>4, Alive DEF FullInv, InuseOk
<1>11. ASSUME NEW a \in Threads, AfterSync(a) PROVE FullInv'
  <2>1. XaInv'
    BY <1>1, <1>11, AfterSyncStep
  <2>2. a \in Actors
    BY <1>11, Who
  <2>3. pc'[a] # "crashed"
    BY <1>1, <1>11, <2>2, GotoFacts DEF AfterSync, At
  <2>4. inuse' \subseteq Logs
    BY <1>1, <1>11 DEF AfterSync, diskVars
  <2> QED BY <2>1, <2>2, <2>3, <2>4, Alive DEF FullInv, InuseOk
<1>12. ASSUME NEW a \in Threads, RunCommitOrdered(a) PROVE FullInv'
  <2>1. XaInv'
    BY <1>1, <1>12, RunCommitOrderedStep
  <2>2. a \in Actors
    BY <1>12, Who
  <2>3. pc'[a] # "crashed"
    BY <1>1, <1>12, <2>2, GotoFacts DEF RunCommitOrdered, At, AfterOrder
  <2>4. inuse' \subseteq Logs
    BY <1>1, <1>12 DEF RunCommitOrdered, diskVars
  <2> QED BY <2>1, <2>2, <2>3, <2>4, Alive DEF FullInv, InuseOk
<1>13. ASSUME NEW a \in Threads, RequestCheckpoint(a) PROVE FullInv'
  <2>1. XaInv'
    BY <1>1, <1>13, RequestCheckpointStep
  <2>2. a \in Actors
    BY <1>13, Who
  <2>3. pc'[a] # "crashed"
    BY <1>1, <1>13, <2>2, GotoFacts DEF RequestCheckpoint, At
  <2>4. inuse' \subseteq Logs
    BY <1>1, <1>13 DEF RequestCheckpoint, diskVars
  <2> QED BY <2>1, <2>2, <2>3, <2>4, Alive DEF FullInv, InuseOk
<1>14. ASSUME NEW a \in Threads, FlushRequest(a) PROVE FullInv'
  <2>1. XaInv'
    BY <1>1, <1>14, FlushRequestStep
  <2>2. a \in Actors
    BY <1>14, Who
  <2>3. pc'[a] # "crashed"
    BY <1>1, <1>14, <2>2, GotoFacts DEF FlushRequest, At
  <2>4. inuse' \subseteq Logs
    BY <1>1, <1>14 DEF FlushRequest, diskVars
  <2> QED BY <2>1, <2>2, <2>3, <2>4, Alive DEF FullInv, InuseOk
<1>15. ASSUME NEW a \in Threads, RequestNotify(a) PROVE FullInv'
  <2>1. XaInv'
    BY <1>1, <1>15, RequestNotifyOneStep, RequestNotifyEndStep
  <2>2. a \in Actors
    BY <1>15, Who
  <2>3. pc'[a] # "crashed"
    BY <1>1, <1>15, <2>2, GotoFacts DEF RequestNotify, At, CallDone
  <2>4. inuse' \subseteq Logs
    BY <1>1, <1>15 DEF RequestNotify, diskVars
  <2> QED BY <2>1, <2>2, <2>3, <2>4, Alive DEF FullInv, InuseOk
<1>16. ASSUME NEW a \in Actors, MarkXidDone(a) PROVE FullInv'
  <2>1. XaInv'
    BY <1>1, <1>16, MarkXidDoneStep
  <2>2. a \in Actors
    BY <1>16, Who
  <2>3. pc'[a] # "crashed"
    BY <1>1, <1>16, <2>2, GotoFacts, ReturnLabel DEF MarkXidDone, At, DoneReturns
  <2>4. inuse' \subseteq Logs
    BY <1>1, <1>16 DEF MarkXidDone, diskVars
  <2> QED BY <2>1, <2>2, <2>3, <2>4, Alive DEF FullInv, InuseOk
<1>17. ASSUME NEW a \in Actors, DropEntries(a) PROVE FullInv'
  <2>1. XaInv'
    BY <1>1, <1>17, DropEntriesStep
  <2>2. a \in Actors
    BY <1>17, Who
  <2>3. pc'[a] # "crashed"
    BY <1>1, <1>17, <2>2, GotoFacts DEF DropEntries, At
  <2>4. inuse' \subseteq Logs
    BY <1>1, <1>17 DEF DropEntries, diskVars
  <2> QED BY <2>1, <2>2, <2>3, <2>4, Alive DEF FullInv, InuseOk
<1>18. ASSUME NEW a \in Actors, WriteCheckpoint(a) PROVE FullInv'
  <2>1. XaInv'
    BY <1>1, <1>18, WriteCheckpointStep
  <2>2. a \in Actors
    BY <1>18, Who
  <2>3. pc'[a] # "crashed"
    BY <1>1, <1>18, <2>2, GotoFacts, ReturnLabel DEF WriteCheckpoint, At, DoneReturns
  <2>4. inuse' \subseteq Logs
    BY <1>1, <1>18 DEF WriteCheckpoint, diskVars
  <2> QED BY <2>1, <2>2, <2>3, <2>4, Alive DEF FullInv, InuseOk
<1> QED
  BY <1>2, <1>3, <1>4, <1>5, <1>6, <1>7, <1>8, <1>9, <1>10, <1>11, <1>12, <1>13, <1>14, <1>15, <1>16,
     <1>17, <1>18 DEF Committing, MarkingDone

\* Every other step of the server keeps the invariant.
LEMMA ServerStep ==
    ASSUME FullInv, Background \/ Flushing \/ Purge, UNCHANGED sync_period
    PROVE  FullInv'
<1>1. XaInv /\ XaTypes /\ LabelsOk /\ inuse \subseteq Logs
  BY DEF FullInv, XaInv, InuseOk
<1>2. XaInv'
  BY <1>1, BgGrabStep, BgProcessStep, FlushLogStep, FlushNotifyStep, FlushNotifyNextStep, PurgeStep
     DEF Background, Flushing
<1>3. pc'[BG] # "crashed"
  <2>1. CASE BgProcess
    BY <1>1, <2>1, GotoFacts, Who DEF BgProcess, CallDone
  <2>2. CASE ~BgProcess
    BY <2>2 DEF Background, Flushing, BgGrab, FlushLog, FlushNotify, FlushNotifyNext, Purge, ctlVars, At,
       Running
  <2> QED BY <2>1, <2>2
<1>4. inuse' = inuse
  BY DEF Background, Flushing, BgGrab, BgProcess, FlushLog, FlushNotify, FlushNotifyNext, Purge, diskVars
<1> QED BY <1>1, <1>2, <1>3, <1>4, Alive, Who DEF FullInv, InuseOk

\* So do a crash, and recovery.
LEMMA RestartStep ==
    ASSUME FullInv, Crash \/ Recover, UNCHANGED sync_period
    PROVE  FullInv'
<1>1. XaInv /\ CrashedOk /\ XaTypes /\ inuse \subseteq Logs
  BY DEF FullInv, XaInv, InuseOk
<1>2. XaInv' /\ CrashedOk'
  BY <1>1, CrashStep, RecoverStep, RecoverLostStep
<1>3. CASE Crash
  BY <1>1, <1>2, <1>3 DEF Crash, FullInv, InuseOk
<1>4. CASE Recover
  <2>1. inuse' = inuse \/ inuse' = {indexed + 1}
    BY <1>4 DEF Recover, diskVars
  <2>2. indexed + 1 \in Logs
    <3>1. indexed < MaxLogs
      BY <1>4 DEF Recover
    <3> QED BY <1>1, <3>1, DiskTypes DEF Logs
  <2> QED BY <1>1, <1>2, <2>1, <2>2 DEF FullInv, InuseOk
<1> QED BY <1>3, <1>4

\* A step that changes nothing.
LEMMA StutterStep ==
    ASSUME FullInv, UNCHANGED vars
    PROVE  FullInv'
<1>1. OnlyLost /\ lost' = lost /\ inuse' = inuse /\ sync_period' = sync_period
  BY DEF vars, diskVars, listVars, lockVars, bgVars, ctlVars, OnlyLost
<1>2. ~PurgeInWindow /\ sync_period = 1 => ~lost'
  BY <1>1 DEF FullInv, XaInv, LastOk
<1>3. XaInv'
  BY <1>1, <1>2, OnlyLostStep DEF FullInv
<1>4. CrashedOk'
  BY <1>1 DEF FullInv, CrashedOk, OnlyLost, Running, At, MemoryEmpty, ForLogs, NotDone, NoRequest, NoFlush
<1> QED BY <1>1, <1>3, <1>4 DEF FullInv, InuseOk

(* FullInv is an inductive invariant: after any history of commits,        *)
(* rotations, checkpoints, purges, crashes and recoveries, disk, lists and *)
(* threads are related as it says, whatever sync_binlog is.                *)
THEOREM XaInvariant == BinlogXaSpec => []FullInv
<1>1. Init => FullInv
  <2> SUFFICES ASSUME Init PROVE FullInv
    OBVIOUS
  <2>1. XaInv /\ CrashedOk
    BY InitInv
  <2>2. inuse \subseteq Logs
    BY BinlogXaAssumption DEF Init, Logs
  <2> QED BY <2>1, <2>2 DEF FullInv, InuseOk
<1>2. FullInv /\ [Next]_vars => FullInv'
  <2> SUFFICES ASSUME FullInv, [Next]_vars PROVE FullInv'
    OBVIOUS
  <2>1. CASE UNCHANGED vars
    BY <2>1, StutterStep
  <2>2. CASE Next
    BY <2>2, ThreadStep, ServerStep, RestartStep DEF Next, Steps
  <2> QED BY <2>1, <2>2
<1> QED BY <1>1, <1>2, PTL DEF BinlogXaSpec

-----------------------------------------------------------------------------
(* What follows *)

\* The state has its types.
THEOREM BinlogXaTypeCorrect == BinlogXaSpec => []BinlogXaTypeOK
<1>1. FullInv => BinlogXaTypeOK
  <2> SUFFICES ASSUME FullInv PROVE BinlogXaTypeOK
    OBVIOUS
  <2>1. XaTypes /\ inuse \subseteq Logs
    BY DEF FullInv, XaInv, InuseOk
  <2>2. synced \in 0..Len(blog[indexed])
    BY <2>1, DiskTypes DEF XaTypes
  <2> QED BY <2>1, <2>2 DEF XaTypes, BinlogXaTypeOK
<1> QED BY <1>1, XaInvariant, PTL

(* TC_LOG_BINLOG::recover() and ha_commit_trans(), if sync_binlog = 1: a   *)
(* transaction not under way is committed in InnoDB if and only if it is   *)
(* in the binlog, whatever crashes there were, and none is left prepared.  *)
THEOREM CrashConsistentAlways == BinlogXaSpec => []CrashConsistent
<1>1. FullInv => CrashConsistent
  <2> SUFFICES ASSUME FullInv, sync_period = 1, NEW t \in Trx, pc[t] = "end"
               PROVE  /\ InEngine("commit", t) <=> InBinlog(t)
                      /\ InEngine("commit", t) \/ InEngine("rollback", t)
    BY DEF CrashConsistent, At
  <2>1. DiskOk(t) /\ TrxOk(t)
    BY DEF FullInv, XaInv, DisksOk, TrxsOk
  <2>2. InEngine("commit", t) \/ InEngine("rollback", t)
    BY <2>1 DEF TrxOk
  <2>3. InEngine("commit", t) => InBinlog(t)
    BY <2>1 DEF DiskOk
  <2>4. InBinlog(t) => ~InEngine("rollback", t)
    BY <2>1 DEF DiskOk
  <2> QED BY <2>2, <2>3, <2>4
<1> QED BY <1>1, XaInvariant, PTL

(* can_purge_log(): if sync_binlog = 1 and no file is purged while         *)
(* mark_xid_done() is under way, recovery never needs a purged file.       *)
THEOREM RecoveryFindsFilesAlways ==
    ASSUME ~PurgeInWindow
    PROVE  BinlogXaSpec => []RecoveryFindsFiles
<1>1. FullInv => RecoveryFindsFiles
  BY DEF FullInv, XaInv, LastOk, RecoveryFindsFiles
<1> QED BY <1>1, XaInvariant, PTL

\* An entry of the list that is held, queued or still to be unlogged has a
\* count that is not zero, and is therefore in the list.
LEMMA CountedEntry ==
    ASSUME XaInv, NEW l \in Logs, xid_count[l] > 0
    PROVE  l >= head
<1>1. XaTypes /\ LastOk
  BY DEF XaInv
<1>2. xid_count[l] # 0
  BY <1>1 DEF XaTypes
<1>3. ~(l < head)
  BY <1>1, <1>2 DEF LastOk
<1> QED BY <1>1, <1>3, DiskTypes

\* mark_xid_done() decrements a count that is positive.
LEMMA DoneCount ==
    ASSUME XaInv, NEW a \in Actors, pc[a] = "done"
    PROVE  done[a].log \in Logs /\ xid_count[done[a].log] > 0
<1>1. XaTypes /\ DoneOk /\ TokensOk
  BY DEF XaInv
<1>2. done[a].log \in Logs
  <2>1. done[a].log \in 1..current
    BY <1>1 DEF DoneOk, Marking
  <2> QED BY <1>1, <2>1, DiskTypes DEF Logs
<1>3. PICK l \in Logs : l = done[a].log
  BY <1>2
<1>4. CASE a = BG
  <2>1. PICK at \in [Logs -> Places], q \in Seq(Logs), r \in Seq(Logs) : PlacesOk(at, q, r) /\ CountsOk(at)
    BY <1>1 DEF TokensOk
  <2>2. PlaceOk(at, q, r, l)
    BY <2>1 DEF PlacesOk
  <2>3. at[l] = "done"
    BY <1>3, <1>4, <2>2 DEF PlaceOk
  <2>4. Bit(at[l] # "none") = 1
    BY <2>3 DEF Bit
  <2>5. PICK x : x = Bit(\E b \in Threads : Holds(b, l))
    OBVIOUS
  <2>6. x \in Nat
    BY <2>5 DEF Bit
  <2>7. Cardinality(Unlogged(l)) \in Nat
    BY UnloggedFinite
  <2>8. xid_count[l] = Cardinality(Unlogged(l)) + x + 1
    BY <2>1, <2>4, <2>5 DEF CountsOk
  <2> QED BY <1>3, <2>6, <2>7, <2>8
<1>5. CASE a # BG /\ done[a].to = HoldTo(a)
  <2>1. a \in Threads
    BY <1>5, Who
  <2>2. Holds(a, l)
    BY <1>3, <1>5 DEF Holds
  <2> QED BY <1>1, <1>3, <2>1, <2>2, HeldCount
<1>6. CASE a # BG /\ done[a].to # HoldTo(a)
  <2>1. a \in Trx /\ a # FLUSHER
    BY <1>1, <1>6, Who DEF DoneOk, Marking, HoldTo
  <2>2. done[a].to = "end"
    BY <1>1, <1>6, <2>1 DEF DoneOk, Marking, HoldTo
  <2>3. a \in NeedUnlog /\ InFile(a, l)
    BY <1>1, <1>3, <2>1, <2>2 DEF DoneOk, Marking
  <2>4. a \in Unlogged(l)
    BY <2>2, <2>3 DEF Unlogged, Counted
  <2>5. Cardinality(Unlogged(l)) # 0 /\ Cardinality(Unlogged(l)) \in Nat
    BY <2>4, UnloggedFinite, FS_EmptySet
  <2>6. PICK at \in [Logs -> Places] : CountsOk(at)
    BY <1>1 DEF TokensOk
  <2>7. PICK x : x = Bit(\E b \in Threads : Holds(b, l))
    OBVIOUS
  <2>8. PICK y : y = Bit(at[l] # "none")
    OBVIOUS
  <2>9. x \in Nat /\ y \in Nat
    BY <2>7, <2>8 DEF Bit
  <2>10. xid_count[l] = Cardinality(Unlogged(l)) + x + y
    BY <2>6, <2>7, <2>8 DEF CountsOk
  <2> QED BY <1>3, <2>5, <2>9, <2>10
<1> QED BY <1>2, <1>4, <1>5, <1>6

\* What the background thread has still to process is counted.
LEMMA QueuedCount ==
    ASSUME XaInv, NEW l \in Queued
    PROVE  l \in Logs /\ xid_count[l] > 0
<1>1. XaTypes /\ TokensOk
  BY DEF XaInv
<1>2. PICK at \in [Logs -> Places], q \in Seq(Logs), r \in Seq(Logs) : PlacesOk(at, q, r) /\ CountsOk(at)
  BY <1>1 DEF TokensOk
<1>3. IsChain(q, bg_queue) /\ IsChain(r, bg)
  BY <1>2 DEF PlacesOk, ListsOk
<1>4. PICK S : S = Range(q) \cup Range(r)
  OBVIOUS
<1>5. S \in SUBSET Logs
  BY <1>4, RangeFacts
<1>6. bg_queue \in S \cup {0}
  <2>1. CASE q = <<>>
    BY <1>3, <2>1, ChainStart
  <2>2. CASE q # <<>>
    <3>1. bg_queue = q[1]
      BY <1>3, <2>2, ChainStart
    <3>2. 1 \in DOMAIN q
      BY <2>2, EmptySeq
    <3> QED BY <1>4, <3>1, <3>2 DEF Range
  <2> QED BY <2>1, <2>2
<1>7. bg \in S \cup {0}
  <2>1. CASE r = <<>>
    BY <1>3, <2>1, ChainStart
  <2>2. CASE r # <<>>
    <3>1. bg = r[1]
      BY <1>3, <2>2, ChainStart
    <3>2. 1 \in DOMAIN r
      BY <2>2, EmptySeq
    <3> QED BY <1>4, <3>1, <3>2 DEF Range
  <2> QED BY <2>1, <2>2
<1>8. ASSUME NEW p \in Seq(Logs), NEW from, IsChain(p, from), NEW k \in Range(p)
      PROVE  next_in_queue[k] \in Range(p) \cup {0}
  <2>1. PICK i \in DOMAIN p : p[i] = k
    BY <1>8 DEF Range
  <2>2. next_in_queue[k] = IF i = Len(p) THEN 0 ELSE p[i + 1]
    BY <1>8, <2>1 DEF IsChain
  <2>3. DOMAIN p = 1..Len(p) /\ Len(p) \in Nat
    BY <1>8
  <2>4. i # Len(p) => i + 1 \in DOMAIN p
    BY <2>1, <2>3
  <2> QED BY <2>2, <2>4 DEF Range
<1>9. ASSUME NEW k \in S PROVE next_in_queue[k] \in S \cup {0}
  BY <1>3, <1>4, <1>8, <1>9
<1>10. l \in S /\ l \in Logs
  BY <1>5, <1>6, <1>7, <1>9 DEF Queued
<1>11. at[l] # "none"
  <2>1. PlaceOk(at, q, r, l)
    BY <1>2, <1>10 DEF PlacesOk
  <2> QED BY <1>4, <1>10, <2>1 DEF PlaceOk
<1>12. Bit(at[l] # "none") = 1
  BY <1>11 DEF Bit
<1>13. PICK x : x = Bit(\E b \in Threads : Holds(b, l))
  OBVIOUS
<1>14. x \in Nat
  BY <1>13 DEF Bit
<1>15. Cardinality(Unlogged(l)) \in Nat
  BY UnloggedFinite
<1>16. xid_count[l] = Cardinality(Unlogged(l)) + x + 1
  BY <1>2, <1>10, <1>12, <1>13 DEF CountsOk
<1> QED BY <1>10, <1>14, <1>15, <1>16

(* The DBUG_ASSERTs of mark_xids_active() and mark_xid_done(): an entry    *)
(* that a thread, InnoDB's request list or the background thread refers to *)
(* is still in binlog_xid_count_list, with a positive count.               *)
THEOREM EntriesPresentAlways == BinlogXaSpec => []EntriesPresent
<1>1. FullInv => EntriesPresent
  <2> SUFFICES ASSUME FullInv PROVE EntriesPresent
    OBVIOUS
  <2>1. XaInv /\ XaTypes /\ RotatedOk /\ TokensOk
    BY DEF FullInv, XaInv
  <2>2. ASSUME NEW a \in Actors, pc[a] = "done" PROVE done[a].log >= head /\ xid_count[done[a].log] > 0
    BY <2>1, <2>2, DoneCount, CountedEntry
  <2>3. ASSUME NEW a \in Threads, pc[a] \in {"checkpoint", "request", "notify"} PROVE rotated[a] >= head
    <3>1. rotated[a] # 0
      BY <2>1, <2>3 DEF RotatedOk, Requesting
    <3>2. rotated[a] \in Logs
      BY <2>1, <3>1, RotatedLog
    <3>3. Holds(a, rotated[a])
      BY DEF Holds
    <3>4. xid_count[rotated[a]] > 0
      BY <2>1, <3>2, <3>3, HeldCount
    <3> QED BY <2>1, <3>2, <3>4, CountedEntry
  <2>4. ASSUME NEW l \in Queued PROVE l >= head /\ xid_count[l] > 0
    BY <2>1, <2>4, QueuedCount, CountedEntry
  <2> QED BY <2>2, <2>3, <2>4 DEF EntriesPresent, At
<1> QED BY <1>1, XaInvariant, PTL

(* write_binlog_checkpoint_event_already_locked(): the last checkpoint     *)
(* leaves behind only files whose transactions are durably committed in    *)
(* InnoDB, so recovery need not scan them.                                 *)
THEOREM CheckpointIsSafeAlways == BinlogXaSpec => []CheckpointIsSafe
<1>1. FullInv => CheckpointIsSafe
  <2> SUFFICES ASSUME FullInv, NEW t \in Trx, NEW l \in 1..(LastCheckpoint - 1), Xid(t) \in Range(blog[l])
               PROVE  InEngine("commit", t) /\ Lsn("commit", t) <= flushed
    BY DEF CheckpointIsSafe
  <2>1. XaTypes /\ LastOk /\ CheckpointsOk /\ DisksOk
    BY DEF FullInv, XaInv
  <2>2. PICK c \in Logs : IsLast(blog[indexed], c)
    BY <2>1 DEF LastOk
  <2>3. LastCheckpoint = c
    BY <2>1, <2>2, LastIs
  <2>4. PICK i \in DOMAIN blog[indexed] : blog[indexed][i] = Checkpoint(c)
    BY <2>2 DEF IsLast
  <2>5. blog[indexed][i].type = "checkpoint" /\ blog[indexed][i].arg = c
    BY <2>4, XidIs
  <2>6. indexed \in Logs
    BY <2>1, DiskTypes
  <2>7. DoneLog(l)
    BY <2>1, <2>3, <2>4, <2>5, <2>6 DEF CheckpointsOk
  <2>8. PICK j \in DOMAIN elog : j <= flushed /\ elog[j] = EngineRecord("commit", t)
    BY <2>7 DEF DoneLog, CommitBy, InFile
  <2>9. Lsn("commit", t) \in DOMAIN elog /\ elog[Lsn("commit", t)] = EngineRecord("commit", t)
    BY <2>8 DEF Lsn
  <2>10. Lsn("commit", t) = j
    BY <2>1, <2>8, <2>9 DEF DisksOk, Distinct
  <2> QED BY <2>8, <2>10 DEF InEngine, Range
<1> QED BY <1>1, XaInvariant, PTL

(* do_checkpoint_request(): when all threads are done and the redo log is  *)
(* flushed, the checkpoint has reached the current file; no notification   *)
(* was lost between InnoDB's request list, the queue and the counts.       *)
THEOREM NoNotificationLostAlways == BinlogXaSpec => []NoNotificationLost
<1>1. FullInv => NoNotificationLost
  <2> SUFFICES ASSUME FullInv, Settled PROVE head = current /\ LastCheckpoint = current
    BY DEF NoNotificationLost
  <2>1. XaTypes /\ LastOk /\ CheckpointsOk /\ TokensOk /\ RequestOk /\ FlushOk /\ RotatedOk
    BY DEF FullInv, XaInv
  <2>2. /\ \A a \in Threads : pc[a] \in {"begin", "end"}
        /\ pc[BG] = "idle" /\ bg = 0 /\ bg_queue = 0
        /\ flush_notify = NoFlush /\ flushed = Len(elog)
    BY DEF Settled, At
  <2>3. \A a \in Actors : pc[a] \in {"begin", "end", "idle"}
    BY <2>2, Who
  <2>4. /\ current \in Nat /\ head \in Nat /\ head \in Logs /\ head <= current /\ indexed \in Logs
        /\ Len(elog) \in Nat
    BY <2>1, DiskTypes
  <2>5. head = current
    <3> SUFFICES ASSUME head # current PROVE FALSE
      OBVIOUS
    <3>1. xid_count[head] # 0
      BY <2>1, <2>3 DEF LastOk
    <3>2. PICK at \in [Logs -> Places], q \in Seq(Logs), r \in Seq(Logs) : PlacesOk(at, q, r) /\ CountsOk(at)
      BY <2>1 DEF TokensOk
    <3>3. \A a \in Threads : rotated[a] = 0
      BY <2>1, <2>2 DEF RotatedOk
    <3>4. ~\E a \in Threads : Holds(a, head)
      <4>1. head # 0
        BY <2>4 DEF Logs
      <4> QED BY <2>2, <3>3, <4>1 DEF Holds
    <3>5. Unlogged(head) = {}
      <4>1. \A t \in Trx : ~Counted(t)
        BY <2>2, Who DEF Counted, CountedLabels, Marking
      <4> QED BY <4>1, BinlogXaAssumption DEF Unlogged
    <3>6. log_requests = <<>>
      <4> SUFFICES ASSUME log_requests # <<>> PROVE FALSE
        OBVIOUS
      <4>1. log_requests \in Seq(Requests)
        BY <2>1 DEF XaTypes
      <4>2. 1 \in DOMAIN log_requests
        BY <4>1, EmptySeq
      <4>3. log_requests[1].lsn > flushed
        BY <2>1, <2>2 DEF FlushOk, NoFlush
      <4>4. log_requests[1].lsn <= Len(elog)
        BY <2>1, <4>2 DEF RequestOk
      <4>5. log_requests[1] \in Requests
        BY <4>1, <4>2, ElementOfSeq
      <4>6. log_requests[1].lsn \in Nat
        BY <4>5 DEF Requests
      <4> QED BY <2>2, <2>4, <4>3, <4>4, <4>6
    <3>7. q = <<>> /\ r = <<>>
      <4>1. IsChain(q, bg_queue) /\ IsChain(r, bg)
        BY <3>2 DEF PlacesOk, ListsOk
      <4> QED BY <2>2, <4>1, ChainStart
    <3>8. \A a \in Threads : to_notify[a] = <<>>
      BY <2>2, <3>2 DEF PlacesOk, ListsOk
    <3>9. at[head] = "none"
      <4>1. PlaceOk(at, q, r, head)
        BY <2>4, <3>2 DEF PlacesOk
      <4>2. at[head] \in Places
        BY <2>4, <3>2
      <4>3. at[head] # "request" /\ at[head] # "done"
        BY <2>2, <4>1 DEF PlaceOk
      <4>4. at[head] # "list"
        BY <3>6, <4>1 DEF PlaceOk
      <4>5. at[head] # "notify"
        BY <3>8, <4>1 DEF PlaceOk, Range
      <4>6. at[head] # "flush"
        BY <2>2, <4>1 DEF PlaceOk, Range, NoFlush
      <4>7. at[head] # "queue" /\ at[head] # "bg"
        BY <3>7, <4>1 DEF PlaceOk, Range
      <4> QED BY <4>2, <4>3, <4>4, <4>5, <4>6, <4>7 DEF Places
    <3>10. Cardinality(Unlogged(head)) = 0
      BY <3>5, FS_EmptySet
    <3>11. Bit(\E a \in Threads : Holds(a, head)) = 0
      BY <3>4 DEF Bit
    <3>12. Bit(at[head] # "none") = 0
      BY <3>9 DEF Bit
    <3>13. xid_count[head] = Cardinality(Unlogged(head)) + Bit(\E a \in Threads : Holds(a, head)) + Bit(at[head] # "none")
      BY <2>4, <3>2 DEF CountsOk
    <3>14. 0 + 0 + 0 = 0
      OBVIOUS
    <3> QED BY <3>1, <3>10, <3>11, <3>12, <3>13, <3>14, Zenon
  <2>6. PICK c \in Logs : IsLast(blog[indexed], c) /\ head <= c
    <3>1. Running /\ ~Window
      BY <2>2, <2>3 DEF Running, At, Window
    <3> QED BY <2>1, <3>1 DEF LastOk
  <2>7. PICK i \in DOMAIN blog[indexed] : blog[indexed][i] = Checkpoint(c)
    BY <2>6 DEF IsLast
  <2>8. c <= current
    <3>1. blog[indexed][i].type = "checkpoint" /\ blog[indexed][i].arg = c
      BY <2>7, XidIs
    <3> QED BY <2>1, <2>4, <2>7, <3>1 DEF CheckpointsOk
  <2>9. c = current
    BY <2>4, <2>5, <2>6, <2>8 DEF Logs
  <2> QED BY <2>1, <2>5, <2>6, <2>9, LastIs
<1> QED BY <1>1, XaInvariant, PTL
=============================================================================
