-------------------------------- MODULE Mdl ---------------------------------
(***************************************************************************)
(* Metadata locks, sql/mdl.cc: MDL_context, MDL_lock with its granted and  *)
(* waiting lists, the wait slot MDL_wait, and the deadlock detector.       *)
(*                                                                         *)
(* What runs under the write lock MDL_lock::m_rwlock is one step.  The     *)
(* deadlock detector holds read locks on every object and context of the   *)
(* path it is on, and visits one context per step: others go on, except    *)
(* for writers of what the path holds.  Both kinds of rwlock prefer        *)
(* readers, so a waiting writer never blocks a detector.                   *)
(***************************************************************************)
EXTENDS MdlStrategy, Sequences, SequencesExt, FiniteSetsExt

CONSTANTS
    Ctx, Keys, NONE,
    Namespace,      \* namespace of each key
    Types,          \* the lock types this instance uses
    Requests,       \* for each context, what it may ask for: [key, type, dur]
    Lists,          \* for each context, the sorted key lists it may lock with X
    Upgrades, Downgrades,   \* pairs of types the SQL layer changes between
    MaxOps,         \* for each context, a bound on its calls
    Faults,         \* for each context, how its waits may end by themselves
    max_write_lock_count,
    MAX_SEARCH_DEPTH,
    COUNTER_MOD     \* stands for 2^32, the range of m_type_counters

ASSUME MdlAssumption ==
    /\ NONE \notin Ctx \cup Keys /\ Namespace \in [Keys -> Namespaces]
    /\ \A c \in Ctx : Requests[c] \subseteq
           [key : Keys, type : Types, dur : {"TRANSACTION", "EXPLICIT"}]
    /\ \A c \in Ctx : \A s \in Lists[c] : s \in Seq(Keys) /\ s # <<>> /\ "X" \in Types
    /\ Upgrades \subseteq Types \X Types /\ Downgrades \subseteq Types \X Types
    /\ MaxOps \in [Ctx -> Nat] /\ Faults \in [Ctx -> SUBSET {"TIMEOUT", "KILLED", "DISCONNECT"}]
    /\ max_write_lock_count \in Nat /\ COUNTER_MOD \in Nat \ {0}
    /\ MAX_SEARCH_DEPTH \in Nat \ {0}

VARIABLES
    m_granted, m_waiting, m_hog_lock_count,         \* MDL_lock
    m_tickets, m_wait, m_waiting_for, overweight,   \* MDL_context
    pc, ops, cur, call, result,                     \* the session's call and its locals
    dvisitor,                                       \* Deadlock_detection_visitor
    overtaken       \* history: contexts whose withdrawal came after a grant

lockVars == <<m_granted, m_waiting, m_hog_lock_count>>
ctxVars == <<m_tickets, m_wait, m_waiting_for, overweight>>
callVars == <<pc, ops, cur, call, result>>
vars == <<lockVars, ctxVars, callVars, dvisitor, overtaken>>

Idle == [path |-> <<>>, victim |-> NONE]
NoRequest == [key |-> NONE, type |-> NONE, dur |-> NONE]
NoCall == [kind |-> "none", more |-> <<>>, svp |-> 0, old |-> NONE]

Goto(c, label) == pc' = [pc EXCEPT ![c] = label]
\* go on with the call, or return from it: its locals are gone
Continue(c, label, r, cl) ==
    /\ Goto(c, label)
    /\ cur' = [cur EXCEPT ![c] = IF label \in {"run", "release"} THEN NoRequest ELSE r]
    /\ call' = [call EXCEPT ![c] = IF label \in {"run", "release"} THEN NoCall ELSE cl]

-----------------------------------------------------------------------------
(* Ticket_list: the list, a counter per type and the bitmap of types *)

EmptyList == [list |-> <<>>, count |-> [t \in Types |-> 0], bitmap |-> {}]
Ticket(c, type) == [ctx |-> c, type |-> type]

add_ticket(tl, x) ==
    [list |-> Append(tl.list, x),
     count |-> [tl.count EXCEPT ![x.type] = (@ + 1) % COUNTER_MOD],
     bitmap |-> tl.bitmap \cup {x.type}]

\* a list without its first x
Without(s, x) == IF x \in Range(s) THEN RemoveFirst(s, x) ELSE s

\* Mutant of remove_ticket: the bit is cleared while tickets of the type remain.
remove_ticket_ClearBit(tl, x) ==
    LET n == (tl.count[x.type] + COUNTER_MOD - 1) % COUNTER_MOD
    IN [list |-> Without(tl.list, x),
        count |-> [tl.count EXCEPT ![x.type] = n],
        bitmap |-> tl.bitmap \ {x.type}]

remove_ticket(tl, x) ==
    LET n == (tl.count[x.type] + COUNTER_MOD - 1) % COUNTER_MOD
    IN [list |-> Without(tl.list, x),
        count |-> [tl.count EXCEPT ![x.type] = n],
        bitmap |-> IF n = 0 THEN tl.bitmap \ {x.type} ELSE tl.bitmap]

-----------------------------------------------------------------------------
(* MDL_lock *)

Incompatible(k, type) == incompatible_granted_types_bitmap(Namespace[k], type)
Yields(k, type) == incompatible_waiting_types_bitmap(Namespace[k], type)
Hogs(k) == hog_lock_types_bitmap(Namespace[k])

\* granted tickets of others that are in the way of a request
InTheWay(k, g, type, c) ==
    {i \in DOMAIN g.list : g.list[i].ctx # c /\ g.list[i].type \in Incompatible(k, type)}

can_grant_lock(k, g, w, type, c, ignore_lock_priority) ==
    /\ ignore_lock_priority \/ w.bitmap \cap Yields(k, type) = {}
    /\ g.bitmap \cap Incompatible(k, type) = {} \/ InTheWay(k, g, type, c) = {}

\* Mutant of MayWake: a closed wait slot is taken for an open one.
MayWake_Always(c) == TRUE

\* set_status() succeeds only on an empty slot
MayWake(c) == m_wait[c] = "EMPTY"

\* one waiting ticket: granted if it can be, its context is woken
GrantTicket(k, skip_high_priority, s, x) ==
    IF /\ ~(skip_high_priority /\ x.type \in Hogs(k))
       /\ can_grant_lock(k, s.g, s.w, x.type, x.ctx, skip_high_priority)
       /\ MayWake(x.ctx)
    THEN [g |-> add_ticket(s.g, x), w |-> remove_ticket(s.w, x),
          hog |-> IF x.type \in Hogs(k) THEN s.hog + 1 ELSE s.hog,
          woken |-> s.woken \cup {x.ctx}]
    ELSE s

(* reschedule_waiters() of key k whose lists are g and w: what they are    *)
(* afterwards, the hog count, and who has been woken.                      *)
reschedule_waiters(k, g, w) ==
    LET weak(tl) == tl.bitmap \ Hogs(k) # {}
        skip_high_priority == m_hog_lock_count[k] >= max_write_lock_count /\ weak(w)
        after[i \in 0..Len(w.list)] ==
            IF i = 0 THEN [g |-> g, w |-> w, hog |-> m_hog_lock_count[k], woken |-> {}]
            ELSE GrantTicket(k, skip_high_priority, after[i - 1], w.list[i])
        end == after[Len(w.list)]
    IN [end EXCEPT !.hog = IF weak(end.w) THEN @ ELSE 0]

SetLists(k, g, w) ==
    /\ m_granted' = [m_granted EXCEPT ![k] = g]
    /\ m_waiting' = [m_waiting EXCEPT ![k] = w]

Rescheduled(k, g, w) ==
    LET s == reschedule_waiters(k, g, w) IN
    /\ SetLists(k, s.g, s.w)
    /\ m_hog_lock_count' = [m_hog_lock_count EXCEPT ![k] = s.hog]
    /\ m_wait' = [c \in Ctx |-> IF c \in s.woken THEN "GRANTED" ELSE m_wait[c]]

(* MDL_lock::remove_ticket(): a ticket leaves the list that it is in, and  *)
(* the counters of the list that the caller names.                         *)
Removed(k, g, w) ==
    IF g.list = <<>> /\ w.list = <<>>
    THEN SetLists(k, g, w) /\ UNCHANGED <<m_hog_lock_count, m_wait>>
    ELSE Rescheduled(k, g, w)

\* Mutant of RemoveWaiting: nobody is rescheduled.
RemoveWaiting_NoReschedule(k, x) ==
    SetLists(k, m_granted[k], remove_ticket(m_waiting[k], x))
        /\ UNCHANGED <<m_hog_lock_count, m_wait>>

RemoveGranted(k, x) == Removed(k, remove_ticket(m_granted[k], x), m_waiting[k])

RemoveWaiting(k, x) ==
    Removed(k, IF x \in Range(m_waiting[k].list) THEN m_granted[k]
               ELSE [m_granted[k] EXCEPT !.list = Without(@, x)],
            remove_ticket(m_waiting[k], x))

\* read locks of the deadlock detectors
ReadLocked(k) == \E d \in Ctx : \E i \in DOMAIN dvisitor[d].path : dvisitor[d].path[i].key = k
ContextReadLocked(c) == \E d \in Ctx :
    \/ dvisitor[d].victim = c
    \/ \E i \in DOMAIN dvisitor[d].path : dvisitor[d].path[i].ctx = c

Init ==
    /\ m_granted = [k \in Keys |-> EmptyList] /\ m_waiting = [k \in Keys |-> EmptyList]
    /\ m_hog_lock_count = [k \in Keys |-> 0]
    /\ m_tickets = [c \in Ctx |-> <<>>] /\ m_wait = [c \in Ctx |-> "EMPTY"]
    /\ m_waiting_for = [c \in Ctx |-> NONE] /\ overweight = [c \in Ctx |-> 0]
    /\ pc = [c \in Ctx |-> "run"] /\ ops = [c \in Ctx |-> 0]
    /\ cur = [c \in Ctx |-> NoRequest] /\ call = [c \in Ctx |-> NoCall]
    /\ result = [c \in Ctx |-> "EMPTY"]
    /\ dvisitor = [c \in Ctx |-> Idle] /\ overtaken = {}

-----------------------------------------------------------------------------
(* MDL_context: acquiring *)

(* find_ticket(): does the context already hold a ticket as strong?        *)
Found(c, r) ==
    {i \in DOMAIN m_tickets[c] : /\ m_tickets[c][i].key = r.key
                                 /\ has_stronger_or_equal_type(Namespace[r.key],
                                                               m_tickets[c][i].type, r.type)}

\* where a call goes on once its request r is granted
After(cl) == IF cl.kind = "upgrade" THEN "merge" ELSE IF cl.more # <<>> THEN "more" ELSE "run"

Push(c, r) == m_tickets' = [m_tickets EXCEPT ![c] = <<r>> \o @]

AddGranted(c, r) ==
    m_granted' = [m_granted EXCEPT ![r.key] = add_ticket(@, Ticket(c, r.type))]

(* try_acquire_lock_impl(): a found ticket of the same duration is used,   *)
(* another one, or an explicit one, is cloned; else the lock is granted if *)
(* it can be.  One of the last two adds a ticket.                          *)
Reused(c, r) == r.dur # "EXPLICIT" /\ \E i \in Found(c, r) : m_tickets[c][i].dur = r.dur
Grantable(c, r) ==
    Found(c, r) # {} \/ can_grant_lock(r.key, m_granted[r.key], m_waiting[r.key], r.type, c, FALSE)

Acquired(c, r) ==
    \/ Reused(c, r) /\ UNCHANGED <<m_granted, m_tickets>>
    \/ ~Reused(c, r) /\ Grantable(c, r) /\ ~ReadLocked(r.key) /\ AddGranted(c, r) /\ Push(c, r)

(* acquire_lock(): if the lock is not granted, wait: the ticket is added   *)
(* and the wait slot emptied under the write lock.                         *)
acquire_lock(c, r, cl) ==
    /\ \/ Acquired(c, r) /\ Continue(c, After(cl), r, cl) /\ UNCHANGED <<m_waiting, m_wait>>
       \/ /\ ~Grantable(c, r) /\ ~ReadLocked(r.key)
          /\ m_waiting' = [m_waiting EXCEPT ![r.key] = add_ticket(@, Ticket(c, r.type))]
          /\ m_wait' = [m_wait EXCEPT ![c] = "EMPTY"]
          /\ Continue(c, "added", r, cl)
          /\ UNCHANGED <<m_granted, m_tickets>>
    /\ UNCHANGED <<m_hog_lock_count, m_waiting_for, overweight, result, dvisitor>>

Begin(c) ==
    /\ pc[c] = "run" /\ ops[c] < MaxOps[c]
    /\ ops' = [ops EXCEPT ![c] = @ + 1]

Call(c, kind, more, old) ==
    [kind |-> kind, more |-> more, svp |-> Len(m_tickets[c]), old |-> old]

Acquire(c) ==
    Begin(c) /\ \E r \in Requests[c] : acquire_lock(c, r, Call(c, "acquire", <<>>, NONE))

\* try_acquire_lock(), or acquire_lock() with no time to wait
TryAcquire(c) ==
    /\ Begin(c)
    /\ \E r \in Requests[c] : Acquired(c, r) \/ (~Grantable(c, r) /\ UNCHANGED <<m_granted, m_tickets>>)
    /\ UNCHANGED <<m_waiting, m_hog_lock_count, m_wait, m_waiting_for, overweight, pc, cur, call,
                   result, dvisitor>>

(* acquire_locks(): the requests in the order of their keys. *)
Exclusive(k) == [key |-> k, type |-> "X", dur |-> "TRANSACTION"]
AcquireLocks(c) ==
    Begin(c) /\ \E s \in Lists[c] :
        acquire_lock(c, Exclusive(Head(s)), Call(c, "locks", Tail(s), NONE))

More(c) ==
    /\ pc[c] = "more" /\ UNCHANGED ops
    /\ LET s == call[c].more
       IN acquire_lock(c, Exclusive(Head(s)), [call[c] EXCEPT !.more = Tail(s)])

(* upgrade_shared_lock(): acquires the new type, then merges the tickets.  *)
Upgrade(c) ==
    \E i \in DOMAIN m_tickets[c], u \in Upgrades :
        LET t == m_tickets[c][i] IN
        /\ Begin(c) /\ t.type = u[1]
        /\ ~has_stronger_or_equal_type(Namespace[t.key], t.type, u[2]) \/ Namespace[t.key] = "BACKUP"
        /\ acquire_lock(c, [key |-> t.key, type |-> u[2], dur |-> "TRANSACTION"],
                        Call(c, "upgrade", <<>>, t))

Merge(c) ==
    LET k == cur[c].key
        old == call[c].old
        is_new_ticket == Len(m_tickets[c]) > call[c].svp
        new == Ticket(c, cur[c].type)
        g == IF is_new_ticket THEN remove_ticket(m_granted[k], new) ELSE m_granted[k]
        mine == IF is_new_ticket THEN Tail(m_tickets[c]) ELSE m_tickets[c]
        i == CHOOSE j \in DOMAIN mine : mine[j] = old
    IN
    /\ pc[c] = "merge" /\ ~ReadLocked(k)
    /\ m_granted' = [m_granted EXCEPT ![k] = add_ticket(remove_ticket(g, Ticket(c, old.type)), new)]
    /\ m_tickets' = [m_tickets EXCEPT ![c] = [mine EXCEPT ![i].type = cur[c].type]]
    /\ Continue(c, "run", cur[c], call[c])
    /\ UNCHANGED <<m_waiting, m_hog_lock_count, m_wait, m_waiting_for, overweight, ops, result,
                   dvisitor>>

(* downgrade_lock() *)
Downgrade(c) ==
    \E i \in DOMAIN m_tickets[c], d \in Downgrades :
        LET t == m_tickets[c][i]
            g == add_ticket(remove_ticket(m_granted[t.key], Ticket(c, t.type)), Ticket(c, d[2]))
        IN
        /\ Begin(c) /\ t.type = d[1] /\ ~ReadLocked(t.key)
        /\ has_stronger_or_equal_type(Namespace[t.key], t.type, d[2])
        /\ Rescheduled(t.key, g, m_waiting[t.key])
        /\ m_tickets' = [m_tickets EXCEPT ![c][i].type = d[2]]
        /\ UNCHANGED <<m_waiting_for, overweight, pc, cur, call, result, dvisitor>>

-----------------------------------------------------------------------------
(* Waiting, and the deadlock detector *)

\* will_wait_for(): from now on the wait-for graph has this edge
WillWaitFor(c) ==
    /\ pc[c] = "added" /\ ~ContextReadLocked(c)
    /\ m_waiting_for' = [m_waiting_for EXCEPT ![c] = cur[c].key]
    /\ Goto(c, "detect")
    /\ UNCHANGED <<lockVars, m_tickets, m_wait, overweight, ops, cur, call, result, dvisitor>>

\* Mutant of Blockers: pending requests are not followed.
Blockers_Granted(k, x) ==
    LET granted(y) == y.ctx # x /\ y.type \in Incompatible(k, cur[x].type)
        s == SelectSeq(m_granted[k].list, granted)
    IN [i \in DOMAIN s |-> s[i].ctx]

\* whom context x, which waits for key k, waits for: granted, then pending
Blockers(k, x) ==
    LET others(y) == y.ctx # x
        granted(y) == others(y) /\ y.type \in Incompatible(k, cur[x].type)
        pending(y) == others(y) /\ y.type \in Yields(k, cur[x].type)
        both == SelectSeq(m_granted[k].list, granted) \o SelectSeq(m_waiting[k].list, pending)
    IN [i \in DOMAIN both |-> both[i].ctx]

get_deadlock_weight(x) == deadlock_weight(Namespace[m_waiting_for[x]], cur[x].type) + overweight[x]

opt_change_victim_to(victim, new) ==
    IF victim = NONE \/ get_deadlock_weight(victim) >= get_deadlock_weight(new) THEN new ELSE victim

\* visit_subgraph() looks behind x only while its slot is empty
Searchable(x) == m_waiting_for[x] # NONE /\ m_wait[x] = "EMPTY"

(* Visit context x with the rest of the path below it.  If an edge leads   *)
(* to the start, or the search is too deep, unwind and pick the victim     *)
(* from the path; else go one level deeper.                                *)
Visit(c, x, path) ==
    LET k == m_waiting_for[x]
        todo == Blockers(k, x)
        node == [ctx |-> x, key |-> k, todo |-> todo]
        unwound == [i \in 1..(Len(path) + 1) |->
                        IF i = 1 THEN x ELSE path[Len(path) + 2 - i].ctx]
    IN
    IF ~Searchable(x)
    THEN /\ dvisitor' = [dvisitor EXCEPT ![c].path = path]
         /\ IF path = <<>> THEN Goto(c, "wait") ELSE UNCHANGED pc
    ELSE IF Len(path) + 1 >= MAX_SEARCH_DEPTH \/ c \in Range(todo)
    THEN /\ dvisitor' = [dvisitor EXCEPT ![c] =
                [path |-> <<>>, victim |-> FoldLeft(opt_change_victim_to, NONE, unwound)]]
         /\ Goto(c, "victim")
    ELSE /\ dvisitor' = [dvisitor EXCEPT ![c].path = Append(path, node)]
         /\ UNCHANGED pc

find_deadlock(c) ==
    LET path == dvisitor[c].path
        top == path[Len(path)]
    IN
    /\ pc[c] = "detect"
    /\ IF path = <<>> THEN Visit(c, c, path)
       ELSE IF top.todo # <<>>
       THEN Visit(c, Head(top.todo), [path EXCEPT ![Len(path)].todo = Tail(@)])
       ELSE /\ dvisitor' = [dvisitor EXCEPT ![c].path = Front(path)]
            /\ IF Len(path) = 1 THEN Goto(c, "wait") ELSE UNCHANGED pc
    /\ UNCHANGED <<lockVars, ctxVars, ops, cur, call, result>>

\* Mutant of SearchAgain: one search is enough.
SearchAgain_Never(c) == FALSE

\* unless the victim is the searcher itself, there may be another loop
SearchAgain(c) == dvisitor[c].victim # c

(* Only the victim's m_LOCK_waiting_for is still held; its slot may have   *)
(* been closed meanwhile.                                                  *)
SetVictim(c) ==
    LET v == dvisitor[c].victim IN
    /\ pc[c] = "victim"
    /\ m_wait' = [m_wait EXCEPT ![v] = IF @ = "EMPTY" THEN "VICTIM" ELSE @]
    /\ overweight' = [overweight EXCEPT ![v] = @ + 1]
    /\ dvisitor' = [dvisitor EXCEPT ![c] = Idle]
    /\ Goto(c, IF SearchAgain(c) THEN "detect" ELSE "wait")
    /\ UNCHANGED <<lockVars, m_tickets, m_waiting_for, ops, cur, call, result>>

WaitReturns(c, r) ==
    /\ pc[c] = "wait"
    /\ result' = [result EXCEPT ![c] = r]
    /\ Goto(c, "woken")
    /\ UNCHANGED <<lockVars, m_tickets, m_waiting_for, overweight, ops, cur, call, dvisitor>>

\* timed_wait(): somebody has set the slot
Wait(c) == m_wait[c] # "EMPTY" /\ WaitReturns(c, m_wait[c]) /\ UNCHANGED m_wait

(* The wait ends by itself.  timed_wait() closes the slot under its mutex; *)
(* if acquire_lock() finds between two short waits that the client is      *)
(* gone, it goes on as after a timeout, but the slot stays open.           *)
WaitFault(c) ==
    \E f \in Faults[c] :
        /\ m_wait[c] = "EMPTY" /\ WaitReturns(c, f)
        /\ m_wait' = [m_wait EXCEPT ![c] = IF f = "DISCONNECT" THEN @ ELSE f]

DoneWaitingFor(c) ==
    /\ pc[c] = "woken" /\ ~ContextReadLocked(c)
    /\ m_waiting_for' = [m_waiting_for EXCEPT ![c] = NONE]
    /\ \/ /\ result[c] = "GRANTED" /\ result' = [result EXCEPT ![c] = "EMPTY"]
          /\ Push(c, cur[c]) /\ Continue(c, After(call[c]), cur[c], call[c])
       \/ result[c] # "GRANTED" /\ Goto(c, "withdraw") /\ UNCHANGED <<m_tickets, cur, call, result>>
    /\ UNCHANGED <<lockVars, m_wait, overweight, ops, dvisitor>>

(* The statement fails: the SQL layer goes on or ends the transaction. *)
Fail(c) == \E label \in {"run", "release"} : Continue(c, label, cur[c], call[c])

Withdraw(c) ==
    /\ pc[c] = "withdraw" /\ ~ReadLocked(cur[c].key)
    /\ RemoveWaiting(cur[c].key, Ticket(c, cur[c].type))
    /\ IF call[c].kind = "locks" THEN Goto(c, "rollback") /\ UNCHANGED <<cur, call>>
       ELSE Fail(c)
    /\ result' = [result EXCEPT ![c] = "EMPTY"]
    /\ UNCHANGED <<m_tickets, m_waiting_for, overweight, ops, dvisitor>>

-----------------------------------------------------------------------------
(* MDL_context: releasing *)

Release(c, i) ==
    LET t == m_tickets[c][i] IN
    /\ ~ReadLocked(t.key)
    /\ RemoveGranted(t.key, Ticket(c, t.type))
    /\ m_tickets' = [m_tickets EXCEPT ![c] = RemoveAt(@, i)]

\* acquire_locks() failed: rollback_to_savepoint()
Rollback(c) ==
    /\ pc[c] = "rollback"
    /\ \/ Len(m_tickets[c]) > call[c].svp /\ Release(c, 1) /\ UNCHANGED <<pc, cur, call>>
       \/ Len(m_tickets[c]) = call[c].svp /\ Fail(c) /\ UNCHANGED <<lockVars, m_tickets, m_wait>>
    /\ UNCHANGED <<m_waiting_for, overweight, ops, result, dvisitor>>

Transactional(c) == {i \in DOMAIN m_tickets[c] : m_tickets[c][i].dur = "TRANSACTION"}
\* the transaction ends, or, with none open, the session
Commit(c) ==
    /\ pc[c] = "run" /\ Goto(c, "release")
    /\ ops' = [ops EXCEPT ![c] = IF Transactional(c) # {} THEN @ ELSE MaxOps[c]]
    /\ UNCHANGED <<lockVars, ctxVars, cur, call, result, dvisitor>>

(* release_transactional_locks(), and release_explicit_locks() when the    *)
(* session ends: one ticket after another, the latest first.               *)
Due(c) == IF ops[c] = MaxOps[c] THEN DOMAIN m_tickets[c] ELSE Transactional(c)
ReleaseLocks(c) ==
    /\ pc[c] = "release"
    /\ IF Due(c) # {}
       THEN Release(c, Min(Due(c))) /\ UNCHANGED pc
       ELSE /\ Goto(c, IF ops[c] = MaxOps[c] THEN "end" ELSE "run")
            /\ UNCHANGED <<lockVars, m_tickets, m_wait>>
    /\ UNCHANGED <<m_waiting_for, overweight, ops, cur, call, result, dvisitor>>

-----------------------------------------------------------------------------
\* what a session's thread does by itself, and what the SQL layer may ask of it
Run(c) ==
    \/ More(c) \/ Merge(c) \/ WillWaitFor(c) \/ find_deadlock(c) \/ SetVictim(c) \/ Wait(c)
    \/ DoneWaitingFor(c) \/ Withdraw(c) \/ Rollback(c) \/ Commit(c) \/ ReleaseLocks(c)
Request(c) == Acquire(c) \/ TryAcquire(c) \/ AcquireLocks(c) \/ Upgrade(c) \/ Downgrade(c)

\* c left its slot open, and withdraws a ticket that is in m_granted by now
Overtaken(c) == pc[c] = "withdraw" /\ result[c] = "DISCONNECT" /\ m_wait[c] = "GRANTED"

Next ==
    \E c \in Ctx : /\ Run(c) \/ Request(c) \/ WaitFault(c)
                  /\ overtaken' = IF Overtaken(c) THEN overtaken \cup {c} ELSE overtaken

MdlSafety == Init /\ [][Next]_vars

\* ENABLED Run(c)
Ready(c) ==
    CASE pc[c] \in {"run", "detect", "victim"} -> TRUE
      [] pc[c] = "more" -> Reused(c, Exclusive(Head(call[c].more))) \/ ~ReadLocked(Head(call[c].more))
      [] pc[c] \in {"merge", "withdraw"} -> ~ReadLocked(cur[c].key)
      [] pc[c] \in {"added", "woken"} -> ~ContextReadLocked(c)
      [] pc[c] = "wait" -> m_wait[c] # "EMPTY"
      [] pc[c] = "rollback" -> Len(m_tickets[c]) > call[c].svp => ~ReadLocked(m_tickets[c][1].key)
      [] pc[c] = "release" -> Due(c) # {} => ~ReadLocked(m_tickets[c][Min(Due(c))].key)
      [] pc[c] = "end" -> FALSE

(* Some thread that can go on does so, and a session that holds locks ends *)
(* its transaction: weak fairness of Run with ENABLED written out.  Every  *)
(* call ends, so no stronger fairness is needed; no wait need fail.        *)
MdlSpec ==
    MdlSafety /\ ([]<>(\A c \in Ctx : ~Ready(c)) \/ []<><<\E c \in Ctx : Run(c)>>_vars)
-----------------------------------------------------------------------------
(* Properties *)

Listed(k) == Range(m_granted[k].list)

(* Two contexts never hold conflicting locks on a key, whether they got    *)
(* them at once, from the queue, by upgrade, downgrade or clone.           *)
NoConflictingGrants ==
    \A k \in Keys : \A x, y \in Listed(k) :
        x.ctx # y.ctx => x.type \notin Incompatible(k, y.type) \/ y.type \notin Incompatible(k, x.type)

(* Between two operations on a key, no waiting request with an open slot   *)
(* could be granted: nobody is left asleep by reschedule_waiters() or by   *)
(* an operation that should have called it.  For max_write_lock_count out  *)
(* of reach, as by default.                                                *)
NoMissedGrant ==
    \A k \in Keys : \A x \in Range(m_waiting[k].list) :
        m_wait[x.ctx] = "EMPTY" =>
            ~can_grant_lock(k, m_granted[k], m_waiting[k], x.type, x.ctx, FALSE)

(* With a limit, a strong request that could be granted is left waiting    *)
(* for a weak one only if that one's slot is closed: it will withdraw, and *)
(* reschedule again.  That is what the comment in reschedule_waiters()     *)
(* says of weak requests that it fails to wake.                            *)
SkippedForClosedSlots ==
    \A k \in Keys : \A x \in Range(m_waiting[k].list) :
        m_wait[x.ctx] = "EMPTY"
            /\ can_grant_lock(k, m_granted[k], m_waiting[k], x.type, x.ctx, FALSE) =>
        \E y \in Range(m_waiting[k].list) : y.type \notin Hogs(k) /\ m_wait[y.ctx] # "EMPTY"

(* Lists and contexts agree: the counters and the bitmap of a list say     *)
(* what is in it, and a granted ticket belongs to a context that holds it  *)
(* or is on its way to take it.  This lasts until acquire_lock(), having   *)
(* left because its client is gone and left its slot open, takes a ticket  *)
(* that was granted meanwhile off m_waiting: the one history after which   *)
(* counters and lists disagree (an MDL_lock keeps them when it is reused). *)
TicketsAgree == overtaken = {} =>
    /\ \A k \in Keys : \A tl \in {m_granted[k], m_waiting[k]}, t \in Types :
          /\ tl.count[t] = Cardinality({i \in DOMAIN tl.list : tl.list[i].type = t})
          /\ t \in tl.bitmap <=> tl.count[t] > 0
    /\ \A k \in Keys : \A x \in Listed(k) :
          \/ \E i \in DOMAIN m_tickets[x.ctx] :
                 m_tickets[x.ctx][i].key = k /\ m_tickets[x.ctx][i].type = x.type
          \/ m_wait[x.ctx] = "GRANTED" /\ cur[x.ctx].key = k /\ pc[x.ctx] \in
                 {"added", "detect", "victim", "wait", "woken", "withdraw"}

(* Deadlock detection is complete: whoever wait for each other in a cycle, *)
(* at least one of them still searches or has been told to stop waiting.   *)
WaitsFor(x, y) == m_waiting_for[x] # NONE /\ y \in Range(Blockers(m_waiting_for[x], x))
Asleep == {c \in Ctx : pc[c] = "wait" /\ m_wait[c] = "EMPTY"}
NoUndetectedDeadlock ==
    ~\E D \in SUBSET Asleep : D # {} /\ \A x \in D : \E y \in D : WaitsFor(x, y)

(* Nobody waits forever, without any timeout: whoever blocks it ends, or   *)
(* the deadlock is resolved, and then it is woken.  Not so once a ticket   *)
(* granted meanwhile was taken off m_waiting: its counters are too low     *)
(* then, and a bit that is never cleared may hold back whoever yields to   *)
(* that type.                                                              *)
EveryWaitEnds == \A c \in Ctx : pc[c] = "wait" ~> (pc[c] # "wait" \/ overtaken # {})
=============================================================================
