------------------------------- MODULE SuxLock -------------------------------
(***************************************************************************)
(* sux_lock: the recursive latch of buffer pool blocks and indexes         *)
(* (storage/innobase/include/sux_lock.h) on top of a non-recursive lock    *)
(* that keeps the promise of SuxModes, with the rule its users follow:     *)
(* mtr_t keeps a memo of what it latched, rewrites it when a latch is      *)
(* upgraded and releases its entries in reverse order at the end of the    *)
(* mini-transaction, but any of them before (mtr/mtr0mtr.cc).              *)
(*                                                                         *)
(* "recursive" is only touched by the owner of the U or X lock, so its     *)
(* update is one action with the neighbouring step; "writer" is read by    *)
(* every thread without the lock, so the steps before and after its store  *)
(* are separate.                                                           *)
(***************************************************************************)
EXTENDS Naturals, Sequences, SequencesExt

CONSTANTS
    Threads,
    FOR_IO,        \* the owner that stands for "released by an I/O thread"
    NONE,          \* writer = 0
    RECURSIVE_U,   \* the unit of U locks in "recursive" (1U << 16)
    MaxHold        \* bound: latches one thread holds on the lock

ASSUME SuxAssumption ==
    /\ FOR_IO \notin Threads /\ NONE \notin Threads /\ FOR_IO # NONE
    /\ RECURSIVE_U \in Nat /\ MaxHold \in 1 .. RECURSIVE_U - 1

VARIABLES
    mode,       \* the modes held in the underlying lock
    recursive,  \* number of X locks + RECURSIVE_U * number of U locks
    writer,     \* owner of the U or X lock
    memo,       \* what each thread has latched, oldest first
    call,       \* the call of sux_lock each thread is in
    io,         \* the kind of latch that was taken for an I/O in flight
    early       \* history: who gave up its last X hold before a U hold

suxvars == <<mode, recursive, writer, memo, call, io, early>>

Owners == Threads \cup {FOR_IO}
RECURSIVE_X == 1

lock == INSTANCE SuxModes WITH Threads <- Owners

\* step "-" is no call; "wait" waits for X, "got" has the underlying lock and
\* has not set the owner, "upgrade" waits in u_wr_upgrade(), "drop" has
\* cleared the owner and has not released the underlying lock.
Idle == [step |-> "-", kind |-> "-", for |-> NONE]
Calls == [step : {"-", "wait", "got", "upgrade", "drop"},
          kind : {"-", "U", "X"}, for : Owners \cup {NONE}]

Units(kind) == IF kind = "U" THEN RECURSIVE_U ELSE RECURSIVE_X
All(s, kind) == [i \in DOMAIN s |-> kind]
OnlyU(s) == \A i \in DOMAIN s : s[i] = "U"

SuxTypeOK ==
    /\ mode \in [Owners -> lock!Modes]
    /\ recursive \in 0 .. RECURSIVE_U * RECURSIVE_U - 1
    /\ writer \in Owners \cup {NONE}
    /\ memo \in [Threads -> Seq({"S", "U", "X"})]
    /\ call \in [Threads -> Calls]
    /\ io \in {"-", "U", "X"}
    /\ early \in SUBSET Threads

SuxInit ==
    /\ lock!ModesInit
    /\ recursive = 0
    /\ writer = NONE
    /\ memo = [t \in Threads |-> <<>>]
    /\ call = [t \in Threads |-> Idle]
    /\ io = "-"
    /\ early = {}

SetCall(t, step, kind, a) ==
    call' = [call EXCEPT ![t] = [step |-> step, kind |-> kind, for |-> a]]
Return(t) == call' = [call EXCEPT ![t] = Idle]
Push(t, kind) == memo' = [memo EXCEPT ![t] = Append(@, kind)]
CanCall(t) == call[t] = Idle /\ Len(memo[t]) < MaxHold

-----------------------------------------------------------------------------
\* s_lock(), s_lock_try().  The code asserts !have_x() and !have_s(); a thread
\* that takes S on top of its own U lock is left out, for its U and S holds
\* would need a mode each.
s_lock(t) ==
    /\ CanCall(t) /\ memo[t] = <<>>
    /\ lock!AcquireS(t)
    /\ Push(t, "S")
    /\ UNCHANGED <<recursive, writer, call, io>>

s_unlock(t) ==
    /\ call[t] = Idle /\ memo[t] = <<"S">>
    /\ lock!Release(t)
    /\ memo' = [memo EXCEPT ![t] = <<>>]
    /\ UNCHANGED <<recursive, writer, call, io>>

\* A mutant: x_lock_upgraded() recurses on a U lock without upgrading it.
writer_recurse_NoUpgrade(t, kind) ==
    /\ CanCall(t) /\ writer = t
    /\ recursive' = recursive + Units(kind)
    /\ Push(t, kind)
    /\ UNCHANGED <<mode, writer, call, io>>

\* writer_recurse(): the caller finds itself to be the owner.  A recursive X
\* is only requested by a thread that has X already (ut_ad).
writer_recurse(t, kind) ==
    /\ CanCall(t) /\ writer = t
    /\ kind = "X" => recursive % RECURSIVE_U # 0
    /\ recursive' = recursive + Units(kind)
    /\ Push(t, kind)
    /\ UNCHANGED <<mode, writer, call, io>>

\* u_lock(), u_lock_try() by a thread that is not the owner; a is the thread
\* or FOR_IO.
u_lock(t, a) ==
    /\ CanCall(t) /\ writer # t /\ memo[t] = <<>>
    /\ lock!AcquireU(a)
    /\ SetCall(t, "got", "U", a)
    /\ UNCHANGED <<recursive, writer, memo, io>>

\* x_lock(), x_lock_upgraded(), x_lock_try() by a thread that is not the owner:
\* granted at once, or (not the try) as a request that waits for readers.
x_lock(t, a) ==
    /\ CanCall(t) /\ writer # t /\ memo[t] = <<>> /\ mode[a] = "none"
    /\ \/ lock!AcquireX(a) /\ SetCall(t, "got", "X", a)
       \/ /\ ~lock!Others(a, {"none"})
          /\ lock!RequestX(a) /\ SetCall(t, "wait", "X", a)
    /\ UNCHANGED <<recursive, writer, memo, io>>

x_lock_granted(t) ==
    /\ call[t].step = "wait"
    /\ lock!AcquireX(call[t].for)
    /\ SetCall(t, "got", "X", call[t].for)
    /\ UNCHANGED <<recursive, writer, memo, io>>

\* set_first_owner() and recursive = RECURSIVE_U or RECURSIVE_X.
set_first_owner(t) ==
    /\ call[t].step = "got"
    /\ recursive' = Units(call[t].kind)
    /\ writer' = call[t].for
    /\ IF call[t].for = FOR_IO
         THEN io' = call[t].kind /\ UNCHANGED memo
         ELSE Push(t, call[t].kind) /\ UNCHANGED io
    /\ Return(t)
    /\ UNCHANGED mode

-----------------------------------------------------------------------------
\* u_x_upgrade(), and x_lock_upgraded() by an owner without X: u_wr_upgrade().
\* An owner that is "early" has the X lock already: it waits in u_wr_upgrade()
\* for readers = WRITER, which never comes, and the action is never enabled.
u_x_upgrade(t) ==
    /\ call[t] = Idle /\ writer = t /\ recursive % RECURSIVE_U = 0
    /\ \/ lock!AcquireX(t)
       \/ ~lock!Others(t, {"none"}) /\ lock!RequestX(t)
    /\ SetCall(t, "upgrade", "X", t)
    /\ UNCHANGED <<recursive, writer, memo, io>>

u_wr_granted(t) ==
    /\ call[t].step = "upgrade" /\ mode[t] = "W"
    /\ lock!AcquireX(t)
    /\ UNCHANGED <<recursive, writer, memo, call, io>>

\* recursive /= RECURSIVE_U, and mtr_t::page_lock_upgrade() or lock_upgrade().
upgraded(t) ==
    /\ call[t].step = "upgrade" /\ mode[t] = "X"
    /\ recursive' = recursive \div RECURSIVE_U
    /\ memo' = [memo EXCEPT ![t] = All(@, "X")]
    /\ Return(t)
    /\ UNCHANGED <<mode, writer, io>>

\* A mutant: the underlying lock is not downgraded.
x_u_downgrade_KeepX(t) ==
    /\ call[t] = Idle /\ writer = t /\ recursive < RECURSIVE_U
    /\ recursive' = recursive * RECURSIVE_U
    /\ memo' = [memo EXCEPT ![t] = All(@, "U")]
    /\ UNCHANGED <<mode, writer, call, io>>

\* x_u_downgrade(): ut_ad(recursive <= RECURSIVE_MAX), every hold is an X hold.
x_u_downgrade(t) ==
    /\ call[t] = Idle /\ writer = t /\ recursive < RECURSIVE_U
    /\ recursive' = recursive * RECURSIVE_U
    /\ lock!Downgrade(t)
    /\ memo' = [memo EXCEPT ![t] = All(@, "U")]
    /\ UNCHANGED <<writer, call, io>>

\* claim_ownership(): a thread takes over the X lock taken for an I/O.
claim_ownership(t) ==
    /\ CanCall(t) /\ memo[t] = <<>> /\ io = "X" /\ writer = FOR_IO
    /\ writer' = t
    /\ mode' = [mode EXCEPT ![t] = mode[FOR_IO], ![FOR_IO] = "none"]
    /\ Push(t, "X")
    /\ io' = "-"
    /\ UNCHANGED <<recursive, call>>

-----------------------------------------------------------------------------
\* A mutant: the last release does not clear the owner.
Unlock_KeepOwner(t, kind, a) ==
    /\ recursive' = recursive - Units(kind)
    /\ IF recursive = Units(kind)
         THEN SetCall(t, "drop", kind, a)
         ELSE UNCHANGED call
    /\ UNCHANGED <<mode, writer>>

\* u_or_x_unlock(), by the owner or on completion of an I/O: the last hold
\* clears the owner and goes on to release the underlying lock.
Unlock(t, kind, a) ==
    /\ recursive' = recursive - Units(kind)
    /\ IF recursive = Units(kind)
         THEN writer' = NONE /\ SetCall(t, "drop", kind, a)
         ELSE UNCHANGED <<writer, call>>
    /\ UNCHANGED mode

\* mtr_t releases its i-th latch: the newest at the end, the newest of a given
\* kind in memo_release() and release_page(), any in
\* release_block_at_savepoint().  If that was the last X hold and a U hold
\* remains, the underlying lock stays X, for nothing downgrades it.
u_or_x_unlock(t, i) ==
    /\ call[t] = Idle /\ writer = t
    /\ Unlock(t, memo[t][i], t)
    /\ memo' = [memo EXCEPT ![t] = RemoveAt(@, i)]
    /\ early' = IF memo[t][i] = "X" /\ Len(memo[t]) > 1 /\ OnlyU(memo'[t])
                  THEN early \cup {t} ELSE early
    /\ UNCHANGED io

io_complete(t) ==
    /\ call[t] = Idle /\ io # "-" /\ writer = FOR_IO
    /\ Unlock(t, io, FOR_IO)
    /\ io' = "-"
    /\ UNCHANGED memo

\* lock.u_unlock() or lock.wr_unlock().  u_unlock() on an X lock would leave
\* readers = WRITER - 1; what becomes of a latch after that is not modelled.
drop(t) ==
    /\ call[t].step = "drop" /\ mode[call[t].for] = call[t].kind
    /\ lock!Release(call[t].for)
    /\ Return(t)
    /\ UNCHANGED <<recursive, writer, memo, io>>

SuxKeepsOrder(t) ==
    \/ s_lock(t) \/ s_unlock(t)
    \/ \E kind \in {"U", "X"} : writer_recurse(t, kind)
    \/ \E a \in {t, FOR_IO} : u_lock(t, a) \/ x_lock(t, a)
    \/ x_lock_granted(t) \/ set_first_owner(t)
    \/ u_x_upgrade(t) \/ u_wr_granted(t) \/ upgraded(t) \/ x_u_downgrade(t)
    \/ claim_ownership(t)
    \/ io_complete(t) \/ drop(t)

SuxStep(t) ==
    \/ \E i \in DOMAIN memo[t] : u_or_x_unlock(t, i)
    \/ SuxKeepsOrder(t) /\ UNCHANGED early

SuxNext == \E t \in Threads : SuxStep(t)

SuxSpec == SuxInit /\ [][SuxNext]_suxvars

-----------------------------------------------------------------------------
\* A thread that finds itself in "writer" really has the underlying lock: the
\* unlocked comparison in u_lock(), x_lock() and have_u_or_x() is never fooled
\* into a recursion on a lock that somebody else holds.
NoFalseRecursion ==
    writer # NONE => mode[writer] \in {"U", "W", "X"}

\* Whoever believes it has X has X, and whoever believes it has U has U or X.
MemoIsHeld ==
    \A t \in Threads : \A i \in DOMAIN memo[t] :
        /\ memo[t][i] = "S" => mode[t] = "S"
        /\ memo[t][i] = "X" => mode[t] = "X"
        /\ memo[t][i] = "U" => mode[t] \in {"U", "W", "X"}

\* The last release calls the function that fits the underlying lock, whatever
\* was taken again, upgraded, downgraded or released before, except for one
\* history: the thread gave up its last X hold and kept a U hold.  There the
\* last release is u_unlock() of an X lock, which takes 1 from readers = WRITER.
ReleaseMatchesMode ==
    \A t \in Threads :
        call[t].step = "drop" =>
            (mode[call[t].for] = call[t].kind <=> call[t].for \notin early)
=============================================================================
