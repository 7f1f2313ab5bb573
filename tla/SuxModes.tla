------------------------------ MODULE SuxModes ------------------------------
(***************************************************************************)
(* What a slim shared-update-exclusive lock promises: S is compatible with *)
(* S and U, U with S only, X with nothing, and a thread that waits for X   *)
(* lets no new S in, so that it is served when the present readers leave.  *)
(* SsuxLock implements this specification; SuxLock is built on it.         *)
(***************************************************************************)
CONSTANT Threads

VARIABLE mode

\* "W" is an X request that has excluded everything but the S holders that
\* were there first: ssux_lock_impl::WRITER is set and readers # WRITER.
Modes == {"none", "S", "U", "W", "X"}

Others(t, ms) == \A s \in Threads \ {t} : mode[s] \in ms

ModesInit == mode = [t \in Threads |-> "none"]

Become(t, from, to, ms) ==
    /\ mode[t] \in from /\ Others(t, ms)
    /\ mode' = [mode EXCEPT ![t] = to]

AcquireS(t)  == Become(t, {"none"}, "S", {"none", "S", "U"})
AcquireU(t)  == Become(t, {"none"}, "U", {"none", "S"})
RequestX(t)  == Become(t, {"none", "U"}, "W", {"none", "S"})
AcquireX(t)  == Become(t, {"none", "U", "W"}, "X", {"none"})
Downgrade(t) == Become(t, {"X"}, "U", Modes)
Release(t)   == Become(t, {"S", "U", "X"}, "none", Modes)

ModesNext ==
    \E t \in Threads :
        \/ AcquireS(t) \/ AcquireU(t) \/ RequestX(t) \/ AcquireX(t)
        \/ Downgrade(t) \/ Release(t)

\* Whoever waits for X gets it once the readers have left, and they leave.
ModesFairness ==
    \A t \in Threads : /\ WF_mode(mode[t] = "W" /\ AcquireX(t))
                       /\ WF_mode(mode[t] = "S" /\ Release(t))

ModesSafety == ModesInit /\ [][ModesNext]_mode
ModesSpec == ModesSafety /\ ModesFairness
=============================================================================
