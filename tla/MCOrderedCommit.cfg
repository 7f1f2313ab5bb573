\* When all event groups have ended the system stops; a hang before that
\* is reported as a violation of EveryoneEnds.
CONSTANTS
    N = 3
    NONE = NONE
    Optimistic = {2}
    TransRetries = 1
    MaxFaults = 1
    Killable = {2}
    KillAt = {"queue_wait"}
    KillWaits = {"start", "commit", "retry", "finish"}
    Scheduling = {TRUE, FALSE}
    WriteErrors = {1, 2}
SPECIFICATION OrderedCommitSpec
CHECK_DEADLOCK FALSE
INVARIANTS BinlogInOrder OrderedAsLogged NotCommittedBehindItsBack NoForgottenWaiter
PROPERTY EveryoneEnds
