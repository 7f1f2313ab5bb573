------------------------------- MODULE MCMdl --------------------------------
(* Small instances of Mdl: three sessions on the tables 1 and 2. *)
EXTENDS Mdl

Req(k, t) == [key |-> k, type |-> t, dur |-> "TRANSACTION"]
Tables == [k \in Keys |-> "TABLE"]
\* 1 alters table 1 and opens a HANDLER on table 2, 2 reads either and drops
\* table 2, 3 drops both
MixedRequests == [c \in Ctx |->
    CASE c = 1 -> {Req(1, "SU"), [Req(2, "SR") EXCEPT !.dur = "EXPLICIT"]}
      [] c = 2 -> {Req(1, "SR"), Req(2, "SR"), Req(2, "X")}
      [] c = 3 -> {}]
DropBoth == [c \in Ctx |-> IF c = 3 THEN {<<1, 2>>} ELSE {}]
Ops == [c \in Ctx |-> IF c = 3 THEN 1 ELSE 2]
\* 1 may time out, the client of 3 may leave
TimeOutOrLeave == [c \in Ctx |->
    CASE c = 1 -> {"TIMEOUT"} [] c = 2 -> {} [] c = 3 -> {"TIMEOUT", "DISCONNECT"}]
\* 1 alters table 1 in place, 2 reads it twice, 3 alters it as well
AlterRequests == [c \in Ctx |-> {Req(1, IF c = 2 THEN "SR" ELSE "SU")}]
AlterOps == [c \in Ctx |-> CASE c = 1 -> 4 [] c = 2 -> 2 [] c = 3 -> 1]
Nothing == [c \in Ctx |-> {}]
AlterUpgrades == {<<"SU", "X">>}
AlterDowngrades == {<<"X", "SU">>}
=============================================================================
