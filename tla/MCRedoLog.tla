----------------------------- MODULE MCRedoLog -----------------------------
(* A small instance of RedoLog: every kind of call, with and without a     *)
(* callback, divided between three threads.                                *)
EXTENDS RedoLog

CallsOf == [t \in Threads |-> CASE t = 1 -> {"write", "durable"}
                               [] t = 2 -> {"durable", "shrink"}
                               [] t = 3 -> {"durable"}]
CallbacksOf == [t \in Threads |->
    CASE t = 1 -> {"write", "durable"} [] t = 2 -> {} [] t = 3 -> {"durable"}]
=============================================================================
