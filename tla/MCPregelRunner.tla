--------------------------- MODULE MCPregelRunner ---------------------------
(* Instances of PregelRunner for TLC. *)
EXTENDS PregelRunner, TLC

CONSTANTS t1, t2, h1

OneTask    == {t1}
TwoTasks   == {t1, t2}
OneHandler == {h1}
Handles1   == t1 :> h1
NoIds      == {}
Safe       == {[mode |-> "threads", timeout |-> FALSE],
               [mode |-> "asyncio", timeout |-> TRUE]}
Hasty      == {[mode |-> "threads", timeout |-> TRUE]}
=============================================================================
