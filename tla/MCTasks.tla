------------------------------- MODULE MCTasks -------------------------------
(***************************************************************************)
(* Tasks for TLC: a behaviour is one of an agent, of attempts or of nested *)
(* calls, chosen by part, in which the variables of the others keep their  *)
(* initial values.                                                         *)
(***************************************************************************)
EXTENDS Tasks

PlainAgent == [version |-> "v2", pre |-> FALSE, post |-> FALSE, respond |-> FALSE]

FourAgents ==
    {PlainAgent,
     [PlainAgent EXCEPT !.pre = TRUE],
     [PlainAgent EXCEPT !.post = TRUE, !.respond = TRUE],
     [PlainAgent EXCEPT !.version = "v1", !.respond = TRUE]}

TwoPolicies == << [on |-> {"e1", "timeout"}, max |-> 3], [on |-> {"e2"}, max |-> 2] >>

Untimed == [mode |-> "sync", run |-> 0, idle |-> 0, refresh |-> "auto"]

FiveCalls ==
    {Untimed,
     [mode |-> "sync",  run |-> 1, idle |-> 0, refresh |-> "auto"],
     [mode |-> "async", run |-> 0, idle |-> 0, refresh |-> "auto"],
     [mode |-> "async", run |-> 2, idle |-> 1, refresh |-> "auto"],
     [mode |-> "async", run |-> 0, idle |-> 1, refresh |-> "heartbeat"]}

Mode(loop, limit, held) == [loop |-> loop, limit |-> limit, held |-> held]

\* One worker, free or held by the parent; two of which the parent holds one;
\* no limit.
SixModes ==
    {Mode("threads", 1, FALSE), Mode("threads", 1, TRUE), Mode("threads", 2, TRUE),
     Mode("asyncio", 1, FALSE), Mode("asyncio", 2, TRUE), Mode("asyncio", 0, TRUE)}

VARIABLE part

allVars == <<part, vars, attemptVars, nestedVars>>

TasksInit ==
    /\ part \in {"agent", "attempts", "calls"}
    /\ Init /\ Attempts!Init /\ Nested!Init
    /\ part # "agent" => agent = PlainAgent
    /\ part # "attempts" => call = Untimed
    /\ part # "calls" => mode = Mode("asyncio", 0, TRUE)

TasksNext ==
    /\ UNCHANGED part
    /\ \/ part = "agent" /\ Next /\ UNCHANGED <<attemptVars, nestedVars>>
       \/ part = "attempts" /\ Attempts!Next /\ UNCHANGED <<vars, nestedVars>>
       \/ part = "calls" /\ Nested!Next /\ UNCHANGED <<vars, attemptVars>>

\* No fair action of the parts that are idle is enabled.
TasksSpec ==
    /\ TasksInit /\ [][TasksNext]_allVars
    /\ Attempts!Fairness /\ Nested!Fairness
=============================================================================
