--------------------------- MODULE SuperstepResume ---------------------------
(***************************************************************************)
(* One superstep of a thread, executed by several runs of the loop.        *)
(*                                                                         *)
(* Every task's outcome is committed to the checkpointer as pending writes *)
(* of the current checkpoint.  If the run ends before the superstep's own  *)
(* checkpoint is durable (a task raised or interrupted, or the process     *)
(* died), the next run loads those writes and tick() decides, task by      *)
(* task, what is not executed again: tasks with channel writes are taken   *)
(* as done, tasks with an ERROR_SOURCE_NODE marker are replaced by their   *)
(* error handler, and tasks found in the node cache take the cached        *)
(* writes.  The runner executes the tasks that still have no writes.       *)
(*                                                                         *)
(* A task has two writers: the first one writes the node's update, a later *)
(* one evaluates its conditional edges.  The writes of a task are the set  *)
(* of the kinds of writes it holds.  Durability is "sync" or "async"; time *)
(* travel (is_replaying), which loads but does not reapply, is left out.   *)
(***************************************************************************)
EXTENDS Naturals, FiniteSets

CONSTANTS
    Tasks,          \* tasks that prepare_next_tasks gives for the checkpoint
    Handled,        \* those whose node has an error handler
    HandlerTasks,   \* tasks of the error handlers
    HandlerOf,      \* the handler's task of each task of Handled
    CacheTasks,     \* tasks whose node has a cache policy
    Loop,           \* "sync": SyncPregelLoop, "async": AsyncPregelLoop
    LateFailure,    \* may a node's later writer raise?
    LastRun         \* bound: runs of the loop

ASSUME ResumeAssumption ==
    /\ IsFiniteSet(Tasks) /\ Tasks # {}
    /\ Handled \subseteq Tasks /\ CacheTasks \subseteq Tasks
    /\ HandlerTasks \cap Tasks = {}
    /\ HandlerOf \in [Handled -> HandlerTasks]
    /\ \A t, u \in Handled : HandlerOf[t] = HandlerOf[u] => t = u
    /\ Loop \in {"sync", "async"}
    /\ LateFailure \in BOOLEAN
    /\ LastRun \in Nat

All      == Tasks \cup HandlerTasks
Complete == {"update", "route"}                       \* what a success writes
Control  == {"ERROR", "ERROR_SOURCE_NODE", "INTERRUPT"}
Kinds    == Complete \cup Control

VARIABLES
    pc,        \* "idle": no run, "run", "stop": the run raises,
               \* "applied": the superstep's checkpoint is in flight, "over"
    runs,      \* runs begun
    inTasks,   \* self.tasks
    writes,    \* task.writes of every task
    state,     \* the runner's view: "none", "running", "ended"
    flight,    \* put_writes submitted and not stored
    caching,   \* cache.set submitted and not stored: task and writes
    stored,    \* checkpointer: pending writes of the checkpoint
    cache      \* node cache

vars == <<pc, runs, inTasks, writes, state, flight, caching, stored, cache>>

TypeOK ==
    /\ pc \in {"idle", "run", "stop", "applied", "over"}
    /\ runs \in 0 .. LastRun
    /\ inTasks \subseteq All
    /\ writes \in [All -> SUBSET Kinds]
    /\ state \in [All -> {"none", "running", "ended"}]
    /\ flight \subseteq All \X SUBSET Kinds
    /\ caching \subseteq CacheTasks \X SUBSET Kinds
    /\ stored \in [All -> SUBSET Kinds]
    /\ cache \in [CacheTasks -> SUBSET Kinds]

Nothing == [t \in All |-> {}]

Init ==
    /\ pc = "idle" /\ runs = 0 /\ inTasks = {}
    /\ writes = Nothing /\ state = [t \in All |-> "none"]
    /\ flight = {} /\ caching = {}
    /\ stored = Nothing /\ cache = [t \in CacheTasks |-> {}]

-----------------------------------------------------------------------------
(* A run begins: the loop loads the checkpoint and tick() looks at the     *)
(* pending writes.                                                         *)

\* Variants: control writes are reapplied as well, or nothing is.
ReapplyAll(p, t)  == p[t]
ReapplyNone(p, t) == {}

\* _reapply_writes_to_succeeded_nodes
Reapply(p, t) == p[t] \ Control

\* Variant: a failed node is tried again.
NoFailedBefore(p) == {}

\* Phase 1 of _resume_error_handlers_if_applicable.
FailedBefore(p) == {t \in Handled : {"ERROR", "ERROR_SOURCE_NODE"} \subseteq p[t]}

\* match_cached_writes, for a task that has no writes.
Cached(t, ws) == IF ws = {} /\ t \in CacheTasks THEN cache[t] ELSE ws

\* prepare_next_tasks, then the two steps above in this order (a handler's
\* task is added after the writes were reapplied), then match_cached_writes.
Begin ==
    /\ pc = "idle" /\ runs < LastRun
    /\ runs' = runs + 1
    /\ LET failed == FailedBefore(stored)
           hs     == {HandlerOf[t] : t \in failed}
           resumed(t) == CASE t \in failed      -> Reapply(stored, t) \cup {"ERROR"}
                           [] t \in Tasks \ failed -> Reapply(stored, t)
                           [] OTHER             -> {}
       IN  /\ inTasks' = Tasks \cup hs
           /\ writes' = [t \in All |-> Cached(t, resumed(t))]
    /\ state' = [t \in All |-> "none"]
    /\ pc' = "run"
    /\ UNCHANGED <<flight, caching, stored, cache>>

-----------------------------------------------------------------------------
(* The runner.                                                             *)

\* [t for t in loop.tasks.values() if not t.writes]; run_with_retry clears the
\* writes before every attempt.
Start(t) ==
    /\ pc = "run"
    /\ t \in inTasks
    /\ state[t] = "none"
    /\ writes[t] = {}
    /\ state' = [state EXCEPT ![t] = "running"]
    /\ UNCHANGED <<pc, runs, inTasks, writes, flight, caching, stored, cache>>

\* Does put_writes store the task's writes in the node cache?  Only the
\* async loop asks what the first write is.
Caches(t, ws) ==
    /\ t \in CacheTasks
    /\ Loop = "async" => ws \cap Complete # {}

\* put_writes of what commit gives it: ws; the cache gets task.writes.
PutWrites(t, ws) ==
    /\ flight' = flight \cup {<<t, ws>>}
    /\ caching' = IF Caches(t, ws) THEN caching \cup {<<t, writes'[t]>>} ELSE caching

\* All writers of the task are through.
Succeed(t) ==
    /\ state[t] = "running"
    /\ pc \in {"run", "stop"}
    /\ state' = [state EXCEPT ![t] = "ended"]
    /\ writes' = [writes EXCEPT ![t] = Complete]
    /\ PutWrites(t, Complete)
    /\ UNCHANGED <<pc, runs, inTasks, stored, cache>>

\* interrupt() in the node: the interrupt is saved, task.writes stay empty.
Interrupt(t) ==
    /\ state[t] = "running"
    /\ pc \in {"run", "stop"}
    /\ state' = [state EXCEPT ![t] = "ended"]
    /\ UNCHANGED writes
    /\ PutWrites(t, {"INTERRUPT"})
    /\ UNCHANGED <<pc, runs, inTasks, stored, cache>>

\* What a failing task has written: nothing, or its update when a later
\* writer raised.
Partial == IF LateFailure THEN {{}, {"update"}} ELSE {{}}

\* What commit adds to the writes of a task that raised.
Failure(t) == {"ERROR"} \cup (IF t \in Handled THEN {"ERROR_SOURCE_NODE"} ELSE {})

\* schedule_error_handler: the task that prepare_node_error_handler_task makes for
\* a failure of t, unless the runner has stopped.
Scheduled(t) == IF t \in Handled /\ pc = "run" THEN {HandlerOf[t]} \ inTasks ELSE {}

\* The task raises.  commit saves what it had written with the error, and the
\* marker if the node has an error handler, whose task takes the writes that an
\* earlier run left of it.
Fail(t, part) ==
    /\ state[t] = "running"
    /\ pc \in {"run", "stop"}
    /\ state' = [state EXCEPT ![t] = "ended"]
    /\ writes' = [u \in All |-> CASE u = t             -> part \cup Failure(t)
                                 [] u \in Scheduled(t) -> Reapply(stored, u)
                                 [] OTHER             -> writes[u]]
    /\ PutWrites(t, writes'[t])
    /\ inTasks' = inTasks \cup Scheduled(t)
    /\ UNCHANGED <<pc, runs, stored, cache>>

Fatal       == \E t \in inTasks \ Handled : state[t] = "ended" /\ "ERROR" \in writes[t]
Interrupted == \E t \in inTasks : state[t] = "ended" /\ writes[t] = {}
AllEnded    == \A t \in inTasks : state[t] = "ended" \/ (state[t] = "none" /\ writes[t] # {})

\* The runner raises: a failure at once, interrupts when every task has ended.
Stop ==
    /\ pc = "run"
    /\ Fatal \/ (Interrupted /\ AllEnded)
    /\ pc' = "stop"
    /\ UNCHANGED <<runs, inTasks, writes, state, flight, caching, stored, cache>>

\* A task in flight is cancelled: in the pool only one that was not started,
\* and commit then takes it for a failure; with asyncio a running one too.
Cancel(t, part) ==
    /\ pc = "stop"
    /\ t \in inTasks
    /\ \/ state[t] = "none" /\ writes[t] = {} /\ part = {}
       \/ state[t] = "running" /\ Loop = "async"
    /\ state' = [state EXCEPT ![t] = "ended"]
    /\ writes' = [writes EXCEPT ![t] =
                     part \cup (IF Loop = "async" THEN {"ERROR"} ELSE Failure(t))]
    /\ PutWrites(t, writes'[t])
    /\ UNCHANGED <<pc, runs, inTasks, stored, cache>>

-----------------------------------------------------------------------------
(* The rest of the run.                                                    *)

\* after_tick: the runner returned, the writes of all tasks are applied and the
\* superstep's checkpoint is put.
AfterTick ==
    /\ pc = "run"
    /\ AllEnded /\ ~Fatal /\ ~Interrupted
    /\ pc' = "applied"
    /\ UNCHANGED <<runs, inTasks, writes, state, flight, caching, stored, cache>>

\* The background executor stores a task's writes.  Special channels have an
\* index of their own, other writes keep the value stored first: the kinds add
\* up.
StoreWrites(w) ==
    /\ w \in flight
    /\ flight' = flight \ {w}
    /\ stored' = [stored EXCEPT ![w[1]] = @ \cup w[2]]
    /\ UNCHANGED <<pc, runs, inTasks, writes, state, caching, cache>>

StoreCache(w) ==
    /\ w \in caching
    /\ caching' = caching \ {w}
    /\ cache' = [cache EXCEPT ![w[1]] = w[2]]
    /\ UNCHANGED <<pc, runs, inTasks, writes, state, flight, stored>>

\* The superstep's checkpoint is durable: the pending writes have served.
Persist ==
    /\ pc = "applied"
    /\ pc' = "over"
    /\ UNCHANGED <<runs, inTasks, writes, state, flight, caching, stored, cache>>

\* A run that stops waits for its tasks and for the background executor.
End ==
    /\ pc = "stop"
    /\ \A t \in All : state[t] # "running"
    /\ flight = {} /\ caching = {}
    /\ pc' = "idle"
    /\ UNCHANGED <<runs, inTasks, writes, state, flight, caching, stored, cache>>

\* The process dies; what the executor had not stored is lost.
Crash ==
    /\ pc \in {"run", "stop", "applied"}
    /\ pc' = "idle"
    /\ flight' = {} /\ caching' = {}
    /\ state' = [t \in All |-> "none"]
    /\ UNCHANGED <<runs, inTasks, writes, stored, cache>>

\* The superstep is over, or nobody runs the thread again.
Rest ==
    /\ pc = "over" \/ (pc = "idle" /\ runs = LastRun)
    /\ UNCHANGED vars

Next ==
    \/ Begin \/ Stop \/ AfterTick \/ Persist \/ End \/ Crash \/ Rest
    \/ \E t \in All : Start(t) \/ Succeed(t) \/ Interrupt(t)
    \/ \E t \in All, part \in Partial : Fail(t, part) \/ Cancel(t, part)
    \/ \E w \in flight : StoreWrites(w)
    \/ \E w \in caching : StoreCache(w)

Spec == Init /\ [][Next]_vars

-----------------------------------------------------------------------------
(* Safety.                                                                 *)

\* "failed/interrupted tasks remain with empty writes and will be re-executed
\* (or routed to error handlers)" (_reapply_writes_to_succeeded_nodes): in
\* whatever run the superstep is applied, every task contributes the writes of
\* a whole success, or it failed and its handler does.
AppliedWhole ==
    pc \in {"applied", "over"} =>
        \A t \in Tasks : \/ Complete \subseteq writes[t]
                         \/ /\ t \in Handled /\ "ERROR" \in writes[t]
                            /\ Complete \subseteq writes[HandlerOf[t]]

(* Action properties.                                                      *)

IsStarted(t) == state[t] = "none" /\ state'[t] = "running"

\* "whenever we resume graph execution from that superstep we don't re-run
\* the successful nodes" (checkpoint/README.md): once the writes of a
\* success are durable the node's task is not started again, in any run.
NoRerun ==
    [][\A t \in Tasks : IsStarted(t) => ~(Complete \subseteq stored[t])]_vars

\* "This method prevents that re-execution for nodes that have an error
\* handler" (_resume_error_handlers_if_applicable): once the marker is durable
\* the failed node is not started again, in any run.
HandlerInstead ==
    [][\A t \in All : IsStarted(t) => "ERROR_SOURCE_NODE" \notin stored[t]]_vars
=============================================================================
