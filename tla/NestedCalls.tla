----------------------------- MODULE NestedCalls -----------------------------
(***************************************************************************)
(* call(): a task that runs other tasks and waits for their results.       *)
(*                                                                         *)
(* The parent makes the calls 1, 2, ... of its program, all of one         *)
(* function, and may look at their results in any order.  A call numbers   *)
(* itself with the parent's call_counter; that number is all that tells    *)
(* the children of a parent apart, within a run and from one run to the    *)
(* next.  A child whose RETURN is among the pending writes is not executed *)
(* again.  The end of a child's future runs its callbacks in order: on_done*)
(* commits the child's writes, the chained one resolves the future that    *)
(* call() has returned to the parent.                                      *)
(*                                                                         *)
(* A mode is how the tasks are run:                                        *)
(*   loop   "threads", jobs of a thread pool, or "asyncio", tasks of one   *)
(*          event loop, in which _acall_impl does not await between        *)
(*          submitting a child and chaining its future;                    *)
(*   limit  max_concurrency: the workers of the pool, or the value of the  *)
(*          semaphore that gates every coroutine that is submitted;        *)
(*   held   does the parent have one of them while it runs?  A task that   *)
(*          is alone in its superstep is run in the foreground instead.    *)
(***************************************************************************)
EXTENDS Naturals, Sequences, FiniteSets

CONSTANTS
    Modes,       \* how the tasks are run: a set of [loop, limit, held]
    Program,     \* number of calls the parent makes
    MaxAttempts, \* the parent's RetryPolicy.max_attempts
    LastRun      \* bound: number of runs

Positions == 1 .. Program
Ids       == 1 .. (Program + 1)   \* a retry repeats one call: see Retry
NoCall    == 0
NoLimit   == 0                    \* max_concurrency is not set

VARIABLES
    mode,        \* a member of Modes
    run, on,
    parent,      \* "idle", "running", "registering", "chaining", "failed", "done"
    attempt,     \* the parent's attempt in this run
    counter,     \* its call_counter
    next,        \* position in its program
    handle,      \* the child behind each call of this attempt
    seen,        \* results the parent has looked at: position -> what was run
    child,       \* "none", "queued", "running", "ended"
    arg,         \* the call each child was started for
    out,         \* "ok" or "error"
    callbacks,   \* registered and not run
    dest,        \* children whose chained future is resolved
    pending,     \* checkpoint_pending_writes: the call whose RETURN each child wrote
    toPut,       \* children whose writes are on their way to the checkpointer
    db,          \* the checkpointer's pending writes
    stored,      \* history: calls whose RETURN was durable when the run began
    retried      \* history: was the parent ever retried?

parentVars == <<parent, attempt, counter, next, handle, seen>>
childVars  == <<child, arg, out, callbacks, dest>>
writeVars  == <<pending, toPut, db>>
vars == <<mode, run, on, parentVars, childVars, writeVars, stored, retried>>

Nothing == [i \in Ids |-> NoCall]

TypeOK ==
    /\ mode \in Modes /\ run \in 0 .. LastRun /\ on \in BOOLEAN
    /\ parent \in {"idle", "running", "registering", "chaining", "failed", "done"}
    /\ attempt \in 0 .. MaxAttempts /\ counter \in {0} \cup Ids
    /\ next \in 1 .. (Program + 1) /\ handle \in [Positions -> {0} \cup Ids]
    /\ seen \in [Positions -> {NoCall} \cup Positions]
    /\ child \in [Ids -> {"none", "queued", "running", "ended"}]
    /\ arg \in [Ids -> {NoCall} \cup Positions] /\ out \in [Ids -> {"none", "ok", "error"}]
    /\ \A i \in Ids : callbacks[i] \in {<<>>, <<"commit">>, <<"chain">>, <<"commit", "chain">>}
    /\ dest \subseteq Ids
    /\ pending \in [Ids -> {NoCall} \cup Positions] /\ toPut \subseteq Ids
    /\ db \in [Ids -> {NoCall} \cup Positions]
    /\ stored \subseteq Positions /\ retried \in BOOLEAN

FreshParent ==
    /\ next' = 1
    /\ handle' = [p \in Positions |-> 0] /\ seen' = [p \in Positions |-> NoCall]

FreshChildren ==
    /\ child' = [i \in Ids |-> "none"] /\ arg' = Nothing
    /\ out' = [i \in Ids |-> "none"] /\ callbacks' = [i \in Ids |-> <<>>] /\ dest' = {}

Init ==
    /\ mode \in Modes /\ run = 0 /\ on = FALSE
    /\ parent = "idle" /\ attempt = 0 /\ counter = 0 /\ next = 1
    /\ handle = [p \in Positions |-> 0] /\ seen = [p \in Positions |-> NoCall]
    /\ child = [i \in Ids |-> "none"] /\ arg = Nothing
    /\ out = [i \in Ids |-> "none"] /\ callbacks = [i \in Ids |-> <<>>] /\ dest = {}
    /\ pending = Nothing /\ toPut = {} /\ db = Nothing
    /\ stored = {} /\ retried = FALSE

\* A run loads the pending writes of the superstep and starts the parent, with
\* a new scratchpad.
StartRun ==
    /\ ~on /\ run < LastRun /\ parent # "done"
    /\ run' = run + 1 /\ on' = TRUE
    /\ parent' = "running" /\ attempt' = 1 /\ counter' = 0
    /\ pending' = db
    /\ stored' = {db[i] : i \in Ids} \ {NoCall}
    /\ UNCHANGED <<mode, next, handle, seen, childVars, toPut, db, retried>>

-----------------------------------------------------------------------------
(* A child's future and its callbacks.                                     *)

\* Variant: the callback closes over the variable that holds the last child.
CommitLast(i) ==
    /\ pending' = [pending EXCEPT ![i] = IF out[i] = "ok" THEN arg[counter] ELSE NoCall]
    /\ toPut' = toPut \cup {i}
    /\ UNCHANGED db

\* commit() of a child: put_writes replaces its pending writes and submits them.
\* Writes of a failed child (ERROR, INTERRUPT) are never applied again.
Commit(i) ==
    /\ pending' = [pending EXCEPT ![i] = IF out[i] = "ok" THEN arg[i] ELSE NoCall]
    /\ toPut' = toPut \cup {i}
    /\ UNCHANGED db

\* Callbacks of a future that has ended are run by the thread that ended it, in
\* the order of their registration.
RunCallback(i) ==
    /\ on /\ child[i] = "ended" /\ callbacks[i] # <<>>
    /\ callbacks' = [callbacks EXCEPT ![i] = Tail(@)]
    /\ IF Head(callbacks[i]) = "commit"
       THEN Commit(i) /\ UNCHANGED dest
       ELSE dest' = dest \cup {i} /\ UNCHANGED writeVars
    /\ UNCHANGED <<mode, run, on, parentVars, child, arg, out, stored, retried>>

\* Variant: what the parent waits with takes a worker of its own.
HoldsTwo == IF parent \in {"running", "registering", "chaining"} THEN 2 ELSE 0

\* A parent that was submitted holds a worker, or a slot, for as long as it runs.
Holds == IF mode.held /\ parent \in {"running", "registering", "chaining"} THEN 1 ELSE 0

Free == \/ mode.limit = NoLimit
        \/ Cardinality({i \in Ids : child[i] = "running"}) + Holds < mode.limit

StartChild(i) ==
    /\ on /\ child[i] = "queued" /\ Free
    /\ child' = [child EXCEPT ![i] = "running"]
    /\ UNCHANGED <<mode, run, on, parentVars, arg, out, callbacks, dest, writeVars, stored, retried>>

\* It returns, raises, or is cancelled because the parent has failed.
EndChild(i, o) ==
    /\ on
    /\ child[i] = "running" \/ (child[i] = "queued" /\ parent = "failed" /\ o = "error")
    /\ child' = [child EXCEPT ![i] = "ended"] /\ out' = [out EXCEPT ![i] = o]
    /\ UNCHANGED <<mode, run, on, parentVars, arg, callbacks, dest, writeVars, stored, retried>>

-----------------------------------------------------------------------------
(* _call and _acall_impl, made by the parent.                              *)

\* Variant: the pending writes are matched with the tasks of the tick only.
AlreadyRanNot(i) == FALSE

\* accept_push gives the new task the pending RETURN of its id.
AlreadyRan(i) == pending[i] # NoCall

Id == counter + 1

\* The child has run before: the parent gets a future that is resolved.
CallKnown ==
    /\ on /\ parent = "running" /\ next <= Program
    /\ AlreadyRan(Id)
    /\ counter' = Id /\ handle' = [handle EXCEPT ![next] = Id] /\ next' = next + 1
    /\ dest' = dest \cup {Id} /\ out' = [out EXCEPT ![Id] = "ok"]
    /\ UNCHANGED <<mode, run, on, parent, attempt, seen, child, arg, callbacks>>
    /\ UNCHANGED <<writeVars, stored, retried>>

CallbackOrder == <<"commit", "chain">>

\* The child is submitted, and waits for a worker or for the semaphore.  The
\* callbacks are registered at once in asyncio, in two more steps of the parent's
\* thread otherwise.
CallNew ==
    /\ on /\ parent = "running" /\ next <= Program
    /\ ~AlreadyRan(Id)
    /\ counter' = Id /\ handle' = [handle EXCEPT ![next] = Id]
    /\ child' = [child EXCEPT ![Id] = "queued"]
    /\ arg' = [arg EXCEPT ![Id] = next]
    /\ IF mode.loop = "asyncio"
       THEN /\ callbacks' = [callbacks EXCEPT ![Id] = CallbackOrder]
            /\ next' = next + 1 /\ UNCHANGED parent
       ELSE parent' = "registering" /\ UNCHANGED <<callbacks, next>>
    /\ UNCHANGED <<mode, run, on, attempt, seen, out, dest, writeVars, stored, retried>>

\* futures()[fut] = next_task: on_done is registered, or called at once if the
\* child has ended by now.
Register ==
    /\ on /\ parent = "registering"
    /\ parent' = "chaining"
    /\ IF child[counter] = "ended"
       THEN Commit(counter) /\ UNCHANGED callbacks
       ELSE callbacks' = [callbacks EXCEPT ![counter] = Append(@, "commit")] /\ UNCHANGED writeVars
    /\ UNCHANGED <<mode, run, on, attempt, counter, next, handle, seen>>
    /\ UNCHANGED <<child, arg, out, dest, stored, retried>>

\* chain_future: likewise, whether or not on_done has been called.
Chain ==
    /\ on /\ parent = "chaining"
    /\ parent' = "running" /\ next' = next + 1
    /\ IF child[counter] = "ended"
       THEN dest' = dest \cup {counter} /\ UNCHANGED callbacks
       ELSE callbacks' = [callbacks EXCEPT ![counter] = Append(@, "chain")] /\ UNCHANGED dest
    /\ UNCHANGED <<mode, run, on, attempt, counter, handle, seen, child, arg, out>>
    /\ UNCHANGED <<writeVars, stored, retried>>

\* What the future of child i yields: the call that was really executed.
Result(i) == IF child[i] = "none" THEN pending[i] ELSE arg[i]

\* The parent looks at the result of its call p, which is there.
Look(p) ==
    /\ on /\ parent = "running" /\ handle[p] \in dest /\ seen[p] = NoCall
    /\ out[handle[p]] = "ok"
    /\ seen' = [seen EXCEPT ![p] = Result(handle[p])]
    /\ UNCHANGED <<mode, run, on, parent, attempt, counter, next, handle>>
    /\ UNCHANGED <<childVars, writeVars, stored, retried>>

\* The parent raises, of itself or because a child did, and is retried.  Bound:
\* once in a behaviour, before its second call.  The scratchpad and with it the
\* call counter outlive the failed attempt.
Retry ==
    /\ on /\ parent = "running" /\ attempt < MaxAttempts /\ ~retried /\ next <= 2
    /\ attempt' = attempt + 1 /\ retried' = TRUE
    /\ FreshParent
    /\ UNCHANGED <<mode, run, on, parent, counter, childVars, writeVars, stored>>

Fail ==
    /\ on /\ parent = "running" /\ attempt = MaxAttempts
    /\ parent' = "failed"
    /\ UNCHANGED <<mode, run, on, attempt, counter, next, handle, seen>>
    /\ UNCHANGED <<childVars, writeVars, stored, retried>>

\* The parent has all results and returns.
Finish ==
    /\ on /\ parent = "running" /\ \A p \in Positions : seen[p] # NoCall
    /\ parent' = "done"
    /\ UNCHANGED <<mode, run, on, attempt, counter, next, handle, seen>>
    /\ UNCHANGED <<childVars, writeVars, stored, retried>>

-----------------------------------------------------------------------------
\* The checkpointer gets a child's writes.
PutDone(i) ==
    /\ on /\ i \in toPut
    /\ toPut' = toPut \ {i} /\ db' = [db EXCEPT ![i] = pending[i]]
    /\ UNCHANGED <<mode, run, on, parentVars, childVars, pending, stored, retried>>

\* What the process kept in memory.
Forgotten ==
    /\ attempt' = 0 /\ counter' = 0 /\ FreshParent /\ FreshChildren
    /\ pending' = Nothing /\ toPut' = {} /\ stored' = {}

\* The tick is over when every future is done and has run its callbacks, the
\* run when the background jobs are done too.
EndRun ==
    /\ on /\ parent \in {"failed", "done"} /\ toPut = {}
    /\ \A i \in Ids : child[i] \notin {"queued", "running"} /\ callbacks[i] = <<>>
    /\ on' = FALSE
    /\ Forgotten
    /\ UNCHANGED <<mode, run, parent, db, retried>>

\* The process dies.  The parent's own writes were not durable.
Crash ==
    /\ on /\ on' = FALSE /\ parent' = "idle"
    /\ Forgotten
    /\ UNCHANGED <<mode, run, db, retried>>

Over == ~on /\ (run = LastRun \/ parent = "done") /\ UNCHANGED vars

Next ==
    \/ StartRun \/ CallKnown \/ CallNew \/ Register \/ Chain \/ Retry \/ Fail \/ Finish
    \/ \E p \in Positions : Look(p)
    \/ \E i \in Ids : \/ RunCallback(i) \/ StartChild(i) \/ PutDone(i)
                      \/ \E o \in {"ok", "error"} : EndChild(i, o)
    \/ EndRun \/ Crash \/ Over

\* Workers run what is queued, children end and their callbacks are called, the
\* parent does its next call and looks at what is there.
Fairness ==
    /\ WF_vars(CallKnown) /\ WF_vars(CallNew) /\ WF_vars(Register) /\ WF_vars(Chain)
    /\ \A i \in Ids : /\ WF_vars(RunCallback(i)) /\ WF_vars(StartChild(i))
                      /\ WF_vars(\E o \in {"ok", "error"} : EndChild(i, o))

Spec == Init /\ [][Next]_vars /\ Fairness

-----------------------------------------------------------------------------
(* Properties.                                                             *)

\* A parent that is executed again, after crashes, failures and retries in any
\* order, gets for each call the result of that very call; but for a parent that
\* is retried in a run that has found results of an earlier one, or runs again
\* after it was retried, whose call_counter has moved past them.
OwnResults ==
    (~retried \/ stored = {}) => \A p \in Positions : seen[p] \in {NoCall, p}

\* A call whose result was durable when a run began is not executed by that run,
\* unless a retry has moved the parent's call_counter.
NotRunAgain ==
    ~retried => \A i \in Ids : child[i] # "none" => arg[i] \notin stored

\* A submitted parent that has the only worker, or the only slot.
Starved == mode.held /\ mode.limit = 1

\* Every call() the parent has made is answered, unless the run ends: a parent
\* that was submitted holds a worker while its children wait for theirs, with
\* any max_concurrency but that one.
CallsAnswered ==
    \A i \in Ids : (on /\ child[i] # "none" /\ ~Starved)
                        ~> (i \in dest \/ ~on \/ parent = "failed")
=============================================================================
