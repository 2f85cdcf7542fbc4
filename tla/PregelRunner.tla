---------------------------- MODULE PregelRunner ----------------------------
(***************************************************************************)
(* PregelRunner: how the tasks of a superstep are executed and their       *)
(* outcome committed.                                                      *)
(*                                                                         *)
(* tick/atick submits every task to the executor and keeps the futures in  *)
(* a FuturesDict.  When a future is done two things happen, in either      *)
(* order: tick's wait returns it, and its callback on_done first calls     *)
(* commit (which puts the task's writes) and then, under a lock, counts    *)
(* the future down and maybe sets the event that tick waits for before it  *)
(* returns.  A task that raises is fatal for the superstep, unless its     *)
(* node has an error handler: then tick starts the handler's task.         *)
(*                                                                         *)
(* The state lives for one tick, except the identities of the exceptions   *)
(* that were handled, which the runner keeps for the whole run.  What a    *)
(* task computes is abstracted to its outcome.  Nested call()s and the     *)
(* failure of the checkpointer's put_writes are not modelled here.         *)
(***************************************************************************)
EXTENDS Naturals, FiniteSets

CONSTANTS
    Tasks,         \* the superstep's tasks
    Handled,       \* those whose node has an error handler
    HandlerTasks,  \* tasks prepared by schedule_error_handler
    HandlerOf,     \* the handler's task of each task of Handled
    NoExc,         \* no exception
    Settings,      \* the ways the runner may be used
    Workers,       \* tasks that run at a time
    EarlierIds     \* ids of exceptions handled, and released, in earlier ticks

All == Tasks \cup HandlerTasks
Ids == All \cup EarlierIds         \* what id() returns for an exception

ASSUME RunnerAssumption ==
    /\ Tasks # {} /\ IsFiniteSet(Tasks)
    /\ Handled \subseteq Tasks
    /\ HandlerTasks \cap Tasks = {}
    /\ HandlerOf \in [Handled -> HandlerTasks]
    /\ \A t, u \in Handled : HandlerOf[t] = HandlerOf[u] => t = u
    /\ NoExc \notin Ids
    /\ Settings \subseteq [mode : {"threads", "asyncio"}, timeout : BOOLEAN]
    /\ Workers \in Nat \ {0}
    /\ EarlierIds \cap All = {}

Raised    == {"error", "interrupt", "bubble"}    \* how a task's body can raise
Outcomes  == {"ok"} \cup Raised
DoneState == Outcomes \cup {"cancelled"}

VARIABLES
    pc,           \* where tick is
    raised,       \* what tick raised: an element of Raised, "timeout", "none"
    fut,          \* state of every task's future
    exc,          \* id of the exception of a future that raised
    cb,           \* its callback: "none", "pending", "committed", "done"
    live,         \* keys of the FuturesDict that have a task
    waiter,       \* the waiter's future: "none", "pending", "ready"
    counter,      \* FuturesDict.counter
    event,        \* FuturesDict.event
    doneSet,      \* FuturesDict.done
    batch,        \* futures returned by wait and not looked at yet
    inflight,     \* did that wait leave futures in flight?
    forStop,      \* done_for_stop
    handling,     \* the failed task whose handler is being scheduled, as a set
    drained,      \* the marker writes schedule_error_handler waits for
    handledIds,   \* self._handled_exception_ids
    handledFuts,  \* handled_futures (and SKIP_RERAISE_SET)
    saved,        \* what commit put for every task
    durable,      \* tasks whose ERROR_SOURCE_NODE marker is durable
    errFuts,      \* loop._error_handler_write_futs
    cancelReq,    \* asyncio tasks that were cancelled and have not ended
    expired,      \* has the step's deadline passed?
    call          \* how tick is called: the tasks given, is there a get_waiter?
                  \* and the setting

Mode       == call.use.mode       \* "threads": tick, "asyncio": atick
HasTimeout == call.use.timeout    \* is step_timeout set?

execVars   == <<fut, exc, cb, cancelReq>>
dictVars   == <<live, counter, event, doneSet>>
batchVars  == <<batch, inflight, forStop, handling, drained>>
commitVars == <<handledIds, saved, errFuts>>
vars == <<pc, raised, execVars, dictVars, batchVars, commitVars,
          waiter, handledFuts, durable, expired, call>>

TypeOK ==
    /\ pc \in {"fast", "submit", "loop", "batch", "handler", "event", "panic",
               "returned", "raised"}
    /\ raised \in Raised \cup {"timeout", "none"}
    /\ fut \in [All -> {"none", "queued", "running"} \cup DoneState]
    /\ exc \in [All -> Ids \cup {NoExc}]
    /\ cb \in [All -> {"none", "pending", "committed", "done"}]
    /\ live \subseteq All /\ doneSet \subseteq All
    /\ waiter \in {"none", "pending", "ready"}
    /\ counter \in 0 .. Cardinality(All)
    /\ event \in BOOLEAN /\ inflight \in BOOLEAN /\ expired \in BOOLEAN
    /\ batch \subseteq All /\ forStop \subseteq All /\ drained \subseteq All
    /\ handling \subseteq Handled
    /\ handledIds \subseteq Ids \cup {NoExc} /\ handledFuts \subseteq All
    /\ saved \in [All -> {"none", "ok", "error", "marked", "interrupt"}]
    /\ durable \subseteq All /\ errFuts \subseteq All /\ cancelReq \subseteq All
    /\ call \in [tasks : SUBSET Tasks, waiter : BOOLEAN, use : Settings]

\* "fast path if single task with no timeout and no waiter"
FastPath == Cardinality(call.tasks) = 1 /\ ~HasTimeout /\ ~call.waiter

\* A tick begins with the tasks that have no writes yet: all, or those that an
\* earlier run of the superstep left.  The caller streams or does not.  The
\* runner has kept the ids handled in earlier ticks.
Init ==
    /\ call \in [tasks : SUBSET Tasks \ {{}}, waiter : BOOLEAN, use : Settings]
    /\ handledIds \in SUBSET EarlierIds
    /\ pc = IF FastPath THEN "fast" ELSE "submit"
    /\ raised = "none"
    /\ fut = [t \in All |-> "none"] /\ exc = [t \in All |-> NoExc]
    /\ cb = [t \in All |-> "none"] /\ cancelReq = {}
    /\ live = {} /\ counter = 0 /\ event = FALSE /\ doneSet = {}
    /\ waiter = IF call.waiter THEN "pending" ELSE "none"
    /\ batch = {} /\ inflight = FALSE /\ forStop = {} /\ handling = {}
    /\ drained = {} /\ handledFuts = {}
    /\ saved = [t \in All |-> "none"] /\ durable = {} /\ errFuts = {}
    /\ expired = FALSE

-----------------------------------------------------------------------------
(* Commit.                                                                 *)

IsDone(t)  == fut[t] \in DoneState
Busy       == {t \in All : fut[t] = "running"}

\* _should_route_to_error_handler: a handler's own failure is not routed.
ShouldRoute(t) == t \in Handled

\* Does commit add the ERROR_SOURCE_NODE marker?  A cancelled future of a
\* thread pool gives a concurrent.futures.CancelledError, which is not the
\* asyncio.CancelledError that commit tells apart.
Marks(t, o) ==
    /\ ShouldRoute(t)
    /\ o = "error" \/ (o = "cancelled" /\ Mode = "threads")

\* What commit puts for task t with outcome o.
SavedAs(t, o) ==
    CASE o = "ok"                     -> "ok"
      [] o = "interrupt"              -> "interrupt"
      [] o = "bubble"                 -> "none"
      [] o \in {"error", "cancelled"} -> IF Marks(t, o) THEN "marked" ELSE "error"

\* commit for the tasks of S, whose futures are in the states f with the
\* exceptions e; put_writes remembers the future of a marker's write.
Commit(S, f, e) ==
    LET marked == {t \in S : Marks(t, f[t])}
    IN  /\ saved' = [t \in All |-> IF t \in S THEN SavedAs(t, f[t]) ELSE saved[t]]
        /\ handledIds' = handledIds \cup {e[t] : t \in marked}
        /\ errFuts' = errFuts \cup marked

\* _should_stop_others
ShouldStop(S, handled) ==
    \E t \in S : /\ fut[t] = "error"
                 /\ exc[t] \notin handled
                 /\ t \notin handledFuts

\* The id of the exception that t raises: one never used, named by the task, or
\* that of an exception of an earlier tick, released with the pending writes
\* that held it.  No living exception has it.
FreshId(t, o, e) ==
    IF o = "ok" THEN e = NoExc
    ELSE e \in ({t} \cup EarlierIds) \ {exc[u] : u \in All}

-----------------------------------------------------------------------------
(* The executor and the callbacks.                                         *)

Start(t) ==
    /\ fut[t] = "queued"
    /\ Cardinality(Busy) < Workers
    /\ fut' = [fut EXCEPT ![t] = "running"]
    /\ UNCHANGED <<pc, raised, exc, cb, cancelReq, dictVars, batchVars>>
    /\ UNCHANGED <<commitVars, waiter, handledFuts, durable, expired, call>>

\* run_with_retry returns or raises; the future is done and its waiters and
\* callbacks are notified.
Finish(t, o, e) ==
    /\ fut[t] = "running"
    /\ t \notin cancelReq
    /\ FreshId(t, o, e)
    /\ fut' = [fut EXCEPT ![t] = o]
    /\ exc' = [exc EXCEPT ![t] = e]
    /\ cb' = [cb EXCEPT ![t] = "pending"]
    /\ UNCHANGED <<pc, raised, cancelReq, dictVars, batchVars, commitVars>>
    /\ UNCHANGED <<waiter, handledFuts, durable, expired, call>>

\* A cancelled asyncio task ends with CancelledError.
FinishCancelled(t) ==
    /\ t \in cancelReq
    /\ fut' = [fut EXCEPT ![t] = "cancelled"]
    /\ cb' = [cb EXCEPT ![t] = "pending"]
    /\ cancelReq' = cancelReq \ {t}
    /\ UNCHANGED <<pc, raised, exc, dictVars, batchVars, commitVars>>
    /\ UNCHANGED <<waiter, handledFuts, durable, expired, call>>

\* The finally clause of on_done, under the FuturesDict's lock.
Tally(t, handled) ==
    /\ doneSet' = doneSet \cup {t}
    /\ counter' = counter - 1
    /\ event' = (event \/ counter' = 0 \/ ShouldStop(doneSet', handled))

\* on_done up to its finally clause.  With asyncio nothing runs in between.
OnDone(t) ==
    /\ cb[t] = "pending"
    /\ Commit({t}, fut, exc)
    /\ IF Mode = "asyncio"
       THEN cb' = [cb EXCEPT ![t] = "done"] /\ Tally(t, handledIds')
       ELSE cb' = [cb EXCEPT ![t] = "committed"] /\ UNCHANGED <<doneSet, counter, event>>
    /\ UNCHANGED <<pc, raised, fut, exc, cancelReq, live, batchVars>>
    /\ UNCHANGED <<waiter, handledFuts, durable, expired, call>>

OnDoneFinally(t) ==
    /\ cb[t] = "committed"
    /\ cb' = [cb EXCEPT ![t] = "done"]
    /\ Tally(t, handledIds)
    /\ UNCHANGED <<pc, raised, fut, exc, cancelReq, live, batchVars>>
    /\ UNCHANGED <<commitVars, waiter, handledFuts, durable, expired, call>>

\* The checkpointer has stored the marker of task t.
MarkerStored(t) ==
    /\ saved[t] = "marked"
    /\ t \notin durable
    /\ durable' = durable \cup {t}
    /\ UNCHANGED <<pc, raised, execVars, dictVars, batchVars, commitVars>>
    /\ UNCHANGED <<waiter, handledFuts, expired, call>>

\* Something was put on the stream: the waiter's future is done.
WaiterReady ==
    /\ waiter = "pending"
    /\ waiter' = "ready"
    /\ UNCHANGED <<pc, raised, execVars, dictVars, batchVars, commitVars>>
    /\ UNCHANGED <<handledFuts, durable, expired, call>>

Expire ==
    /\ HasTimeout /\ ~expired
    /\ pc \notin {"submit", "returned", "raised"}
    /\ expired' = TRUE
    /\ UNCHANGED <<pc, raised, execVars, dictVars, batchVars, commitVars>>
    /\ UNCHANGED <<waiter, handledFuts, durable, call>>

-----------------------------------------------------------------------------
(* tick.                                                                   *)

\* FuturesDict.__setitem__ for the future of a task just submitted.
SetItem(t) ==
    /\ fut' = [fut EXCEPT ![t] = "queued"]
    /\ live' = live \cup {t}
    /\ event' = FALSE
    /\ counter' = counter + 1

\* The single task runs in the caller's thread and is committed there.  If it
\* is routed to a handler tick goes on as if it had been popped from a batch.
Fast(t, o, e) ==
    /\ pc = "fast" /\ t \in call.tasks
    /\ FreshId(t, o, e)
    /\ fut' = [fut EXCEPT ![t] = o]
    /\ exc' = [exc EXCEPT ![t] = e]
    /\ cb' = [cb EXCEPT ![t] = "done"]
    /\ Commit({t}, fut', exc')
    /\ IF o = "error" /\ ShouldRoute(t)
       THEN pc' = "batch" /\ batch' = {t} /\ UNCHANGED raised
       ELSE /\ pc' = IF o = "ok" \/ e \in handledIds THEN "returned" ELSE "raised"
            /\ raised' = IF pc' = "raised" THEN o ELSE raised
            /\ UNCHANGED batch
    /\ UNCHANGED <<cancelReq, dictVars, inflight, forStop, handling, drained>>
    /\ UNCHANGED <<waiter, handledFuts, durable, expired, call>>

Submit(t) ==
    /\ pc = "submit"
    /\ t \in call.tasks /\ fut[t] = "none"
    /\ SetItem(t)
    /\ pc' = IF \A u \in call.tasks \ {t} : fut[u] # "none" THEN "loop" ELSE pc
    /\ UNCHANGED <<raised, exc, cb, cancelReq, doneSet, batchVars>>
    /\ UNCHANGED <<commitVars, waiter, handledFuts, durable, expired, call>>

\* len(futures) > (1 if get_waiter is not None else 0)
MoreFutures ==
    Cardinality(live) + (IF waiter # "none" THEN 1 ELSE 0)
        > (IF call.waiter THEN 1 ELSE 0)

\* wait(futures, FIRST_COMPLETED) returns what is done.  The waiter is popped
\* here: another one is made if anything was left in flight.
Wait ==
    /\ pc = "loop" /\ MoreFutures
    /\ batch' = {t \in live : IsDone(t)}
    /\ batch' # {} \/ waiter = "ready"
    /\ inflight' = (live # batch' \/ waiter = "pending")
    /\ waiter' = IF waiter = "ready" THEN (IF inflight' THEN "pending" ELSE "none")
                 ELSE waiter
    /\ forStop' = {}
    /\ pc' = "batch"
    /\ UNCHANGED <<raised, execVars, dictVars, handling, drained, commitVars>>
    /\ UNCHANGED <<handledFuts, durable, expired, call>>

\* The while loop ends: no futures are left, or none was done in time.
LeaveLoop ==
    /\ pc = "loop"
    /\ \/ ~MoreFutures
       \/ expired /\ waiter # "ready" /\ \A t \in live : ~IsDone(t)
    /\ pc' = "event"
    /\ UNCHANGED <<raised, execVars, dictVars, batchVars, commitVars>>
    /\ UNCHANGED <<waiter, handledFuts, durable, expired, call>>

\* Variant: only the futures of handled failures leave the dictionary.
PopKeeps(t) == IF fut[t] = "error" /\ ShouldRoute(t) THEN live \ {t} ELSE live

PopFuture(t) == live \ {t}

\* Variant: interrupts are routed to the handler too.
RoutedAny(t) == fut[t] # "ok" /\ ShouldRoute(t)

\* GraphBubbleUp, the class of interrupts, is never routed.
Routed(t) == fut[t] \in {"error", "cancelled"} /\ ShouldRoute(t)

\* A future of the batch is popped.  If its exception has a handler, it is
\* marked as handled and schedule_error_handler takes the futures to wait for.
Pop(t) ==
    /\ pc = "batch" /\ t \in batch
    /\ batch' = batch \ {t}
    /\ live' = PopFuture(t)
    /\ IF Routed(t)
       THEN /\ handledIds' = handledIds \cup {exc[t]}
            /\ handledFuts' = handledFuts \cup {t}
            /\ handling' = {t}
            /\ drained' = errFuts
            /\ errFuts' = {}
            /\ pc' = "handler"
            /\ UNCHANGED forStop
       ELSE /\ forStop' = forStop \cup {t}
            /\ UNCHANGED <<pc, handledIds, handledFuts, handling, drained, errFuts>>
    /\ UNCHANGED <<raised, execVars, counter, event, doneSet, inflight>>
    /\ UNCHANGED <<saved, waiter, durable, expired, call>>

MarkersStored == drained \subseteq durable

\* schedule_error_handler goes on once the drained writes are over; the
\* handler's task is submitted.
ScheduleHandler(t) ==
    /\ pc = "handler" /\ t \in handling
    /\ MarkersStored
    /\ SetItem(HandlerOf[t])
    /\ handling' = {} /\ drained' = {}
    /\ pc' = "batch"
    /\ UNCHANGED <<raised, exc, cb, cancelReq, doneSet, batch, inflight, forStop>>
    /\ UNCHANGED <<commitVars, waiter, handledFuts, durable, expired, call>>

\* "maybe stop other tasks"
EndBatch ==
    /\ pc = "batch" /\ batch = {}
    /\ pc' = IF ShouldStop(forStop, handledIds) THEN "event" ELSE "loop"
    /\ forStop' = {}
    /\ UNCHANGED <<raised, execVars, dictVars, batch, inflight, handling, drained>>
    /\ UNCHANGED <<commitVars, waiter, handledFuts, durable, expired, call>>

\* Variant: tick does not wait for the callbacks.
EventIgnored == TRUE

EventSet == event

\* "wait for done callbacks": event.wait(timeout) returns either way, while
\* asyncio.wait_for raises when the time is up.
AwaitEvent ==
    /\ pc = "event"
    /\ \/ EventSet /\ ~(Mode = "asyncio" /\ expired)
       \/ Mode = "threads" /\ expired
    /\ pc' = "panic"
    /\ UNCHANGED <<raised, execVars, dictVars, batchVars, commitVars>>
    /\ UNCHANGED <<waiter, handledFuts, durable, expired, call>>

AwaitTimesOut ==
    /\ pc = "event" /\ Mode = "asyncio" /\ expired
    /\ pc' = "raised" /\ raised' = "timeout"
    /\ UNCHANGED <<execVars, dictVars, batchVars, commitVars>>
    /\ UNCHANGED <<waiter, handledFuts, durable, expired, call>>

\* Variant: exceptions seen by the callbacks only are forgotten.
PanicLiveOnly == {t \in live : fut[t] \in Raised /\ exc[t] \notin handledIds}

\* The futures _panic_or_proceed finds failed and not handled.
PanicFailed ==
    {t \in doneSet \cup live : /\ fut[t] \in Raised
                               /\ t \notin handledFuts
                               /\ exc[t] \notin handledIds}

\* _panic_or_proceed raises the first failure of an arbitrary order, but
\* collects interrupts and raises them if nothing else does.
PanicRaises(x) ==
    LET fatal == {t \in PanicFailed : fut[t] # "interrupt"}
        left  == {t \in live : ~IsDone(t)}
    IN  IF fatal # {} THEN x \in {fut[t] : t \in fatal}
        ELSE IF PanicFailed # {} THEN x = "interrupt"
        ELSE IF left # {} THEN x = "timeout" ELSE x = "none"

\* The last part of tick.  Futures in flight are cancelled before anything is
\* raised: a pool's future only if it was not started, and its callback then
\* runs at once; an asyncio task ends later.
Panic(x) ==
    /\ pc = "panic"
    /\ PanicRaises(x)
    /\ raised' = x
    /\ pc' = IF x = "none" THEN "returned" ELSE "raised"
    /\ LET left == {t \in live : ~IsDone(t)}
           cut  == IF Mode = "threads" THEN {t \in left : fut[t] = "queued"} ELSE {}
           futs == [t \in All |-> IF t \in cut THEN "cancelled" ELSE fut[t]]
       IN  /\ cancelReq' = IF Mode = "asyncio" /\ x # "none" THEN left ELSE {}
           /\ IF x # "none" /\ cut # {}
              THEN /\ fut' = futs
                   /\ cb' = [t \in All |-> IF t \in cut THEN "done" ELSE cb[t]]
                   /\ Commit(cut, futs, exc)
                   /\ doneSet' = doneSet \cup cut
                   /\ counter' = counter - Cardinality(cut)
              ELSE UNCHANGED <<fut, cb, commitVars, doneSet, counter>>
    /\ UNCHANGED <<exc, live, event, batchVars, waiter, handledFuts>>
    /\ UNCHANGED <<durable, expired, call>>

\* tick is over; callbacks and writes may still be under way.
Over == pc \in {"returned", "raised"} /\ UNCHANGED vars

-----------------------------------------------------------------------------
Executor ==
    \/ \E t \in All : Start(t) \/ FinishCancelled(t) \/ MarkerStored(t)
    \/ \E t \in All, o \in Outcomes, e \in Ids \cup {NoExc} : Finish(t, o, e)
    \/ \E t \in All : OnDone(t) \/ OnDoneFinally(t)

Main ==
    \/ \E t \in Tasks, o \in Outcomes, e \in Ids \cup {NoExc} : Fast(t, o, e)
    \/ \E t \in All : Submit(t) \/ Pop(t)
    \/ \E t \in Handled : ScheduleHandler(t)
    \/ Wait \/ LeaveLoop \/ EndBatch \/ AwaitEvent \/ AwaitTimesOut
    \/ \E x \in Raised \cup {"timeout", "none"} : Panic(x)

Next == Executor \/ Main \/ WaiterReady \/ Expire \/ Over

\* Submitted tasks get a worker and end, callbacks run, writes are stored, and
\* the caller keeps asking for the next output.  Nothing makes the deadline
\* pass or the stream produce.
Fairness ==
    /\ WF_vars(Main)
    /\ \A t \in All :
         /\ WF_vars(Start(t))
         /\ WF_vars(\E o \in Outcomes, e \in Ids \cup {NoExc} : Finish(t, o, e))
         /\ WF_vars(FinishCancelled(t))
         /\ WF_vars(OnDone(t))
         /\ WF_vars(OnDoneFinally(t))
         /\ WF_vars(MarkerStored(t))

Spec == Init /\ [][Next]_vars /\ Fairness

-----------------------------------------------------------------------------
(* Safety.                                                                 *)

Submitted == {t \in All : fut[t] # "none"}

\* "wait for done callbacks" (tick): when tick returns, or raises the tasks'
\* interrupts, no task of the superstep is still running and every outcome
\* was committed, handlers included.  after_tick then applies the writes and
\* clears the pending ones; a commit after that would add the writes of this
\* superstep to the next checkpoint.
CommittedFirst ==
    (pc = "returned" \/ (pc = "raised" /\ raised = "interrupt")) =>
        \A t \in Submitted : cb[t] = "done"

\* "re-raise exception if panic is True" (_panic_or_proceed): tick returns
\* only if every task that raised was routed to a handler, which succeeded.
NoSilentFailure ==
    pc = "returned" =>
        \A t \in All : fut[t] \in Raised =>
            t \in Handled /\ fut[t] = "error" /\ fut[HandlerOf[t]] = "ok"

\* "Each marker means: this task already failed and was routed to an error
\* handler" (_resume_error_handlers_if_applicable): a handler runs only for a
\* task that failed, and with asyncio a cancelled task is never marked as
\* failed.  (A pool's future that was cancelled before it started is: see
\* Marks.)  The exception raised to the caller is one that no handler took.
OnlyForFailures ==
    /\ \A t \in Handled : fut[HandlerOf[t]] # "none" => fut[t] = "error"
    /\ Mode = "asyncio" => \A t \in All : saved[t] = "marked" => fut[t] = "error"
    /\ raised = "error" =>
           \E t \in All : fut[t] = "error" /\ ~ShouldRoute(t)

(* Liveness.                                                               *)

\* If the tasks end, so does the tick: the event it waits for is set, although
\* every new future clears it.
TickEnds == []<>(pc \in {"returned", "raised"})
=============================================================================
