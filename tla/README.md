# LangGraph: a TLA+ model of the Pregel engine and what surrounds it

LangGraph runs graphs of nodes as bulk-synchronous supersteps and makes every
superstep durable, so that a thread survives failures, interrupts and the death of
its process. This directory models that engine (how a superstep is scheduled, how
its tasks are executed, how outcomes and checkpoints get to the checkpointer, what
a later run makes of them), what goes on inside a task (attempts, questions to the
user, calls of other tasks), the savers and stores that keep the state, and the
streams through which it is watched. TLC checks the modules on small instances;
TLAPS proves part of what is checked for every value of the constants.

Paths below are relative to `src/libs/langgraph/langgraph/` unless they begin with
`src/`.

## 1. Inventory

| Component | State it keeps | Operations | What makes it correct |
|---|---|---|---|
| Pregel loop (`pregel/_loop.py`) | `checkpoint`, `channels`, `checkpoint_pending_writes`, `tasks`, `step`, `stop`, `status`, `updated_channels` | `__enter__`, `_first`, `tick`, `after_tick`, `_put_checkpoint`, `put_writes`, `_suppress_interrupt` | each superstep runs exactly the nodes that the one before scheduled, whatever run of the thread it is in; interrupts are neither skipped nor repeated |
| Superstep algorithm (`pregel/_algo.py`) | none: it changes the loop's checkpoint and channels in place | `apply_writes`, `prepare_next_tasks`, `should_interrupt`, `_triggers` | versions and `versions_seen` schedule what the graph says, also after a failure half-way |
| Channels (`channels/`) | a value, a set of names, a finished flag | `update`, `consume`, `finish`, `is_available`, `checkpoint` | a join fires once all have arrived; a deferred node waits for the end |
| Task runner (`pregel/_runner.py`) | `FuturesDict` (counter, event, done set), handled exceptions | `tick`/`atick`, `commit`, `on_done`, `_panic_or_proceed` | every outcome is committed before the tick returns, no failure is swallowed, the tick ends |
| Background executors (`pregel/_executor.py`) | submitted jobs | `submit`, `done`, `__exit__` | nothing submitted is lost by a run that returns normally; the exit terminates |
| Checkpoint pipeline (`pregel/_loop.py`) | the chain of puts, delta-write futures | `_checkpointer_put_after_previous`, `put_writes` | durable checkpoints are a prefix of the run, loadable, and not ahead of their writes |
| Resuming (`pregel/_loop.py`) | pending writes, node cache | `_reapply_writes_to_succeeded_nodes`, `_resume_error_handlers_if_applicable`, `match_cached_writes`, `schedule_error_handler` | no finished task runs twice, no half-finished task counts as done, a failed node with a handler is not tried again |
| Compiled graph (`graph/state.py`) | nodes, channels, triggers | `attach_node`, `attach_edge`, `attach_branch` | edges become the channels that the algorithm expects |
| Attempts of a task (`pregel/_retry.py`) | attempts, deadlines, the scope of an attempt | `run_with_retry`, `arun_with_retry`, the watchdogs, `_TimedAttemptScope` | a task's writes are those of its last attempt alone; the policies' limits hold; a timed attempt ends |
| `interrupt()` (`types.py`, `_internal/_scratchpad.py`) | resume list, counter, the null task's RESUME write | `interrupt`, `get_null_resume`, `map_command`, `_pending_interrupts` | an answer reaches the question it was given for, and an answered question is not asked again |
| Nested calls (`pregel/_runner.py`, `pregel/_call.py`) | futures of children, `call_counter` | `_call`, `_acall`, `accept_push`, `chain_future` | a call is answered with its own child's result, and a durable result is not computed again |
| Threads (`pregel/main.py`, `pregel/_checkpoint.py`) | checkpoints, counters of delta snapshots | runs, forks, `bulk_update_state`, `delete_thread` | every writer leaves what the next reader rebuilds the same state from |
| Savers (`src/libs/checkpoint`, `-sqlite`, `-postgres`) | checkpoints, blobs, writes | `put`, `put_writes`, `get_tuple`, `get_delta_channel_history`, `get_next_version` | what was put is read back, by all savers alike |
| Stores (`src/libs/checkpoint/langgraph/store`, SQLite, Postgres) | rows with a time to live, a queue of operations | `abatch`, `_run`, `_dedupe_ops`, `sweep_ttl` | a read is not older than a put answered before it |
| Run streams (`stream/`) | channels, the shared pump, scheduled tasks | `_apump_next`, `apush`, `aclose`, `afail`, `abort`, `output` | every consumer sees every item in order, and its iteration ends |
| SDK event streams (`src/libs/sdk-py/langgraph_sdk`) | subscriptions, the shared connection, cursor, queues | `_reconcile_stream`, `_fanout`, `_reconnect_shared_stream`, `close` | a subscription gets what it asked for once and in order, over rotations and drops |
| Prebuilt agent (`src/libs/prebuilt`) | messages, remaining steps | `create_react_agent`, its routers, `ToolNode` | the model never sees a history with a call left unanswered; a tool that returns directly ends the turn, unless a Command hides it |
| Serializers, node caches, state reducers, remote graphs, CLI, conformance tests, `src/apps/` | clients, conversions and applications | | not modelled, see section 7 |

How they interact: `Pregel.stream` (`pregel/main.py`) enters the loop, alternates
`loop.tick()`, `runner.tick()` and `loop.after_tick()`, and leaves it. The runner
executes tasks in a thread pool or as asyncio tasks, each through `run_with_retry`;
when one ends its callback calls `commit`, which calls `loop.put_writes`. The loop
never calls the checkpointer itself: it submits puts to the background executor, which
runs them concurrently with the next superstep. The next run of the thread, perhaps in
another process, sees only what the checkpointer has. What a run emits goes through
`StreamMux` to consumers that pump it themselves, or over the server's event stream
to clients that share one connection.

The hard behaviours: callbacks that race with the thread that waits for them; puts
that race with each other and with the exit; a crash between any two of them; a
superstep executed by several runs; versions, a shortcut over updated channels and
several kinds of null writes that must agree on which node runs next; an abandoned
attempt that goes on while the next one runs; tasks re-executed from their start and
matched by position with what they did before; tables of four savers that encode the
same history differently; consumers that wait for a pump that another one holds; a
connection replaced while it is read. `PROJECT.json` lists each such hazard at its line
with the properties that cover it.

## 2. Modules

```
CheckpointLog  <==refines==  CheckpointPipeline       (puts of one run)
                             PregelRunner             (tasks of one superstep)
                             SuperstepResume          (one superstep over several runs)
GraphShape --> BulkSynchronous  <==refines==  PregelLoop   (supersteps of a thread)

Interrupts                                            (questions and answers)
ReactAgent --> Tasks                                  (the prebuilt agent's graph)
NodeAttempts, NestedCalls ..> Tasks                   (inside a task)
Savers --> Threads --> Storage                        (a thread in its savers)
Stores ..> Storage                                    (long-term stores)
RunStream ..> Streams                                 (consumers of one run)
Subscriptions --> ThreadStream ..> Streams            (consumers of the SDK)
```

`A --> B`: B extends A; `A ..> B`: B instantiates A. `Tasks`, `Storage` and `Streams` put
components side by side, with constants and variables of their own, and name what is
promised of each (`FreshReads == Store!FreshReads`): their `MC...` modules give the
constants values for TLC, their `...Proofs` modules prove the same formulas for all values.
Some `MC` modules check several modules that share no state in
one run: a variable `part`, chosen at the start, says which of them the behaviour is
one of, and the variables of the others keep their initial values. So each of their
behaviours is one of exactly one module.

### CheckpointPipeline and CheckpointLog

One run of the loop and its executor. State: where the loop is (`pc`, `step`), the
phase of every submitted job (put of a checkpoint, `put_writes` of a task), the order
in which jobs were submitted, the list `_delta_write_futs`, what each put waits for,
what is durable (`stored`, `blobs`). Actions: `First`, `PutWrites` and `AfterTick` of
the loop; `Result`, the wait of durability "sync"; `Leave` and `Exit`; in the executor
`Start`, `DrainInThread`, `RunWrite`, `RunPut` and `RunPutGatherFails`. In the thread
pool a put drains the list in a step of its own, with asyncio the drain happens when
the coroutine starts. A checkpoint is the version of each channel; values are left out.

`CheckpointLog` is what a reader may rely on: the durable checkpoints grow one
superstep at a time.

### PregelRunner

One tick: futures, their callbacks, the event, batches returned by `wait`, error
handlers, the step timeout, the single-task fast path, `_panic_or_proceed`. The
callback is two steps, `OnDone` (commit) and `OnDoneFinally` (counting down under the
lock), because tick runs between them. `call.use` (one of the constant
`Settings`) selects `tick` (threads, where a future can be cancelled only before it
starts, and cancellation is another exception) or `atick`, and whether there is a step
timeout. What a task computes is its outcome: ok, error, interrupt, bubble-up. The id
of an exception is new, named by its task, or that of an exception that was released
in an earlier tick (`EarlierIds`).

### SuperstepResume

One superstep executed by up to `LastRun` runs. `Begin` is the part of `tick` that
reads pending writes: successes are reapplied, marked failures are replaced by their
handler, cached tasks take the cache's writes. Tasks then start, succeed, fail
(perhaps after their first writer), are interrupted or cancelled; each commit is a
write in flight that becomes durable at any later time or is lost in `Crash`. A
failure adds the handler's task, which takes the writes an earlier run left of it.

### GraphShape, BulkSynchronous and PregelLoop

`GraphShape` holds the graph: nodes, Sends, the channels that schedule, and what each
node may write. Channels that only carry state are left out: they never trigger a
node of a compiled graph.

`PregelLoop` is the loop with its algorithms. `ck` is the checkpoint with channels,
`versions`, `seen`, `seenInt` (seen by INTERRUPT), `updated` and `step`; `queue` and
`saved` are the checkpoints in flight and the durable one; `nulls`, `flight` and
`savedNulls` are the writes of a Command in memory, in flight and durable.
`ApplyWrites` follows `apply_writes` phase by phase (seen versions, consume, update,
notify of the step, notify of the end). Actions: `Invoke` and `Resume` are `_first`
with an input and without one or with a Command; `TickStops`, `Drain`,
`TickInterrupts` and `Tick` are the ways out of `tick`; `AfterTick`,
`AfterTickRaises` (a channel refuses an update and leaves the checkpoint
half-changed) and `Fail` end a superstep; `StoreCheckpoint`, `StoreNulls`, `Exit` and
`Crash` are the executor and the process. `asked` is a history variable that no
action reads.

`BulkSynchronous` says the same without versions: a state is the nodes to run, the
Sends to execute, the deferred nodes that wait and who has arrived at each join. The
refinement mapping computes it from the checkpoint; `ImplementsSupersteps` is the
statement that each step of `PregelLoop`, across runs, failures and crashes, is a
step of `BulkSynchronous` or a stutter.

### NodeAttempts

`run_with_retry` and `arun_with_retry` of one task: `Enter` (timeout resolution, cache
hit), `Begin` of an attempt, `Send`, `Touch` and `End` of a body, `Tick` of the clock,
`Watchdog`, `Wake` (the attempt's result is looked at: success, retry, give up,
cancellation, or a ParentCommand for the own graph, whose writers run and may raise:
`RunWriters`), `TimeOut`, `SleepOver`, `Cancel` and `DeliverCancel`. A
body that timed out is abandoned and may ignore its cancellation: the actions of
bodies are not restricted to the current attempt, and a write carries the attempt that
made it. Time is two stop watches; the wait between attempts is one step.

### Interrupts

`interrupt()` in the tasks of a superstep, over several runs. `pad` is the scratchpad
(`resume`, the null write it has seen, the counter), `db` the pending writes that
survive (`null`, `resume`, `asked`, `done`), `wrote` whether the attempt has sent its
RESUME list, from which `put_writes` replaces the slot. `RunNone`, `RunPlain` and
`RunIds` are the runs with no answer, `Command(resume=v)` and a mapping by interrupt id;
`AnswerFromList`, `AnswerFromNull` and `Interrupt` are the three ways a call of
`interrupt()` ends; `Finish`, `Fail` and `Retry` end the attempt. `meant`, `used` and
`answered` are history: the question each value was given for, those it was returned
to, and how many questions a task had answered when it was committed.

### NestedCalls

A task that calls others: `CallKnown` (accept_push found the result among the pending
writes), `CallNew`, `Register` and `Chain` (the three steps of `_call`, between which a
pool thread may end the child), `StartChild`, `EndChild`, `RunCallback` (on_done, then the
chained future), `Result`, `Retry`, `PutDone`, `EndRun`, `Crash`. A child is named by the
parent's `call_counter`. `Modes` says how tasks are run: the loop (`CallNew` registers the
callbacks at once in asyncio, in steps of the parent's thread otherwise), `max_concurrency`
(the workers of the pool, or the semaphore that gates every coroutine: a child that is
submitted is queued in both), and whether the parent was submitted and holds one of them
or runs in the foreground, like a task that is alone in its superstep.

### ReactAgent

The graph of `create_react_agent`: who runs next (`next`), which calls were made, belong
to the last message, return directly, are answered; the result of each call in the
superstep; the steps left. Routers are operators (`ShouldContinue`, `Router`,
`RouteToolResponses`), nodes are actions (`PreHook`, `CallModel`, `RefuseHistory`,
`PostHook`, `Respond`, and `RunOne`, `ToolsStop`, `ToolsEnd` of the ToolNode); `Enter`
with `Input` or `Resume`, `Tick`, `Leave` and `Crash` are the run around it. Messages
are kept as far as routers and `_validate_chat_history` look at them.

### Savers and Threads

`Savers` is pure: the tables of `InMemorySaver`, `SqliteSaver`, `PostgresSaver` and
`ShallowPostgresSaver`, with `put`, `put_writes`, `get_tuple` and the four ways to
collect the history of a DeltaChannel (the base class's walk, InMemory's, the single
statement of SQLite, the paged walks of Postgres). The SQL savers read the writes of a
checkpoint by task id and index, `InMemorySaver.get_tuple` in the order in which its dict
got the keys (`order`, `DictRows`). `Threads` is one thread: `InputRun`,
`ResumeRun`, `ForkRun`, `TaskDone`, `TaskInterrupts`, `Superstep`, `Crash`, `Update` and
its forms (`UpdateInput`, `UpdateEnd`, `UpdateCopy`, on a fresh thread `UpdateFresh`),
`Migrate` (the channel becomes a DeltaChannel) and `DeleteThread`. Every saver call is
made on the four savers at once, so that what they answer can be compared, and `given`
remembers what was put, with the value the DeltaChannel had then.

### Stores

`AsyncBatchedBaseStore` over SQLite or Postgres: calls enter a queue, `_run` takes all
of them, merges (`_dedupe_ops`), runs a batch as one transaction with reads first, and
answers the futures; callers may be cancelled at any time, a batch may raise, rows
expire, are refreshed by reads and deleted by the sweeper. The number of a put stands
for its value. `lapsed` and `floor` are history.

### RunStream

`AsyncGraphRunStream` and `StreamMux`: consumers of the main log, of `values`, of a
subgraph's handle and of `output()`. There is no background task: a consumer whose
channel is empty pulls the next part for all (`PumpPulls`), others wait (`PumpWaits`,
`Woken`). `aprocess` may suspend between the push of a part and its end (`PushStarts`,
`PushEnds`); the end of the run is `aclose` or `afail`, with a scheduled task that may
be pending, raise or be awaited (`task` is "late" if it was still running when the pump
was exhausted). `Cancel` and `AbortStarts` come from outside. What
happens between two awaits is one step.

### Subscriptions and ThreadStream

`Subscriptions` has the filters: matching of channels and namespaces, the union, and
`filter_covers`. `ThreadStream` is the client: a subscription that the shared stream
does not cover rotates it, `_fanout` reads the stream and fills queues, reconnects after
a drop from the cursor with a bounded number of attempts, `close()` ends it all. The
server is external: a stream carries in order the events after its `since` that match.

## 3. Runs

Runs that pass:

| Run | Modules | Properties | What it shows |
|---|---|---|---|
| `pipeline` | `CheckpointPipeline` | `InOrder` `DeltaVisible` `Loadable` `RefinesLog` `NothingLost` `DrainedFirst` `DurableSteps` `ExitEnds` | part "reliable" (asyncio, no failing call): durable checkpoints are a prefix of the run, complete and never ahead of their writes. Parts "threads" and "durable" (asyncio, durability "sync") with failing calls: a run that ends without raising lost nothing, a put that saw a delta write fail stores nothing, everything earlier is durable when a superstep starts, leaving the loop terminates |
| `runner_ticks` | `PregelRunner` | `CommittedFirst` `NoSilentFailure` `OnlyForFailures` `TickEnds` | one or two tasks, one with a handler, threads, or asyncio with a step timeout, a streaming caller or not, the fast path |
| `resume_runs` | `SuperstepResume` | `AppliedWhole` `HandlerInstead` `NoRerun` | a handler and a cached node over three runs with crashes anywhere |
| `loop_sends` | `PregelLoop` | `ImplementsSupersteps` `FailedStepOwed` | Sends, a join of nodes that finish in different supersteps, a LastValue trigger, conflicting updates, Command(goto), drains, failures, crashes |
| `loop_joins` | `PregelLoop` | `ImplementsSupersteps` `NothingLeft` `Approved` `ResumeProceeds` | a join, a cycle, a deferred node, both kinds of interrupts, durability "exit", failures, three runs |
| `tasks` | `NodeAttempts` | `OwnWrites` `AttemptsCounted` `TimedEnds` | two retry policies, five ways to run the task, bodies that ignore their cancellation, Commands whose writers raise |
| | `NestedCalls` | `OwnResults` `NotRunAgain` `CallsAnswered` | two calls, six ways to run them (threads or asyncio, one worker, two or no limit, the parent in the foreground or holding one), a retry, two runs |
| | `ReactAgent` | `AnsweredHistory` `DirectEnds` | four agents, up to three tool calls, three runs that are interrupted, fail, crash or run out of steps |
| `storage` | `Threads`, `Savers` | `SaversAgree` `SameHistory` `Rebuilt` `ReplayBounded` | runs, forks, crashes, every form of `update_state`, a migration and `delete_thread` on the four savers at once |
| | `Stores` | `FreshReads` | three calls, merged reads and puts, cancelled callers, batches that fail, rows that expire |
| `streams` | `Interrupts` | `RightAnswers` `AskedOnce` | two tasks, two questions and one, three runs that answer by plain value, by id, or not, crashes, failures, a retry |
| | `RunStream` | `StreamsComplete` `ReadersEnd` | two consumers out of three kinds, failures, cancellation, abort(), a scheduled task |
| | `ThreadStream` | `OnceInOrder` `IteratorsEnd` | two subscriptions, rotation, drops and refused connections: with queues of one, which fill, and close(); and on a longer run with queues that hold it, so that the order of what is given across a rotation and a reconnect is compared |

Runs that end in a violation: the code does not do what a comment or docstring of the
repository says. The quotes are under `findings` in `PROJECT.json`.

| Run | Property | What happens |
|---|---|---|
| `resume_partial` | `AppliedWhole` | a node that failed in its conditional edge counts as done in the next run |
| `threads_fork` | `ForksApart` | the DeltaChannel of a fork is rebuilt with the writes of the first continuation, which are saved at the checkpoint they share |
| `sdk_reconnect` | `ShapeKept` | a stream reopened after a drop replaces the wider one that a rotation has opened meanwhile |
| `agent_steps` | `NoRecursionError` | with an odd recursion limit "Sorry, need more steps" takes the place of the answer and the run raises GraphRecursionError all the same |

### Bounds

`CheckpointPipeline`: `LastStep` 2 (puts of three checkpoints: two race, the third shows
a broken chain), one task and one channel, `Workers` 4 or 6, so that the pool is never
filled by puts that wait.
`PregelRunner`: two tasks and one handler are enough for every race between wait,
callback, cancellation and handler; the tick is given any of the tasks.
`SuperstepResume`: two tasks, `LastRun` 3: a run that fails, one that resumes and one
that resumes the resumed.
`PregelLoop`: `Limit` 3 or 4 bounds the supersteps of a run, `LastRun` 2 or 3 the runs. A
run goes around the cycle once and stops in its second round; in `loop_sends` a crash
may come after any step. In `loop_joins` the process does not crash: `asked` records what
the caller has seen, which a crash undoes only in the checkpointer.
`NodeAttempts`: limits of one and two ticks are enough for a watchdog before, with and
after the other; three attempts under one policy, two under the other.
`Interrupts`: two tasks of which one asks twice: parallel questions and successive ones.
Three runs: ask, answer one, answer the other. One in-process retry in a behaviour.
`NestedCalls`: `Program` 2, so that one child may be answered by the other's result; limits
of one and two, with and without a parent that holds one, and none; two runs.
`ReactAgent`: three calls of one or more messages, recursion limits 2 and 3 (an even and
an odd one), three runs.
`Threads`: four checkpoints, two values, one fork; a page of two checkpoints makes
Postgres page, `Frequency` 2 and `MaxSteps` 3 reach both kinds of snapshot.
`Stores`: three calls on two keys: a put, a read and one more in the same or the next
batch; one fault.
`RunStream`: three parts, one subgraph, two consumers at once.
`ThreadStream`, in two parts. "sdk": two events, one of them the terminal one, queues of one,
which fill, two faults, close(). "longer": three events, queues of three, one fault (a drop
or a refusal), no close() and no jump of the cursor. A subscription that opened the first
stream or was covered by it is then given two events of which the second may come from the
stream of the other's rotation or of a reconnect, with its queue never full, which is what
the second half of `OnceInOrder` compares. One reconnect attempt in both.
No symmetry is used: tasks and nodes have different parts in the instances. Deadlock is
checked except for `streams` and `sdk_reconnect`: a run nobody reads stops, and so does a
client whose subscriptions have ended.

### Fairness

`CheckpointPipeline`, `PregelRunner`, `NodeAttempts`, `NestedCalls`, `RunStream` and
`ThreadStream` state liveness.

* Weak fairness is assumed of the executor's jobs (worker threads and the event loop do
  run), of the exit of the loop, of the thread that waits, and of the tasks of
  `PregelRunner` and the children of `NestedCalls`: each ends at some time, as a call of the
  user's node is supposed to. `TickEnds` under these is a statement about the event: every
  new future clears it and the last callback must set it. `CallsAnswered` is one about the
  pool, the semaphore and the chained futures.
* In `NodeAttempts` time passes and the event loop runs what is ready; bodies need not
  end and may ignore their cancellation. `TimedEnds` is due to the watchdogs alone.
* In `RunStream` and `ThreadStream` one action, `Progress`, is weakly fair: as long as a
  consumer, the graph, a connection or a task of the event loop can go on, one of them
  does. Every behaviour of these modules has finitely many steps, so this asks no more
  than fairness of each. Cancellation, abort(), drops and close() are not part of it, nor
  is anyone's subscribing.

No fairness is assumed of failures, timeouts, crashes or of the caller who goes on.

## 4. Proofs

The theorems hold for any finite set of tasks, any number of channels, workers,
supersteps, questions, calls and runs that the hypotheses allow (`ASSUME`s of the
modules, or of the theorem).

`CheckpointPipelineProofs`:

* `TypeCorrect`: `Spec => []TypeOK`.
* `CheckpointsInOrder`: in the thread pool, or with asyncio when no call fails, no put
  of an earlier checkpoint is to come once a later one is durable. `InOrder` is not
  inductive: `QueueInv` ties the phases of jobs to their place in the queue, `OnceInv`
  says that no job is submitted twice, and `OrderInv` that a put which is past its
  wait has its predecessor over.
* `ImplementsLog`: without failing calls every step is a step of `CheckpointLog` or a
  stutter.
* `DeltaWritesFirst`: with asyncio and no failing call, `DeltaVisible`. `DeltaInv` says
  where each delta write is: in the list, drained by a put that waits for it, or done.
* `CheckpointsLoadable`: without failing calls, `Loadable`. `BlobInv` says that every
  version a put names comes with it or with an earlier put.
* With calls that raise, and both executors: `NothingStoredWithoutDrained`
  (`DrainedStored`), `NoSilentLoss` (`CleanExit`), and with durability "sync"
  `DurableBeforeNext` (`SyncDurableSteps`). `FaultInv` says that what is stored is of puts
  that are over, that a put which succeeded has every checkpoint up to its own stored, and
  that a run which is over has no job left and has raised if one of them did. The run
  `pipeline` checks these three through the names `DrainedFirst`, `NothingLost` and
  `DurableSteps`, of the part of the run they are about.

`SuperstepResumeProofs`:

* `ResumeTypeCorrect`: `Spec => []TypeOK`.
* `FailedNodeNotRerun`: `HandlerInstead`. `FlightInv` says that what is in flight
  belongs to tasks that have ended in this run; `MarkInv` that a marker is stored with
  its error and only for a node with a handler, so that the next run replaces it.
* `SuccessfulNotRerun`: `NoRerun`. `RerunInv` says that a task that may still be started
  in this run has no durable success; `FlightInv` is needed because what is stored
  next may only be of a task that has ended.
* `SuperstepAppliedWhole`: `AppliedWhole` for the async loop when no writer fails
  half-way. Both hypotheses are needed (see `resume_partial` and section 5).
  `WholeInv` says that of each task all of a success or nothing of it is durable, in
  flight or cached.

`PregelRunnerProofs` (hypothesis `Unhurried`: no step timeout with threads; the table of
section 5 says what happens otherwise):

* `CommittedBeforeEnd`: `CommittedFirst`. `CountInv` says that the counter is the number of
  futures whose callback has not run, `EventInv` that the event, which every new future
  clears, means that none is left or that a failure without a handler was seen; `CommitInv`
  that whatever was counted down was committed, so that a failure with a handler is known
  as handled before the event can be set because of it.
* `HandlersForFailures`: `OnlyForFailures`. `HandlerInv` says that a handler's future exists
  exactly for the failures that were popped, but for the one being scheduled, and that a
  failure is popped once.
* `FailuresAreRaised`: `NoSilentFailure`, if no exception has the id of a released one
  (`EarlierIds = {}`, needed: section 5). `LoopInv` says why tick left its loop: nothing
  but handlers is in the dictionary, or a failure is fatal, which no later step takes back
  (`FatalStays`, since no two exceptions have the same id, `LifeInv`).
* `RunnerTypeCorrect`: `Spec => []TypeOK`, if the handlers' tasks are finitely many.

`PregelLoopProofs`, for any graph, input, Commands, limit and number of runs:

* `LoopTypeCorrect`: `Spec => []TypeOK`. `TypedInv` is about every checkpoint there is, in
  the loop, in flight and durable: nothing is seen of a version that its channel has not.
* `ResumeMovesOn`: `ResumeProceeds`. Until the first superstep of a run that resumes, what
  has a version was seen by INTERRUPT (`ResumeInv`); nothing else is assumed.
* `DoneLeavesNothing`: `NothingLeft`, if channels of deferred nodes are written only by
  tasks (`OnlyTasksDefer`) and no checkpoint is put of a superstep that raised halfway
  (`NoHalfSteps`: durability "async", or no LastValue channel triggers). `SoundInv` says that a channel with
  something unseen is among the updated ones or waits for the end, `WaitsInv` that a
  channel finished with something in it has its node among the next tasks: so tick, which
  only looks at the nodes of updated channels, misses none.
* `FailedStepStaysOwed`: `FailedStepOwed`, under `NoHalfSteps` and if no Command goes to a
  deferred node (no counterexample without that one is known). `BehindInv` relates the loop's
  checkpoint to the one that is `Coming`: what is durable or in flight, with the Command's
  pending writes applied, has the same tasks; `OwedInv` that of a failed superstep all are left.
* `StartsAreApproved`: `Approved`, for runs that may fail but are not drained, do not crash
  and do not reach the recursion limit, and Commands that go to no node of interrupt_before
  (`CommandsPass`), each of which is needed (section 5): `ApprovedInv` says that whenever the checkpoint to
  come owes an interrupt before a listed node, it has been or will be asked for.
* `LoopImplementsSupersteps`: `ImplementsSupersteps`, the refinement of `BulkSynchronous`,
  under `PlainGraph`: `NoHalfSteps`, `OnlyTasksDefer`, deferred nodes and Sends not
  in one graph, and durability "async" or no Commands. The graphs of both runs satisfy it;
  section 5 says what the code does otherwise. `BulkSynchronous` knows no versions: a
  superstep runs the nodes whose triggers were written by the one before. `RefineInv`
  joins `WaitsInv`, `BehindInv` and `FinsInv` (a barrier is finished only when complete)
  to the numbers of the supersteps; the mapping takes the durable checkpoint of the next
  run outside the loop, the loop's own inside, and each action is shown to be one abstract
  step or a stutter.

`TasksProofs`, about what goes on inside a task:

* `NodeAttempts` (hypothesis `CallsAssumption`: policies allow an attempt, limits are
  numbers, the exceptions of bodies are none of the module's marks): `AttemptsTyped`,
  `WritesAreOwn` (`OwnWrites`) and `AttemptsAreCounted` (`AttemptsCounted`). `TriesInv` says
  that between two attempts all have failed within the policies and that a body outlives
  its attempt only if a timed attempt abandoned it, `ScopesInv` that the writes are of the
  last attempt and that its scope is open exactly while it is waited for, `CommandInv` that
  a body which ended as a Command for its own graph has no attempt after it. That
  the policies have a largest limit (`MaxExecBound`) is shown by a least counterexample
  (`NatMin`).
* `NestedCalls` (hypothesis `ProgramAssumption`: its constants are numbers, a parent has an
  attempt): `CallsTyped`, `ResultsAreOwn` (`OwnResults`) and `DurableNotRunAgain`
  (`NotRunAgain`). `CountInv` says that the call counter follows the parent's program and
  that no child has a number that was not given, `OwnInv` that, without a retry, whatever is
  kept under a number (in memory, in flight or durable) is of the call of that position, and
  `FreshInv` that in a run which found no results a handle leads to a child started for its
  call, whatever the counter says.
* `ReactAgent` (hypothesis `Accepted`: recursion limits are numbers, a post_model_hook
  comes with version "v2"): `AgentTypeCorrect`, with the form every superstep has
  (`TaskInv`); `ModelSeesAnswers` (`AnsweredHistory`) and `DirectToolEndsTurn`
  (`DirectEnds`). `HistoryInv` says that unanswered calls are among the tasks of the
  superstep, that steps are left to answer them, and that a run which leaves none to be
  resumed has answered all; `DirectInv` that once a tool has returned directly, and no
  Command hides it, no task is left.

`InterruptsProofs` (hypothesis: the bound on runs is a number):

* `InterruptTypeCorrect`: `Spec => []TypeOK`.
* `NoQuestionTwice`: `AskedOnce`. `ListInv` says that a task's answered questions are
  saved, and that while it runs its counter and the question it is at go together
  (`Attempt`): the list it looks into extends the saved one, and it has been sent as
  soon as one question was answered. Tasks retried in the process are excluded, and
  must be: their counter goes on.
* `AnswersAreRight`: `RightAnswers`, if no task is called "any". `AskedInv` says that a task's last question is the
  first without a saved answer, `AgeInv` that no value is of a later run, `IdInv` that a
  value given by id stands in its task's list where its question looks. `PlainInv` is about
  the value of the null task: while it is untaken nothing was returned from it and its
  question is the next one of its task (`UntakenInv`); a list that holds it has been read
  past it.

`StreamsProofs`, about what a caller follows a run with.

`RunStream`, as instantiated in `Streams` (hypothesis `ReadersAssumption`: the readers are of the four kinds):

* `StreamsAreComplete`: `StreamsComplete`, for any number of parts and readers. The
  inductive invariant is `RunInv`, as long as nothing abnormal has happened (`Normal`: no
  abort, no cancelled reader, and no scheduled task that is still running when the pump is
  exhausted; the property excludes them, and section 5 says what they do). A task that ends
  before, or runs while the pump goes on, is included; that such a state was never left and
  entered again is `NormalBefore`. `OnePuller` says that one reader at most has a pull under way, and
  that the generator is over exactly when a pull has said so; `MuxState` relates the state
  of every channel to what has gone through the mux; `ContentOf` says that what a reader
  has received and what waits for it are together the parts that have gone through, each
  once and in order, and `EndSeen` that who has ended has emptied a channel that is closed.

`ThreadStream`, likewise (hypothesis: `MaxQueue` is a number):

* `CoveredIsDelivered`: `FilterCovers` is sound: an event that a covered subscription asks
  for is asked for by the covering filter, for any namespaces (prefix matching is
  transitive, `PrefixTransitive`) and depths, unless a list of namespaces is empty.
* `StreamTyped`: `Spec => []TypeOK`. `StreamInv` adds that no stream is read beyond the
  cursor, and that a stream which the task reads but which is no longer the shared one was
  replaced by one with the filter that is noted.
* `SubscriptionsInOrder`: `OnceInOrder`. `SubInv` speaks of a subscription's events, those
  it has yielded followed by its queue: all are among the seen ones, once (`Own`); for one
  that was covered when it was made, or that opened the first stream (when nothing was read,
  `NothingYet`), the filter and every stream that the task reads, has opened or may open next cover it (`Covering`: the filter that a reconnect has read
  included), its events are in order, and nothing that the cursor has passed is missing
  (`InOrder`, `OwedAll`). An event from before the cursor is then a known one, and the
  first event after it that the stream carries the next one owed (`GivenOrder`), since what
  covers a subscription carries its events (`ShapeMatches`).

`StorageProofs`, about what is stored.

`Threads` (hypothesis `MaxStepsAssumption`: the limit is a number):

* `SaversAgreeAlways`: `SaversAgree`, through runs, forks, updates, crashes, the migration
  and `delete_thread`. `ThreadInv` says of each saver how its tables hold what was put
  (`given`): SQLite whole rows, InMemory and Postgres a blob for each version a checkpoint
  names, so that no version may be used twice (`Old`: the blobs' versions are of past
  puts; this is what the random part of a version is for, `Ids`, `GivenInv`). `WritesInv`
  relates the writes of the savers key by key, `ShallowInv` the shallow
  saver's row and writes to the latest checkpoint and those pending at it; `RunInv`
  says that what a run has loaded is what its checkpoint had.
* `ReplaysAreBounded`: `ReplayBounded`. `CountInv` says that the counter of a checkpoint is
  one more than its parent's and short of the limit unless it starts again (`ParentInv`:
  parents are older). The walk from a checkpoint is a recursive function (`Chains`); that
  it consists of checkpoints each with a smaller counter is shown by least counterexample.
* `SameHistoryAlways` (hypothesis `PageSizeAssumption`: a page has a row): `SameHistory`.
  Each of the four walks is shown to end where `Ends` says: at the first ancestor that holds
  a value, or past the root. That `Chains` and the folds over rows and pages are what their
  equations say (`LineageIs`, `StreamedIs`, `ReachIs`, ...) is shown by least counterexample:
  were there a number of rows without such a function, there would be a least one. What a
  saver holds may differ from what was put in one way, a value left by a plain channel;
  `PlainInv` says that such a blob is the value of a checkpoint above, so that on a thread
  that was not migrated there is none. Of a step it matters only what it does to the delta
  channel (`StepsAlike`): nothing, a put or a copy (`DeltaStep`), or `delete_thread`.
  The order of InMemorySaver's rows is `OrderInv`: a task's keys were added to the dict in
  the order of their indices, unless a list mixed special writes with others.
* `RebuiltAlways` (likewise): `Rebuilt`. The invariant is `LossInv`: `LiveInv` says of every
  clean checkpoint that its value, if it was stored, is the live one, and otherwise that
  the live one is its parent's with the writes saved there; `RunLive` that a run that goes
  on from one works on that value; `SpecialInv` that a special write (an error, an
  interrupt) is none of the delta channel's. A checkpoint is clean if a set of checkpoints
  closed under parents (`Sound`) contains it and none of them lost saved writes, which says
  what `Path` says without walking it. What is found by a walk (`Finds`), put together with
  the rows on the way (`Recalls`), is then the live value, again by least counterexample.
  Every step saves writes that no clean child has passed over (`PutsNothing`), puts or
  copies a checkpoint (`Adds`), or deletes the thread.

`Stores`, as instantiated in `Storage` (hypothesis `OpsAssumption`: what is called are operations):

* `ReadsAreFresh`: `FreshReads`, for any keys, calls and faults, on each of the backends.
  `DedupeOp` is shown to keep, and `Merged` by least counterexample to establish, that every
  call listens to an operation that is as good as its own and that the writes of a key are
  merged into the last of them (`Deduped`). `StoreInv` says that the queue is younger than
  the batch and the batch, until it is written, younger than the table (`Queue`,
  `BatchMade`); that the table is not older than any write that has been answered, or any
  read's floor (`Floored`); that a row is what its put has made of it, or what time has
  (`RowMade`); and that what is read is explained by a put that is new enough for every
  call that listens to it (`Results`, `Answers`).

Only model-checked: liveness (`ExitEnds`, `TickEnds`, `TimedEnds`, `CallsAnswered`,
`ReadersEnd`, `IteratorsEnd`), which needs fairness and ENABLED. The safety properties of
the runs are all theorems; `NothingLost`, `DrainedFirst` and `DurableSteps` are stated, for
the module that the run instantiates, as `CleanExit`, `DrainedStored` and
`SyncDurableSteps`.

Induction over data needs a predicate as parameter, which the provers do not instantiate;
the least counterexample of `NatMin` replaces it, where the data is a set or a recursive
function.

## 5. Where the properties stop

The constants of the passing runs, and the exceptions stated in the properties, are
chosen inside what the code guarantees. Each line of the first table was seen by changing
the constants or the graph as it says.

| Property | Change | What the code does |
|---|---|---|
| `ExitCompletes` (`ExitEnds`) | threads, `Workers = 1` | a put occupies the only worker and waits for a delta write queued behind it |
| `DeltaVisible` | `Executor = "sync"` | a later put drains the futures that an earlier one should have waited for (`_loop.py:1538`, against the comment at `:204`) |
| `Loadable` | asyncio, `CanFail = TRUE` | a checkpoint stored after a failed put names values that only that put carried |
| `InOrder` | asyncio, `CanFail = TRUE` | a failed delta write ends a put before it has awaited the previous one |
| `OnlyForFailures` | threads, `Workers = 1` | a pool future cancelled before it started is committed as a failure |
| `CommittedFirst` | threads with a step timeout (`Hasty`) | `event.wait` times out and tick returns before a finished task was committed |
| `NoSilentFailure` | threads with a step timeout | a failure just after the deadline is neither handled nor raised (`_runner.py:676`, `:659`) |
| `NoSilentFailure` | `EarlierIds` not empty | an exception with the id of a released one is taken for handled |
| `AppliedWhole` | `Loop = "sync"` | the sync loop puts failures in the node cache |
| `NoRerun` stated for handlers too | `resume_runs` | a handler's task is added after the writes were reapplied: a handler that succeeded before a crash runs again |
| `ImplementsSupersteps` | `loop_sends` with `j` deferred | finish() is announced although Sends are pending: apply_writes does not count them |
| `ImplementsSupersteps` | `loop_joins` (durability "exit") with a Command that goes to `a` | the pending writes of the Command are put again with the checkpoint at exit and applied twice |
| `NothingLeft` | `loop_joins` with a Command that goes to `d` | a goto to a deferred node leaves its channel unfinished and the node never runs |
| `Approved` | `loop_joins`, "drain" or "crash" among the events, or a Command that goes to `b` | the run that resumes passes an interrupt that nobody saw |
| `Approved` | `loop_sends`, `Limit` 1, an interrupt before `b` and no Command | so does a run resumed after the recursion limit |
| `FailedStepOwed` | `Durability = "exit"` and a graph in which two triggered nodes write the same LastValue | a superstep whose updates conflict is saved half-applied and cannot be resumed |

The second list is what was met while reading the code for a module, and either excluded
by a condition in the property or left out of the instance:

* Tasks. Neither the call counter nor the interrupt counter is reset by an in-process
  retry, and the comparison at `_runner.py:743` never matches, so a retried parent submits
  its children again under new ids, also while the first ones run, against the comment at
  `:742` (`Ids` has one more than `Program`); a child may end
  between registration and chaining, where the callbacks run in another order; with
  `max_concurrency=1` a parent that was submitted, to the pool or behind the semaphore, waits
  for ever for its child (`CallsAnswered` leaves it out: `Starved`); a retry moves the call
  counter past the children of an earlier run, so that `NotRunAgain` is about parents that
  were not retried and `OwnResults` about these and those retried in a run that had found
  no results.
* Interrupts. The plain value of `Command(resume=v)` stays a write of the null task after
  its run and may answer a later question (`types.py:772`); `_pending_interrupts` counts a
  task that asks again as answered (`_loop.py:918`).
* Threads and savers. A list that mixes RESUME with channel writes is kept differently by
  InMemorySaver and the SQL savers; Postgres pages by id and starts its walk late when
  the target is not on the first page (`base.py:393`), which `SameHistory` and `Rebuilt`
  leave out; InMemorySaver's override of the delta history sorts the writes of a checkpoint
  by task id (`memory/__init__.py:203`), the base class's walk takes them from its
  `get_tuple` in the order they were saved (`:255`), against the "return contract" that
  `base/__init__.py:609` calls fixed, so that `SameHistory` asks for the same writes there,
  and for their order where they are one task's; a channel that became a DeltaChannel is
  rebuilt differently by Postgres and InMemory; direct delta input on a fresh thread is
  saved under a checkpoint that is never put (`_loop.py:1025`), and `update_state` as INPUT
  saves its writes at the new checkpoint; updates as END, INPUT or copy reset the snapshot
  counters; a DeltaChannel that was never written gets no snapshot; its writes are replayed
  by (task id, index), not by task path.
* Stores. A put with `index=False` leaves the old vectors; one failing operation fails its
  whole batch; SQLite refreshes every key of a namespace and returns expired rows; its
  cursor commits also when an exception passes; two puts of one text make
  `_insertinmem_store` raise.
* Run streams. A consumer that comes to the pump while another one waits for scheduled tasks
  is told that the run is over before the last events are in the log; an `aclose()` that raises because of a scheduled task is not routed to
  `afail`; a scheduled task that fails before the end is not looked at; cancelling the
  consumer that pulls ends the generator and the others end as if the run were complete;
  a late subscriber of a subgraph's handle misses its early items.
* SDK. `close()` cancels `_fanout`, which then pushes no sentinel; a rotation may overtake
  an unanswered earlier one; a full queue is treated as a drop; the cursor of the old
  stream may pass events that only the new one would carry; `namespaces=[]` matches
  everything but is taken to be covered by any list.
* Agent. At zero remaining steps a final answer without tool calls is replaced too
  (`all([])`); in version "v1" an interrupt or failure re-executes all calls of the message; a tool that
  returns directly beside a call that ends as a Command with messages calls the model again
  (`route_tool_responses` looks only at the tool messages at the end of the history), which
  `DirectEnds` leaves out;
  a tool's error ends the turn if the tool returns directly.

## 6. Hazards no property covers

None of those listed in `PROJECT.json`: the list is kept to what a property speaks about.
Known besides, and not modelled:

* the failure marker of a node with a handler is submitted to the executor and may be
  durable after the handler has started (`_loop.py:1579`);
* the step limit of a resumed run is computed before an input run advances the step
  (`_loop.py:1701`);
* a live barrier or topic is aliased by the checkpoint being put
  (`channels/named_barrier_value.py:47`);
* `put_writes` rebuilds the list of pending writes without a lock (`_loop.py:430`), the
  futures are iterated while `call()` may add one (`_runner.py:345`), and a commit callback
  races the chained future in the pool (`_runner.py:786`): interleavings below the step of
  the models;
* cached writes are also matched for tasks that are running (`_loop.py:1568`);
* the first value of an aggregate is stored without looking for an Overwrite
  (`channels/binop.py:127`); `update_state` passes on `updated_channels` (`main.py:2029`).

## 7. What is not modelled

`PROJECT.json` lists every component with its status; "partly" says there what is left
out. Not modelled at all:

* serializers and the state reducers: conversions and functions without control; node
  caches: `SuperstepResume` has them as a map with what a run finds in it;
* remote graphs and the other SDK clients: each call is one request to a server that is
  not in the repository; the CLI: configuration and processes; the conformance tests;
* `src/apps/hotmart-ebook-agent`: an application. Read for its policy: `ad_account`,
  `email_replies` and `snapshot` persist over the commands of a thread, so that planning may
  go on with an account of an earlier command when the ads node is degraded (its
  README.md:172), an e-mail is answered again by a later command, and a second vague
  command is never asked about since `clarified` is not reset; approvals cannot be stale,
  since actions get new ids whenever it decides.

Most of the repository by lines is of these kinds, or is a synchronous copy of an
asynchronous function, a schema, a docstring, an overload or an example; the map
therefore covers a small share of all lines, and most of those of the loop, the runner,
the retries, the savers and the streams that decide what happens next.

Out of the provers' reach: liveness and ENABLED.

## 8. What could come next

1. The alias between a live barrier and the checkpoint being put; nested graphs and
   `update_state` of a subgraph.
2. `StreamMux` with interleaved and teed channels; the synchronous run stream.
