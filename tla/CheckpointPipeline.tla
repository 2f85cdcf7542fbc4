------------------------- MODULE CheckpointPipeline -------------------------
(***************************************************************************)
(* How one run of a Pregel loop gets its checkpoints and its tasks' writes *)
(* to the checkpointer.                                                    *)
(*                                                                         *)
(* The loop (main thread or main coroutine) never calls the checkpointer   *)
(* itself.  put_writes and _put_checkpoint submit a job to the background  *)
(* executor and go on; _checkpointer_put_after_previous, run by the        *)
(* executor, first drains the list of DeltaChannel write futures, then     *)
(* waits for the put of the previous checkpoint, then puts.  The executor  *)
(* is a FIFO thread pool (BackgroundExecutor) or a set of asyncio tasks    *)
(* behind a FIFO semaphore (AsyncBackgroundExecutor); both run at most     *)
(* max_concurrency jobs at a time.                                         *)
(*                                                                         *)
(* Supersteps are numbered from 0, the input checkpoint.  Each superstep   *)
(* n > 0 runs every task of Tasks.  Values are abstracted away: what       *)
(* matters of a checkpoint is the version of each channel it names, and    *)
(* which channel blobs it brings along (new_versions).                     *)
(***************************************************************************)
EXTENDS Naturals, Sequences, FiniteSets

CONSTANTS
    Tasks,        \* tasks of a superstep
    NullTask,     \* NULL_TASK_ID, the writer of the input
    Chans,        \* channels whose values are stored as blobs
    LastStep,     \* bound: the last superstep a run may reach
    Workers,      \* config["max_concurrency"]
    Executor,     \* "sync": BackgroundExecutor, "async": AsyncBackgroundExecutor
    Durability,   \* "sync" or "async"
    CanFail       \* may a call to the checkpointer raise?

ASSUME PipelineAssumption ==
    /\ NullTask \notin Tasks
    /\ IsFiniteSet(Tasks)
    /\ LastStep \in Nat
    /\ Workers \in Nat \ {0}
    /\ Executor \in {"sync", "async"}
    /\ Durability \in {"sync", "async"}
    /\ CanFail \in BOOLEAN

Steps == 0 .. LastStep

\* What the loop submits: checkpointer_put_writes for a task of a step, and
\* _checkpointer_put_after_previous for the checkpoint made by a step.
Write(n, t) == [kind |-> "writes", step |-> n, task |-> t]
Put(n)      == [kind |-> "put",    step |-> n, task |-> NullTask]
WriteJobs   == [kind : {"writes"}, step : Steps, task : Tasks \cup {NullTask}]
PutJobs     == [kind : {"put"}, step : Steps, task : {NullTask}]
Jobs        == WriteJobs \cup PutJobs

Finished == {"done", "failed"}
Phases   == {"none", "queued", "started", "waiting"} \cup Finished

NoVersion == 0                     \* the channel has never been written
Versions  == 0 .. (LastStep + 1)   \* step n makes version n + 1

VARIABLES
    pc,          \* the loop: "first", "run", "result", "exit", "over"
    error,       \* did the run raise?
    step,        \* superstep being executed
    committed,   \* tasks of this superstep whose writes were put
    versions,    \* self.checkpoint["channel_versions"]
    args,        \* what each put was submitted with: versions, new_versions
    delta,       \* write jobs that hold a write to a DeltaChannel
    queue,       \* jobs submitted and not picked up by the executor
    phase,       \* progress of every job
    deltaFuts,   \* self._delta_write_futs
    waitFor,     \* the futures each put drained from deltaFuts
    stored,      \* checkpointer: steps whose checkpoint is durable
    blobs        \* checkpointer: durable channel values, by version

loopVars  == <<pc, error, step, committed, versions, args, delta>>
saverVars == <<stored, blobs>>
vars      == <<loopVars, queue, phase, deltaFuts, waitFor, saverVars>>

TypeOK ==
    /\ pc \in {"first", "run", "result", "exit", "over"}
    /\ error \in BOOLEAN
    /\ step \in 0 .. (LastStep + 1)
    /\ committed \subseteq Tasks
    /\ versions \in [Chans -> Versions]
    /\ args \in [Steps -> [versions : [Chans -> Versions], new : SUBSET Chans]]
    /\ delta \subseteq WriteJobs
    /\ queue \in Seq(Jobs)
    /\ phase \in [Jobs -> Phases]
    /\ deltaFuts \subseteq WriteJobs
    /\ waitFor \in [Steps -> SUBSET WriteJobs]
    /\ stored \subseteq Steps
    /\ blobs \subseteq Chans \X Versions

Init ==
    /\ pc = "first" /\ error = FALSE /\ step = 0 /\ committed = {}
    /\ versions = [c \in Chans |-> NoVersion]
    /\ args = [n \in Steps |-> [versions |-> versions, new |-> {}]]
    /\ delta = {} /\ queue = <<>> /\ phase = [j \in Jobs |-> "none"]
    /\ deltaFuts = {} /\ waitFor = [n \in Steps |-> {}]
    /\ stored = {} /\ blobs = {}

-----------------------------------------------------------------------------
(* The loop.                                                               *)

Running    == {j \in Jobs : phase[j] \in {"started", "waiting"}}
IsOver(j)  == phase[j] \in Finished

\* Variant: the channels written for the first time are forgotten.
NewVersionsSkipFirst(old, new) ==
    {c \in Chans : new[c] > old[c] /\ old[c] # NoVersion}

\* get_new_channel_versions: the channels whose version is newer than in the
\* checkpoint put before this one.
NewVersions(old, new) == {c \in Chans : new[c] > old[c]}

\* apply_writes gives every channel it updates one new version, above all the
\* versions in use.
Bump(n, upd) == [c \in Chans |-> IF c \in upd THEN n + 1 ELSE versions[c]]

\* The checkpoint that _put_checkpoint hands to the put it submits.
MakeCheckpoint(n, upd) ==
    /\ versions' = Bump(n, upd)
    /\ args' = [args EXCEPT ![n] = [versions |-> versions',
                                    new |-> NewVersions(versions, versions')]]

\* _first with an input: the input's delta writes are put under the null
\* task, then the input checkpoint is put.
First(hasDelta, upd) ==
    /\ pc = "first"
    /\ MakeCheckpoint(0, upd)
    /\ LET w == Write(0, NullTask)
       IN  /\ queue' = IF hasDelta THEN <<w, Put(0)>> ELSE <<Put(0)>>
           /\ phase' = [j \in Jobs |-> IF j = Put(0) \/ (hasDelta /\ j = w)
                                       THEN "queued" ELSE phase[j]]
           /\ delta' = IF hasDelta THEN {w} ELSE {}
           /\ deltaFuts' = delta'
    /\ step' = 1
    /\ pc' = "run"
    /\ UNCHANGED <<error, committed, waitFor, saverVars>>

\* put_writes, called by the runner's commit when task t is done; a task that
\* was running when another one raised may still get there.
PutWrites(t, isDelta) ==
    /\ pc = "run" \/ (pc = "exit" /\ error)
    /\ step <= LastStep
    /\ t \in Tasks \ committed
    /\ LET w == Write(step, t)
       IN  /\ queue' = Append(queue, w)
           /\ phase' = [phase EXCEPT ![w] = "queued"]
           /\ delta' = IF isDelta THEN delta \cup {w} ELSE delta
           /\ deltaFuts' = IF isDelta THEN deltaFuts \cup {w} ELSE deltaFuts
    /\ committed' = committed \cup {t}
    /\ UNCHANGED <<pc, error, step, versions, args, waitFor, saverVars>>

\* after_tick: every task is done, the superstep's checkpoint is put.  With
\* durability "sync" the caller then waits for that put.
AfterTick(upd) ==
    /\ pc = "run"
    /\ step <= LastStep
    /\ committed = Tasks
    /\ MakeCheckpoint(step, upd)
    /\ queue' = Append(queue, Put(step))
    /\ phase' = [phase EXCEPT ![Put(step)] = "queued"]
    /\ step' = step + 1
    /\ committed' = {}
    /\ pc' = IF Durability = "sync" THEN "result" ELSE "run"
    /\ UNCHANGED <<error, delta, deltaFuts, waitFor, saverVars>>

\* Variant: the put is waited for only until it runs.
ResultStarted == phase[Put(step - 1)] # "queued"

ResultReady == IsOver(Put(step - 1))

\* loop._put_checkpoint_fut.result(), with durability "sync".
Result ==
    /\ pc = "result"
    /\ ResultReady
    /\ IF phase[Put(step - 1)] = "failed"
       THEN pc' = "exit" /\ error' = TRUE
       ELSE pc' = "run" /\ UNCHANGED error
    /\ UNCHANGED <<step, committed, versions, args, delta>>
    /\ UNCHANGED <<queue, phase, deltaFuts, waitFor, saverVars>>

\* tick() returns False, or a task raises: the loop leaves its context.
Leave(raises) ==
    /\ pc = "run"
    /\ raises \/ committed = {}
    /\ pc' = "exit"
    /\ error' = raises
    /\ UNCHANGED <<step, committed, versions, args, delta>>
    /\ UNCHANGED <<queue, phase, deltaFuts, waitFor, saverVars>>

\* Variant: only the jobs that run are waited for.
NoneRunning == Running = {}

\* concurrent.futures.wait(pending), over every job submitted.
NonePending == \A j \in Jobs : phase[j] \in Finished \cup {"none"}

\* Variant: a failed job keeps the loop waiting.
ExitUntilSuccess ==
    /\ pc = "exit"
    /\ NonePending
    /\ pc' = IF \E j \in Jobs : phase[j] = "failed" THEN "exit" ELSE "over"
    /\ UNCHANGED <<error, step, committed, versions, args, delta>>
    /\ UNCHANGED <<queue, phase, deltaFuts, waitFor, saverVars>>

\* The executor's __exit__ waits for every job, then re-raises the first
\* exception of a job unless the run is already raising.
Exit ==
    /\ pc = "exit"
    /\ NonePending
    /\ pc' = "over"
    /\ error' = (error \/ \E j \in Jobs : phase[j] = "failed")
    /\ UNCHANGED <<step, committed, versions, args, delta>>
    /\ UNCHANGED <<queue, phase, deltaFuts, waitFor, saverVars>>

-----------------------------------------------------------------------------
(* The executor.                                                           *)

\* Variant: a put forgets the futures it drained.
DrainForgets(n) ==
    /\ waitFor' = [waitFor EXCEPT ![n] = {}]
    /\ deltaFuts' = {}

\* The futures a put drains; the list is replaced by an empty one.
Drain(n) ==
    /\ waitFor' = [waitFor EXCEPT ![n] = deltaFuts]
    /\ deltaFuts' = {}

\* The oldest queued job gets a free worker (sync) or the semaphore (async).
\* A coroutine then runs to its first await, so an asyncio put drains the
\* list in the same step; a pool thread reaches that line later.
Start ==
    /\ queue # <<>>
    /\ Cardinality(Running) < Workers
    /\ LET j == Head(queue)
           drains == Executor = "async" /\ j.kind = "put"
       IN  /\ phase' = [phase EXCEPT ![j] = IF drains THEN "waiting" ELSE "started"]
           /\ IF drains THEN Drain(j.step) ELSE UNCHANGED <<waitFor, deltaFuts>>
    /\ queue' = Tail(queue)
    /\ UNCHANGED <<loopVars, saverVars>>

\* A pool thread runs the first lines of _checkpointer_put_after_previous.
DrainInThread(n) ==
    /\ phase[Put(n)] = "started"
    /\ Drain(n)
    /\ phase' = [phase EXCEPT ![Put(n)] = "waiting"]
    /\ UNCHANGED <<loopVars, queue, saverVars>>

\* checkpointer.put_writes returns or raises.
RunWrite(w, ok) ==
    /\ phase[w] = "started"
    /\ ok \/ CanFail
    /\ phase' = [phase EXCEPT ![w] = IF ok THEN "done" ELSE "failed"]
    /\ UNCHANGED <<loopVars, queue, deltaFuts, waitFor, saverVars>>

\* Variant: gather(..., return_exceptions=True), which outwaits failures.
GatherReturns(n) == FALSE

\* concurrent.futures.wait(futs) waits for all of them whatever their outcome.
\* asyncio.gather(*futs) raises as soon as one has failed.
GatherFails(n) ==
    /\ Executor = "async"
    /\ \E w \in waitFor[n] : phase[w] = "failed"

\* gather raised outside the try: nothing is put, prev is not awaited.
RunPutGatherFails(n) ==
    /\ phase[Put(n)] = "waiting"
    /\ GatherFails(n)
    /\ phase' = [phase EXCEPT ![Put(n)] = "failed"]
    /\ UNCHANGED <<loopVars, queue, deltaFuts, waitFor, saverVars>>

\* Variants: the previous put is not waited for, or only until it runs.
PrevIgnored(n) == TRUE
PrevStarted(n) == n > 0 => phase[Put(n - 1)] \notin {"none", "queued"}

\* prev.result(), or await prev.
PrevOver(n) == n > 0 => IsOver(Put(n - 1))

\* The drained writes are over and so is the previous put.  The put is in a
\* finally clause, so it is made even if the previous one raised; that
\* exception is then re-raised.
RunPut(n, ok) ==
    /\ phase[Put(n)] = "waiting"
    /\ ~GatherFails(n)
    /\ \A w \in waitFor[n] : IsOver(w)
    /\ PrevOver(n)
    /\ ok \/ CanFail
    /\ IF ok
       THEN /\ stored' = stored \cup {n}
            /\ blobs' = blobs \cup {<<c, args[n].versions[c]>> : c \in args[n].new}
       ELSE UNCHANGED saverVars
    /\ phase' = [phase EXCEPT ![Put(n)] =
                     IF ok /\ (n > 0 => phase[Put(n - 1)] = "done")
                     THEN "done" ELSE "failed"]
    /\ UNCHANGED <<loopVars, queue, deltaFuts, waitFor>>

-----------------------------------------------------------------------------
Loop ==
    \/ \E upd \in SUBSET Chans, d \in BOOLEAN : First(d, upd)
    \/ \E t \in Tasks, d \in BOOLEAN : PutWrites(t, d)
    \/ \E upd \in SUBSET Chans : AfterTick(upd)
    \/ Result
    \/ \E r \in BOOLEAN : Leave(r)
    \/ Exit

Background ==
    \/ Start
    \/ \E n \in Steps :
         \/ DrainInThread(n)
         \/ RunPutGatherFails(n)
         \/ \E ok \in BOOLEAN : RunPut(n, ok)
    \/ \E w \in WriteJobs, ok \in BOOLEAN : RunWrite(w, ok)

\* The run is over: the thread stays as the checkpointer holds it.
Over == pc = "over" /\ UNCHANGED vars

Next == Loop \/ Background \/ Over

\* A submitted job is eventually picked up if a worker is free, a call to the
\* checkpointer eventually returns, and the loop leaves and waits.  Whether
\* another superstep is run is never forced.
Fairness ==
    /\ WF_vars(Background)
    /\ WF_vars(Exit)
    /\ WF_vars(Result)
    /\ WF_vars(pc = "run" /\ step > LastStep /\ Leave(FALSE))

Spec == Init /\ [][Next]_vars /\ Fairness

-----------------------------------------------------------------------------
(* Safety.                                                                 *)

\* "if there's a previous checkpoint save in progress, wait for it ensuring
\* checkpointers receive checkpoints in order" (_put_checkpoint): when a
\* checkpoint is durable, no put of an earlier one is still to come.
InOrder == \A n \in stored : \A m \in 0 .. (n - 1) : IsOver(Put(m))

\* "a checkpoint never becomes durable before the writes that produced it"
\* (_delta_write_futs): DeltaChannels are rebuilt from the writes, so a
\* checkpoint without them reads back with part of its state missing.
DeltaVisible ==
    \A n \in stored : \A w \in delta : w.step <= n => phase[w] = "done"

\* With asyncio a checkpoint whose put saw a delta write fail is never made
\* durable: the missing writes cannot be mistaken for an empty superstep.
\* (The thread pool's wait ignores the failure and puts it anyway.)
DrainedStored ==
    Executor = "async" => \A n \in stored : \A w \in waitFor[n] : phase[w] = "done"

\* A durable checkpoint names no channel version whose value was never
\* stored: put receives only the values of the channels in new_versions, the
\* others must have come with an earlier put.
Loadable ==
    \A n \in stored : \A c \in Chans :
        args[n].versions[c] # NoVersion => <<c, args[n].versions[c]>> \in blobs

\* A run that ends without raising has made every checkpoint and every write
\* it submitted durable.
CleanExit ==
    (pc = "over" /\ ~error) =>
        /\ stored = 0 .. (step - 1)
        /\ \A j \in Jobs : phase[j] \in {"none", "done"}

\* "Changes are persisted synchronously before the next step starts"
\* (types.py, of durability "sync"): from the second step on, every step so
\* far and the input are durable when the next one starts.  The first step
\* starts while the input checkpoint is in flight.
SyncDurableSteps == (pc = "run" /\ step > 1) => 0 .. (step - 1) \subseteq stored

(* Liveness.                                                               *)

\* "waits for all tasks to finish" (BackgroundExecutor): the executor's exit
\* does not wait for ever.
ExitCompletes == pc = "exit" ~> pc = "over"

(* Refinement.                                                             *)
Log == INSTANCE CheckpointLog WITH durable <- stored

\* Without failing calls the durable checkpoints grow one superstep at a time:
\* a reader always finds a prefix of the run.
RefinesLog == Log!Spec
=============================================================================
