------------------------ MODULE MCCheckpointPipeline ------------------------
(***************************************************************************)
(* CheckpointPipeline for TLC: a run with the asyncio executor whose calls *)
(* to the checkpointer never fail, whose constants are the module's own;   *)
(* and runs whose calls may raise, with the thread pool and durability     *)
(* "async" or with asyncio and durability "sync".  A behaviour is one of   *)
(* one of them, chosen by part, and the variables of the other idle.       *)
(***************************************************************************)
EXTENDS CheckpointPipeline

CONSTANTS t1, c1

OneTask == {t1}
OneChan == {c1}

VARIABLES
    part,
    pcF, errorF, stepF, committedF, versionsF, argsF, deltaF, queueF, phaseF,
    deltaFutsF, waitForF, storedF, blobsF

faultyVars == <<pcF, errorF, stepF, committedF, versionsF, argsF, deltaF, queueF,
                phaseF, deltaFutsF, waitForF, storedF, blobsF>>
allVars    == <<part, vars, faultyVars>>

Threads == INSTANCE CheckpointPipeline
    WITH Tasks <- {t1}, Chans <- {c1}, LastStep <- 2, Workers <- 4,
         Executor <- "sync", Durability <- "async", CanFail <- TRUE,
         pc <- pcF, error <- errorF, step <- stepF, committed <- committedF,
         versions <- versionsF, args <- argsF, delta <- deltaF, queue <- queueF,
         phase <- phaseF, deltaFuts <- deltaFutsF, waitFor <- waitForF,
         stored <- storedF, blobs <- blobsF

Durable == INSTANCE CheckpointPipeline
    WITH Tasks <- {t1}, Chans <- {c1}, LastStep <- 2, Workers <- 6,
         Executor <- "async", Durability <- "sync", CanFail <- TRUE,
         pc <- pcF, error <- errorF, step <- stepF, committed <- committedF,
         versions <- versionsF, args <- argsF, delta <- deltaF, queue <- queueF,
         phase <- phaseF, deltaFuts <- deltaFutsF, waitFor <- waitForF,
         stored <- storedF, blobs <- blobsF

PipelineInit ==
    /\ part \in {"reliable", "threads", "durable"}
    /\ Init
    /\ IF part = "durable" THEN Durable!Init ELSE Threads!Init

PipelineNext ==
    /\ UNCHANGED part
    /\ \/ part = "reliable" /\ Next /\ UNCHANGED faultyVars
       \/ part = "threads" /\ Threads!Next /\ UNCHANGED vars
       \/ part = "durable" /\ Durable!Next /\ UNCHANGED vars

\* The fairness of CheckpointPipeline, asked of the runs with threads.
PipelineFairness ==
    /\ WF_allVars(part = "threads" /\ Threads!Background /\ UNCHANGED <<part, vars>>)
    /\ WF_allVars(part = "threads" /\ Threads!Exit /\ UNCHANGED <<part, vars>>)
    /\ WF_allVars(part = "threads" /\ Threads!Result /\ UNCHANGED <<part, vars>>)
    /\ WF_allVars(part = "threads" /\ pcF = "run" /\ stepF > 2 /\ Threads!Leave(FALSE)
                     /\ UNCHANGED <<part, vars>>)

PipelineSpec == PipelineInit /\ [][PipelineNext]_allVars /\ PipelineFairness

\* A run that ends without raising lost no checkpoint and no write.
NothingLost == IF part = "durable" THEN Durable!CleanExit ELSE Threads!CleanExit

\* _checkpointer_put_after_previous (asyncio): a put that saw one of its delta
\* writes fail stores nothing.
DrainedFirst == part = "durable" => Durable!DrainedStored

\* Durability "sync": a superstep starts when the ones before it are durable.
DurableSteps == part = "durable" => Durable!SyncDurableSteps

\* The executor's exit does not wait for ever.
ExitEnds == part = "threads" /\ pcF = "exit" ~> pcF = "over"
=============================================================================
