---------------------- MODULE CheckpointPipelineProofs ----------------------
(***************************************************************************)
(* Proofs about CheckpointPipeline, for every number of tasks, channels,   *)
(* supersteps and workers.                                                 *)
(***************************************************************************)
EXTENDS CheckpointPipeline, SequenceTheorems, TLAPS

-----------------------------------------------------------------------------
(* Jobs.                                                                   *)

\* Submitted jobs are identified by what they save and for which superstep.
LEMMA JobFacts ==
    /\ \A n \in Steps : Put(n) \in PutJobs /\ Put(n) \in Jobs
    /\ \A n \in Steps, t \in Tasks \cup {NullTask} :
           Write(n, t) \in WriteJobs /\ Write(n, t) \in Jobs
    /\ \A j \in Jobs : j.step \in Steps
    /\ \A j \in PutJobs : j.kind = "put" /\ j = Put(j.step)
    /\ \A j \in WriteJobs : j.kind = "writes"
    /\ \A j \in Jobs : j.kind = "put" => j \in PutJobs
    /\ \A m, n \in Steps : Put(m) = Put(n) => m = n
    /\ \A n \in Steps : Put(n).step = n /\ Put(n).kind = "put"
BY DEF Jobs, PutJobs, WriteJobs, Put, Write

LEMMA WriteFacts ==
    /\ WriteJobs \subseteq Jobs
    /\ \A n \in Steps : n \in Nat
    /\ \A w \in WriteJobs : w.step \in Steps /\ w.step \in Nat
    /\ \A n \in Steps : \A w \in WriteJobs : Put(n) # w
<1>1. WriteJobs \subseteq Jobs
    BY DEF Jobs
<1>2. \A n \in Steps : n \in Nat
    BY PipelineAssumption DEF Steps
<1>3. \A w \in WriteJobs : w.step \in Steps
    BY <1>1, JobFacts
<1>4. \A n \in Steps : \A w \in WriteJobs : Put(n) # w
    BY JobFacts
<1> QED
    BY <1>1, <1>2, <1>3, <1>4

-----------------------------------------------------------------------------
(* Type correctness.                                                       *)

LEMMA InitTypeOK == Init => TypeOK
<1> SUFFICES ASSUME Init PROVE TypeOK
    OBVIOUS
<1>1. LastStep \in Nat /\ NoVersion \in Versions
    BY PipelineAssumption DEF NoVersion, Versions
<1>2. versions \in [Chans -> Versions]
    BY <1>1 DEF Init
<1>3. args \in [Steps -> [versions : [Chans -> Versions], new : SUBSET Chans]]
    BY <1>2 DEF Init
<1>4. queue \in Seq(Jobs)
    BY DEF Init
<1> QED
    BY <1>1, <1>2, <1>3, <1>4 DEF Init, TypeOK, Phases, Steps

LEMMA MakeCheckpointType ==
    ASSUME TypeOK, NEW n \in Steps, NEW upd \in SUBSET Chans,
           MakeCheckpoint(n, upd)
    PROVE  /\ versions' \in [Chans -> Versions]
           /\ args' \in [Steps -> [versions : [Chans -> Versions],
                                   new : SUBSET Chans]]
<1>1. n + 1 \in Versions
    BY PipelineAssumption DEF Versions, Steps
<1>2. versions' \in [Chans -> Versions]
    BY <1>1 DEF TypeOK, MakeCheckpoint, Bump
<1>3. NewVersions(versions, versions') \in SUBSET Chans
    BY DEF NewVersions
<1> QED
    BY <1>2, <1>3 DEF TypeOK, MakeCheckpoint

LEMMA NextTypeOK == TypeOK /\ [Next]_vars => TypeOK'
<1> SUFFICES ASSUME TypeOK, [Next]_vars PROVE TypeOK'
    OBVIOUS
<1> USE DEF Finished, Phases
<1>1. ASSUME NEW upd \in SUBSET Chans, NEW d \in BOOLEAN, First(d, upd)
      PROVE  TypeOK'
    <2>1. 0 \in Steps /\ 1 \in 0 .. (LastStep + 1)
        BY PipelineAssumption DEF Steps
    <2>2. Put(0) \in Jobs /\ Write(0, NullTask) \in WriteJobs
          /\ Write(0, NullTask) \in Jobs
        BY <2>1, JobFacts
    <2>3. MakeCheckpoint(0, upd)
        BY <1>1 DEF First
    <2>4. queue' \in Seq(Jobs)
        BY <1>1, <2>2 DEF First
    <2>5. phase' \in [Jobs -> Phases]
        BY <1>1 DEF First, TypeOK
    <2>6. delta' \subseteq WriteJobs /\ deltaFuts' \subseteq WriteJobs
        BY <1>1, <2>2 DEF First
    <2> QED
        BY <1>1, <2>1, <2>3, <2>4, <2>5, <2>6, MakeCheckpointType
        DEF First, TypeOK, saverVars
<1>2. ASSUME NEW t \in Tasks, NEW d \in BOOLEAN, PutWrites(t, d)
      PROVE  TypeOK'
    <2>1. step \in Steps
        BY <1>2, PipelineAssumption DEF PutWrites, TypeOK, Steps
    <2>2. Write(step, t) \in WriteJobs /\ Write(step, t) \in Jobs
        BY <2>1, JobFacts
    <2> QED
        BY <1>2, <2>2 DEF PutWrites, TypeOK, saverVars
<1>3. ASSUME NEW upd \in SUBSET Chans, AfterTick(upd)
      PROVE  TypeOK'
    <2>1. step \in Steps /\ step + 1 \in 0 .. (LastStep + 1)
        BY <1>3, PipelineAssumption DEF AfterTick, TypeOK, Steps
    <2>2. Put(step) \in Jobs
        BY <2>1, JobFacts
    <2>3. MakeCheckpoint(step, upd)
        BY <1>3 DEF AfterTick
    <2> QED
        BY <1>3, <2>1, <2>2, <2>3, MakeCheckpointType
        DEF AfterTick, TypeOK, saverVars
<1>4. CASE Result
    BY <1>4 DEF Result, TypeOK, saverVars
<1>5. ASSUME NEW r \in BOOLEAN, Leave(r)
      PROVE  TypeOK'
    BY <1>5 DEF Leave, TypeOK, saverVars
<1>6. CASE Exit
    BY <1>6 DEF Exit, TypeOK, saverVars
<1>7. CASE Start
    <2>1. Head(queue) \in Jobs /\ Tail(queue) \in Seq(Jobs)
        BY <1>7 DEF Start, TypeOK
    <2>2. Head(queue).step \in Steps
        BY <2>1, JobFacts
    <2> QED
        BY <1>7, <2>1, <2>2 DEF Start, Drain, TypeOK, saverVars, loopVars
<1>8. ASSUME NEW n \in Steps, DrainInThread(n)
      PROVE  TypeOK'
    BY <1>8 DEF DrainInThread, Drain, TypeOK, saverVars, loopVars
<1>9. ASSUME NEW n \in Steps, RunPutGatherFails(n)
      PROVE  TypeOK'
    BY <1>9 DEF RunPutGatherFails, TypeOK, saverVars, loopVars
<1>10. ASSUME NEW n \in Steps, NEW ok \in BOOLEAN, RunPut(n, ok)
       PROVE  TypeOK'
    <2>1. blobs' \subseteq Chans \X Versions /\ stored' \subseteq Steps
        BY <1>10 DEF RunPut, TypeOK, saverVars
    <2> QED
        BY <1>10, <2>1 DEF RunPut, TypeOK, loopVars
<1>11. ASSUME NEW w \in WriteJobs, NEW ok \in BOOLEAN, RunWrite(w, ok)
       PROVE  TypeOK'
    BY <1>11 DEF RunWrite, TypeOK, saverVars, loopVars
<1>12. CASE UNCHANGED vars
    BY <1>12 DEF vars, loopVars, saverVars, TypeOK
<1> QED
    BY <1>1, <1>2, <1>3, <1>4, <1>5, <1>6, <1>7, <1>8, <1>9, <1>10, <1>11,
       <1>12 DEF Next, Loop, Background, Over

\* Every variable of the pipeline keeps its type: jobs that are queued,
\* drained or run are jobs that were submitted.
THEOREM TypeCorrect == Spec => []TypeOK
BY InitTypeOK, NextTypeOK, PTL DEF Spec

-----------------------------------------------------------------------------
(* The queue of the executor.                                              *)

\* The puts of supersteps 0 .. step - 1 have been submitted, in that order;
\* those not picked up are in the queue, once each.
QueueInv ==
    /\ pc = "first" => step = 0
    /\ pc # "first" => step > 0
    /\ step = 0 => queue = <<>>
    /\ \A n \in Steps : n >= step <=> phase[Put(n)] = "none"
    /\ \A i \in 1 .. Len(queue) :
           queue[i].kind = "put" =>
               queue[i].step < step /\ phase[queue[i]] = "queued"
    /\ \A n \in Steps : phase[Put(n)] = "queued" =>
           \E i \in 1 .. Len(queue) : queue[i] = Put(n)
    /\ \A i, k \in 1 .. Len(queue) :
           (i < k /\ queue[i].kind = "put" /\ queue[k].kind = "put") =>
               queue[i].step < queue[k].step

LEMMA QueueInit == Init => QueueInv
BY JobFacts, PipelineAssumption DEF Init, QueueInv, Steps

\* Appending a job that is not a put.
LEMMA QueueWrite ==
    ASSUME TypeOK, QueueInv, NEW w \in WriteJobs,
           queue' = Append(queue, w), step' = step, step > 0,
           pc' = pc,
           \A n \in Steps : phase'[Put(n)] = phase[Put(n)]
    PROVE  QueueInv'
<1>1. queue \in Seq(Jobs) /\ w \in Jobs /\ w.kind = "writes"
    BY JobFacts DEF TypeOK, Jobs
<1>2. /\ Len(queue') = Len(queue) + 1
      /\ queue'[Len(queue) + 1] = w
      /\ \A i \in 1 .. Len(queue) : queue'[i] = queue[i]
      /\ Len(queue) \in Nat
    BY <1>1
<1>3. \A i \in 1 .. Len(queue) : queue[i].kind = "put" =>
          /\ queue[i] = Put(queue[i].step)
          /\ queue[i].step \in Steps
    BY <1>1, JobFacts
<1>4. \A i \in 1 .. Len(queue') : i \in 1 .. Len(queue) \/ i = Len(queue) + 1
    BY <1>2
<1>5. \A i \in 1 .. Len(queue') : queue'[i].kind = "put" =>
          /\ i \in 1 .. Len(queue)
          /\ queue'[i] = queue[i]
    BY <1>1, <1>2, <1>4
<1>6. \A i \in 1 .. Len(queue') : queue'[i].kind = "put" =>
          queue'[i].step < step' /\ phase'[queue'[i]] = "queued"
    BY <1>3, <1>5 DEF QueueInv
<1>7. \A n \in Steps : phase'[Put(n)] = "queued" =>
           \E i \in 1 .. Len(queue') : queue'[i] = Put(n)
    BY <1>2 DEF QueueInv
<1>8. \A i, k \in 1 .. Len(queue') :
           (i < k /\ queue'[i].kind = "put" /\ queue'[k].kind = "put") =>
               queue'[i].step < queue'[k].step
    BY <1>5 DEF QueueInv
<1> QED
    BY <1>6, <1>7, <1>8 DEF QueueInv

\* Appending the put of the current superstep.
LEMMA QueuePut ==
    ASSUME TypeOK, QueueInv, step \in Steps, step > 0,
           queue' = Append(queue, Put(step)), step' = step + 1,
           pc' # "first",
           phase' = [phase EXCEPT ![Put(step)] = "queued"]
    PROVE  QueueInv'
<1>1. queue \in Seq(Jobs) /\ Put(step) \in Jobs
    BY JobFacts DEF TypeOK
<1>2. /\ Len(queue') = Len(queue) + 1
      /\ queue'[Len(queue) + 1] = Put(step)
      /\ \A i \in 1 .. Len(queue) : queue'[i] = queue[i]
      /\ Len(queue) \in Nat
    BY <1>1
<1>3. \A i \in 1 .. Len(queue) : queue[i].kind = "put" =>
          /\ queue[i] = Put(queue[i].step)
          /\ queue[i].step \in Steps
          /\ queue[i].step < step
    BY <1>1, JobFacts DEF QueueInv
<1>4. \A i \in 1 .. Len(queue') : i \in 1 .. Len(queue) \/ i = Len(queue) + 1
    BY <1>2
<1>5. \A n \in Steps : /\ Put(n) \in Jobs
                       /\ n # step => phase'[Put(n)] = phase[Put(n)]
    BY JobFacts DEF TypeOK
<1>6. phase'[Put(step)] = "queued"
    BY <1>1 DEF TypeOK
<1>7. \A n \in Steps : n >= step' <=> phase'[Put(n)] = "none"
    BY <1>5, <1>6, PipelineAssumption DEF QueueInv, Steps
<1>8. \A i \in 1 .. Len(queue') : queue'[i].kind = "put" =>
          queue'[i].step < step' /\ phase'[queue'[i]] = "queued"
    <2> SUFFICES ASSUME NEW i \in 1 .. Len(queue'), queue'[i].kind = "put"
                 PROVE  queue'[i].step < step' /\ phase'[queue'[i]] = "queued"
        OBVIOUS
    <2>1. CASE i = Len(queue) + 1
        BY <2>1, <1>2, <1>6, JobFacts, PipelineAssumption DEF Steps
    <2>2. CASE i \in 1 .. Len(queue)
        <3>1. queue'[i] = queue[i] /\ queue[i].kind = "put"
            BY <2>2, <1>2
        <3>2. queue[i].step \in Steps /\ queue[i].step < step
              /\ queue[i] = Put(queue[i].step) /\ phase[queue[i]] = "queued"
            BY <2>2, <3>1, <1>3 DEF QueueInv
        <3>3. phase'[queue[i]] = "queued"
            BY <3>2, <1>5, PipelineAssumption DEF Steps
        <3> QED
            BY <3>1, <3>2, <3>3, PipelineAssumption DEF Steps
    <2> QED
        BY <2>1, <2>2, <1>4
<1>9. \A n \in Steps : phase'[Put(n)] = "queued" =>
           \E i \in 1 .. Len(queue') : queue'[i] = Put(n)
    BY <1>2, <1>5 DEF QueueInv
<1>10. \A i, k \in 1 .. Len(queue') :
           (i < k /\ queue'[i].kind = "put" /\ queue'[k].kind = "put") =>
               queue'[i].step < queue'[k].step
    <2> SUFFICES ASSUME NEW i \in 1 .. Len(queue'), NEW k \in 1 .. Len(queue'),
                        i < k, queue'[i].kind = "put", queue'[k].kind = "put"
                 PROVE  queue'[i].step < queue'[k].step
        OBVIOUS
    <2>1. i \in 1 .. Len(queue) /\ queue'[i] = queue[i]
        BY <1>2, <1>4
    <2>2. CASE k = Len(queue) + 1
        BY <2>1, <2>2, <1>2, <1>3, JobFacts
    <2>3. CASE k \in 1 .. Len(queue)
        BY <2>1, <2>3, <1>2 DEF QueueInv
    <2> QED
        BY <2>2, <2>3, <1>4
<1>11. step' > 0
    BY PipelineAssumption DEF Steps
<1> QED
    BY <1>7, <1>8, <1>9, <1>10, <1>11 DEF QueueInv

\* The oldest job is picked up.
LEMMA QueueStart ==
    ASSUME TypeOK, QueueInv, queue # <<>>, queue' = Tail(queue),
           step' = step, pc' = pc,
           NEW ph \in {"started", "waiting"},
           phase' = [phase EXCEPT ![Head(queue)] = ph]
    PROVE  /\ QueueInv'
           /\ Head(queue).kind = "put" =>
                  \A m \in 0 .. (Head(queue).step - 1) :
                      phase[Put(m)] \notin {"none", "queued"}
<1>1. /\ queue \in Seq(Jobs) /\ Head(queue) = queue[1] /\ queue[1] \in Jobs
      /\ Len(queue) \in Nat /\ Len(queue) > 0
    BY DEF TypeOK
<1>2. /\ Len(queue') = Len(queue) - 1
      /\ \A i \in 1 .. Len(queue') : queue'[i] = queue[i + 1]
      /\ \A i \in 1 .. Len(queue') : i + 1 \in 1 .. Len(queue)
    BY <1>1
<1>3. \A i \in 1 .. Len(queue) : queue[i].kind = "put" =>
          /\ queue[i] = Put(queue[i].step)
          /\ queue[i].step \in Steps
          /\ queue[i].step < step
          /\ phase[queue[i]] = "queued"
    BY <1>1, JobFacts DEF QueueInv
<1>4. \A i \in 1 .. Len(queue) : i > 1 /\ queue[i].kind = "put" => queue[i] # queue[1]
    <2> SUFFICES ASSUME NEW i \in 1 .. Len(queue), i > 1, queue[i].kind = "put",
                        queue[i] = queue[1]
                 PROVE  FALSE
        OBVIOUS
    <2>1. queue[1].step < queue[i].step
        BY <1>1 DEF QueueInv
    <2> QED
        BY <2>1, <1>3, PipelineAssumption DEF Steps
<1>5. /\ \A j \in Jobs : j # queue[1] => phase'[j] = phase[j]
      /\ phase'[queue[1]] = ph
    BY <1>1 DEF TypeOK
<1>6. \A n \in Steps : Put(n) \in Jobs
    BY JobFacts
<1>7. \A n \in Steps : Put(n) = queue[1] => phase[Put(n)] = "queued"
    BY <1>1, <1>3, JobFacts
<1>8. \A n \in Steps : n >= step' <=> phase'[Put(n)] = "none"
    BY <1>5, <1>6, <1>7 DEF QueueInv
<1>9. \A i \in 1 .. Len(queue') : queue'[i].kind = "put" =>
          queue'[i].step < step' /\ phase'[queue'[i]] = "queued"
    BY <1>2, <1>3, <1>4, <1>5, JobFacts
<1>10. \A n \in Steps : phase'[Put(n)] = "queued" =>
           \E i \in 1 .. Len(queue') : queue'[i] = Put(n)
    <2> SUFFICES ASSUME NEW n \in Steps, phase'[Put(n)] = "queued"
                 PROVE  \E i \in 1 .. Len(queue') : queue'[i] = Put(n)
        OBVIOUS
    <2>1. Put(n) # queue[1] /\ phase[Put(n)] = "queued"
        BY <1>5, <1>6
    <2>2. PICK i \in 1 .. Len(queue) : queue[i] = Put(n)
        BY <2>1 DEF QueueInv
    <2>3. i # 1 /\ i - 1 \in 1 .. Len(queue') /\ (i - 1) + 1 = i
        BY <2>1, <2>2, <1>1, <1>2
    <2>4. queue'[i - 1] = Put(n)
        BY <2>2, <2>3, <1>2
    <2> QED
        BY <2>3, <2>4
<1>11. \A i, k \in 1 .. Len(queue') :
           (i < k /\ queue'[i].kind = "put" /\ queue'[k].kind = "put") =>
               queue'[i].step < queue'[k].step
    BY <1>1, <1>2 DEF QueueInv
<1>12. step' # 0
    BY <1>1 DEF QueueInv
<1>13. QueueInv'
    BY <1>8, <1>9, <1>10, <1>11, <1>12 DEF QueueInv
<1>14. ASSUME queue[1].kind = "put", NEW m \in 0 .. (queue[1].step - 1)
       PROVE  phase[Put(m)] \notin {"none", "queued"}
    <2>1. queue[1].step \in Steps /\ queue[1].step < step /\ queue[1] = Put(queue[1].step)
        BY <1>1, <1>3, <1>14
    <2>2. m \in Steps /\ m < step /\ m < queue[1].step /\ step \in Nat
        BY <2>1, <1>14, PipelineAssumption DEF Steps, TypeOK
    <2>3. phase[Put(m)] # "none"
        BY <2>2, PipelineAssumption DEF QueueInv, Steps
    <2>4. ASSUME phase[Put(m)] = "queued" PROVE FALSE
        <3>1. PICK i \in 1 .. Len(queue) : queue[i] = Put(m)
            BY <2>2, <2>4 DEF QueueInv
        <3>2. queue[i].kind = "put" /\ queue[i].step = m
            BY <3>1, <2>2, JobFacts
        <3>3. i # 1
            BY <3>1, <3>2, <2>2, PipelineAssumption DEF Steps
        <3>4. queue[1].step < queue[i].step
            BY <3>2, <3>3, <1>1, <1>14 DEF QueueInv
        <3> QED
            BY <3>2, <3>4, <2>1, <2>2, PipelineAssumption DEF Steps
    <2> QED
        BY <2>3, <2>4
<1> QED
    BY <1>1, <1>13, <1>14

\* A job that runs makes progress.
LEMMA QueueRun ==
    ASSUME TypeOK, QueueInv, queue' = queue, step' = step, pc' = pc,
           NEW j \in Jobs, phase[j] \in {"started", "waiting"},
           NEW ph \in {"waiting", "done", "failed"},
           phase' = [phase EXCEPT ![j] = ph]
    PROVE  QueueInv'
<1>1. \A k \in Jobs : k # j => phase'[k] = phase[k]
    BY DEF TypeOK
<1>2. phase'[j] = ph
    BY DEF TypeOK
<1>3. \A n \in Steps : Put(n) \in Jobs
    BY JobFacts
<1>4. \A i \in 1 .. Len(queue) : queue[i] \in Jobs
    BY DEF TypeOK
<1>5. \A n \in Steps : n >= step' <=> phase'[Put(n)] = "none"
    BY <1>1, <1>2, <1>3 DEF QueueInv
<1>6. \A i \in 1 .. Len(queue) : queue[i].kind = "put" =>
               queue[i].step < step /\ phase'[queue[i]] = "queued"
    BY <1>1, <1>4 DEF QueueInv
<1>7. \A n \in Steps : phase'[Put(n)] = "queued" =>
           \E i \in 1 .. Len(queue) : queue[i] = Put(n)
    BY <1>1, <1>2, <1>3 DEF QueueInv
<1> QED
    BY <1>5, <1>6, <1>7 DEF QueueInv

LEMMA QueueNext == TypeOK /\ QueueInv /\ [Next]_vars => QueueInv'
<1> SUFFICES ASSUME TypeOK, QueueInv, [Next]_vars PROVE QueueInv'
    OBVIOUS
<1>1. ASSUME NEW upd \in SUBSET Chans, NEW d \in BOOLEAN, First(d, upd)
      PROVE  QueueInv'
    <2>1. step = 0 /\ queue = <<>> /\ step' = 1 /\ pc' = "run"
        BY <1>1 DEF First, QueueInv
    <2>2. 0 \in Steps /\ Put(0) \in Jobs /\ Put(0).kind = "put" /\ Put(0).step = 0
          /\ Write(0, NullTask).kind = "writes" /\ Write(0, NullTask) \in Jobs
        BY JobFacts, PipelineAssumption DEF Steps
    <2>3. \A n \in Steps : phase[Put(n)] = "none" /\ Put(n) # Write(0, NullTask)
        BY <2>1, <2>2, JobFacts, PipelineAssumption DEF QueueInv, Steps
    <2>4. \A n \in Steps : phase'[Put(n)] = IF n = 0 THEN "queued" ELSE "none"
        BY <1>1, <2>2, <2>3, JobFacts DEF First
    <2>5. queue' = <<Write(0, NullTask), Put(0)>> \/ queue' = <<Put(0)>>
        BY <1>1 DEF First
    <2>6. \A i \in 1 .. Len(queue') : queue'[i] = Put(0) \/ queue'[i].kind = "writes"
        BY <2>2, <2>5
    <2>7. \E i \in 1 .. Len(queue') : queue'[i] = Put(0)
        <3>1. CASE queue' = <<Put(0)>>
            BY <3>1
        <3>2. CASE queue' = <<Write(0, NullTask), Put(0)>>
            <4>1. 2 \in 1 .. Len(queue') /\ queue'[2] = Put(0)
                BY <3>2
            <4> QED BY <4>1
        <3> QED BY <2>5, <3>1, <3>2
    <2>8. \A i, k \in 1 .. Len(queue') :
              ~(i < k /\ queue'[i].kind = "put" /\ queue'[k].kind = "put")
        BY <2>2, <2>5
    <2>9. \A n \in Steps : n >= step' <=> phase'[Put(n)] = "none"
        BY <2>1, <2>4, PipelineAssumption DEF Steps
    <2>10. \A i \in 1 .. Len(queue') : queue'[i].kind = "put" =>
               queue'[i].step < step' /\ phase'[queue'[i]] = "queued"
        BY <2>1, <2>2, <2>4, <2>6
    <2> QED
        BY <2>1, <2>4, <2>7, <2>8, <2>9, <2>10 DEF QueueInv
<1>2. ASSUME NEW t \in Tasks, NEW d \in BOOLEAN, PutWrites(t, d)
      PROVE  QueueInv'
    <2>1. step \in Steps /\ step > 0
        BY <1>2, PipelineAssumption DEF PutWrites, TypeOK, Steps, QueueInv
    <2>2. Write(step, t) \in WriteJobs /\ Write(step, t) \in Jobs
          /\ Write(step, t).kind = "writes"
        BY <2>1, JobFacts
    <2>3. \A n \in Steps : phase'[Put(n)] = phase[Put(n)]
        BY <1>2, <2>2, JobFacts DEF PutWrites, TypeOK
    <2> QED
        BY <1>2, <2>1, <2>2, <2>3, QueueWrite DEF PutWrites
<1>3. ASSUME NEW upd \in SUBSET Chans, AfterTick(upd)
      PROVE  QueueInv'
    <2>1. step \in Steps /\ step > 0
        BY <1>3, PipelineAssumption DEF AfterTick, TypeOK, Steps, QueueInv
    <2> QED
        BY <1>3, <2>1, QueuePut DEF AfterTick
<1>4. CASE Result
    BY <1>4 DEF Result, QueueInv
<1>5. ASSUME NEW r \in BOOLEAN, Leave(r)
      PROVE  QueueInv'
    BY <1>5 DEF Leave, QueueInv
<1>6. CASE Exit
    BY <1>6 DEF Exit, QueueInv
<1>7. CASE Start
    <2>1. \E ph \in {"started", "waiting"} :
              phase' = [phase EXCEPT ![Head(queue)] = ph]
        BY <1>7 DEF Start
    <2> QED
        BY <1>7, <2>1, QueueStart DEF Start, loopVars
<1>8. ASSUME NEW n \in Steps, DrainInThread(n)
      PROVE  QueueInv'
    BY <1>8, JobFacts, QueueRun DEF DrainInThread, loopVars
<1>9. ASSUME NEW n \in Steps, RunPutGatherFails(n)
      PROVE  QueueInv'
    BY <1>9, JobFacts, QueueRun DEF RunPutGatherFails, loopVars
<1>10. ASSUME NEW n \in Steps, NEW ok \in BOOLEAN, RunPut(n, ok)
       PROVE  QueueInv'
    <2>1. \E ph \in {"done", "failed"} : phase' = [phase EXCEPT ![Put(n)] = ph]
        BY <1>10 DEF RunPut
    <2> QED
        BY <1>10, <2>1, JobFacts, QueueRun DEF RunPut, loopVars
<1>11. ASSUME NEW w \in WriteJobs, NEW ok \in BOOLEAN, RunWrite(w, ok)
       PROVE  QueueInv'
    <2>1. \E ph \in {"done", "failed"} : phase' = [phase EXCEPT ![w] = ph]
        BY <1>11 DEF RunWrite
    <2>2. w \in Jobs
        BY DEF Jobs
    <2> QED
        BY <1>11, <2>1, <2>2, QueueRun DEF RunWrite, loopVars
<1>12. CASE UNCHANGED vars
    BY <1>12 DEF vars, loopVars, QueueInv
<1> QED
    BY <1>1, <1>2, <1>3, <1>4, <1>5, <1>6, <1>7, <1>8, <1>9, <1>10, <1>11,
       <1>12 DEF Next, Loop, Background, Over

\* Every job is submitted once, and is queued once.
OnceInv ==
    /\ \A i \in 1 .. Len(queue) : phase[queue[i]] = "queued"
    /\ \A i, k \in 1 .. Len(queue) : i < k => queue[i] # queue[k]
    /\ \A w \in WriteJobs : \/ phase[w] = "none"
                            \/ w.step < step
                            \/ w.step = step /\ w.task \in committed

LEMMA OnceInit == Init => OnceInv
BY DEF Init, OnceInv, Jobs

LEMMA OnceAppend ==
    ASSUME TypeOK, OnceInv, NEW j \in Jobs, phase[j] = "none",
           queue' = Append(queue, j),
           phase' = [phase EXCEPT ![j] = "queued"]
    PROVE  /\ \A i \in 1 .. Len(queue') : phase'[queue'[i]] = "queued"
           /\ \A i, k \in 1 .. Len(queue') : i < k => queue'[i] # queue'[k]
<1>1. queue \in Seq(Jobs) /\ Len(queue) \in Nat
    BY DEF TypeOK
<1>2. /\ Len(queue') = Len(queue) + 1
      /\ queue'[Len(queue) + 1] = j
      /\ \A i \in 1 .. Len(queue) : queue'[i] = queue[i] /\ queue[i] \in Jobs
    BY <1>1
<1>3. \A i \in 1 .. Len(queue') : i \in 1 .. Len(queue) \/ i = Len(queue) + 1
    BY <1>1, <1>2
<1>4. \A k \in Jobs : phase'[k] = IF k = j THEN "queued" ELSE phase[k]
    BY DEF TypeOK
<1>5. \A i \in 1 .. Len(queue) : queue[i] # j
    BY DEF OnceInv
<1>6. \A i \in 1 .. Len(queue') : phase'[queue'[i]] = "queued"
    BY <1>2, <1>3, <1>4 DEF OnceInv
<1>7. \A i, k \in 1 .. Len(queue') : i < k => queue'[i] # queue'[k]
    <2> SUFFICES ASSUME NEW i \in 1 .. Len(queue'), NEW k \in 1 .. Len(queue'),
                        i < k
                 PROVE  queue'[i] # queue'[k]
        OBVIOUS
    <2>1. i \in 1 .. Len(queue)
        BY <1>1, <1>2, <1>3
    <2>2. CASE k = Len(queue) + 1
        BY <2>1, <2>2, <1>2, <1>5
    <2>3. CASE k \in 1 .. Len(queue)
        BY <2>1, <2>3, <1>2 DEF OnceInv
    <2> QED
        BY <1>3, <2>2, <2>3
<1> QED
    BY <1>6, <1>7

LEMMA OnceNext == TypeOK /\ QueueInv /\ OnceInv /\ [Next]_vars => OnceInv'
<1> SUFFICES ASSUME TypeOK, QueueInv, OnceInv, [Next]_vars PROVE OnceInv'
    OBVIOUS
<1>0. /\ \A n \in Steps : Put(n) \in Jobs
      /\ WriteJobs \subseteq Jobs
      /\ \A n \in Steps : \A w \in WriteJobs : Put(n) # w
      /\ \A w \in WriteJobs : w.step \in Nat
      /\ step \in Nat
    BY JobFacts, WriteFacts DEF TypeOK
<1>a. ASSUME queue' = queue, UNCHANGED <<step, committed>>, NEW j \in Jobs,
             phase[j] \in {"started", "waiting"},
             NEW ph \in Phases, phase' = [phase EXCEPT ![j] = ph]
      PROVE  OnceInv'
    <2>1. \A k \in Jobs : phase'[k] = IF k = j THEN ph ELSE phase[k]
        BY <1>a DEF TypeOK
    <2>2. \A i \in 1 .. Len(queue) : queue[i] \in Jobs
        BY DEF TypeOK
    <2> QED
        BY <1>0, <1>a, <2>1, <2>2 DEF OnceInv
<1>1. ASSUME NEW upd \in SUBSET Chans, NEW d \in BOOLEAN, First(d, upd)
      PROVE  OnceInv'
    <2> DEFINE w0 == Write(0, NullTask)
    <2>1. 0 \in Steps /\ Put(0) \in Jobs /\ w0 \in WriteJobs /\ w0 \in Jobs
          /\ w0.step = 0 /\ step' = 1 /\ step = 0
        BY <1>0, <1>1, JobFacts, PipelineAssumption DEF First, Steps, Write, QueueInv
    <2>2. \/ queue' = <<w0, Put(0)>> /\ d
          \/ queue' = <<Put(0)>>
        BY <1>1 DEF First
    <2>3. \A j \in Jobs : phase'[j] = IF j = Put(0) \/ (d /\ j = w0)
                                      THEN "queued" ELSE phase[j]
        BY <1>1 DEF First
    <2> HIDE DEF w0
    <2>4. \A i \in 1 .. Len(queue') : phase'[queue'[i]] = "queued"
        BY <2>1, <2>2, <2>3
    <2>5. \A i, k \in 1 .. Len(queue') : i < k => queue'[i] # queue'[k]
        BY <1>0, <2>1, <2>2
    <2>6. \A w \in WriteJobs : phase'[w] = "none" \/ w.step < step'
        <3> SUFFICES ASSUME NEW w \in WriteJobs, phase'[w] # "none"
                     PROVE  w.step < 1
            BY <2>1
        <3>1. w = w0 \/ phase[w] # "none"
            BY <1>0, <2>1, <2>3
        <3>2. phase[w] # "none" => w.step = 0
            BY <1>0, <2>1 DEF OnceInv
        <3> QED
            BY <2>1, <3>1, <3>2
    <2> QED
        BY <2>4, <2>5, <2>6 DEF OnceInv
<1>2. ASSUME NEW t \in Tasks, NEW d \in BOOLEAN, PutWrites(t, d)
      PROVE  OnceInv'
    <2> DEFINE w0 == Write(step, t)
    <2>1. step \in Steps
        BY <1>2, PipelineAssumption DEF PutWrites, TypeOK, Steps
    <2>2. w0 \in WriteJobs /\ w0 \in Jobs /\ w0.step = step /\ w0.task = t
        BY <2>1, JobFacts DEF Write
    <2>3. phase[w0] = "none"
        BY <1>0, <1>2, <2>2 DEF PutWrites, OnceInv
    <2>4. /\ queue' = Append(queue, w0)
          /\ phase' = [phase EXCEPT ![w0] = "queued"]
          /\ step' = step /\ committed' = committed \cup {t}
        BY <1>2 DEF PutWrites
    <2> HIDE DEF w0
    <2>5. \A w \in WriteJobs : w # w0 => phase'[w] = phase[w]
        BY <1>0, <2>2, <2>4 DEF TypeOK
    <2>6. \A w \in WriteJobs : \/ phase'[w] = "none"
                               \/ w.step < step'
                               \/ w.step = step' /\ w.task \in committed'
        BY <2>2, <2>4, <2>5 DEF OnceInv
    <2> QED
        BY <2>2, <2>3, <2>4, <2>6, OnceAppend DEF OnceInv
<1>3. ASSUME NEW upd \in SUBSET Chans, AfterTick(upd)
      PROVE  OnceInv'
    <2>1. step \in Steps /\ Put(step) \in Jobs
        BY <1>0, <1>3, PipelineAssumption DEF AfterTick, TypeOK, Steps
    <2>2. phase[Put(step)] = "none"
        BY <1>0, <2>1 DEF QueueInv
    <2>3. /\ queue' = Append(queue, Put(step))
          /\ phase' = [phase EXCEPT ![Put(step)] = "queued"]
          /\ step' = step + 1
        BY <1>3 DEF AfterTick
    <2>4. \A w \in WriteJobs : phase'[w] = phase[w]
        BY <1>0, <2>1, <2>3 DEF TypeOK
    <2>5. \A w \in WriteJobs : phase'[w] = "none" \/ w.step < step'
        BY <1>0, <2>3, <2>4 DEF OnceInv
    <2> QED
        BY <2>1, <2>2, <2>3, <2>5, OnceAppend DEF OnceInv
<1>4. ASSUME UNCHANGED <<queue, phase, step, committed>>
      PROVE  OnceInv'
    BY <1>4 DEF OnceInv
<1>5. CASE Start
    <2>1. /\ Head(queue) = queue[1] /\ queue[1] \in Jobs
          /\ Len(queue) \in Nat /\ Len(queue) > 0
          /\ \A i \in 1 .. Len(queue) : queue[i] \in Jobs
        BY <1>5 DEF Start, TypeOK
    <2>2. /\ Len(queue') = Len(queue) - 1
          /\ \A i \in 1 .. Len(queue') : queue'[i] = queue[i + 1]
                                         /\ i + 1 \in 1 .. Len(queue)
        BY <1>5, <2>1 DEF Start, TypeOK
    <2>3. PICK ph \in {"started", "waiting"} : phase' = [phase EXCEPT ![queue[1]] = ph]
        BY <1>5, <2>1 DEF Start
    <2>4. \A k \in Jobs : phase'[k] = IF k = queue[1] THEN ph ELSE phase[k]
        BY <2>1, <2>3 DEF TypeOK
    <2>5. \A i \in 1 .. Len(queue') : queue[1] # queue[i + 1]
        BY <2>1, <2>2 DEF OnceInv
    <2>6. \A i \in 1 .. Len(queue') : phase'[queue'[i]] = "queued"
        BY <2>1, <2>2, <2>4, <2>5 DEF OnceInv
    <2>7. \A i, k \in 1 .. Len(queue') : i < k => queue'[i] # queue'[k]
        BY <2>1, <2>2 DEF OnceInv
    <2>8. phase[queue[1]] = "queued"
        BY <2>1 DEF OnceInv
    <2>9. \A w \in WriteJobs : phase'[w] = "none" => phase[w] = "none"
        BY <1>0, <2>4
    <2>10. \A w \in WriteJobs : \/ phase'[w] = "none"
                                \/ w.step < step
                                \/ w.step = step /\ w.task \in committed
        BY <1>0, <2>4, <2>8 DEF OnceInv
    <2> QED
        BY <1>5, <2>6, <2>7, <2>10 DEF OnceInv, Start, loopVars
<1>6. ASSUME NEW n \in Steps, DrainInThread(n)
      PROVE  OnceInv'
    BY <1>0, <1>6, <1>a DEF DrainInThread, loopVars, Phases
<1>7. ASSUME NEW n \in Steps, RunPutGatherFails(n)
      PROVE  OnceInv'
    BY <1>0, <1>7, <1>a DEF RunPutGatherFails, loopVars, Phases, Finished
<1>8. ASSUME NEW n \in Steps, NEW ok \in BOOLEAN, RunPut(n, ok)
      PROVE  OnceInv'
    <2>1. PICK ph \in {"done", "failed"} : phase' = [phase EXCEPT ![Put(n)] = ph]
        BY <1>8 DEF RunPut
    <2> QED
        BY <1>0, <1>8, <1>a, <2>1 DEF RunPut, loopVars, Phases, Finished
<1>9. ASSUME NEW w \in WriteJobs, NEW ok \in BOOLEAN, RunWrite(w, ok)
      PROVE  OnceInv'
    <2>1. PICK ph \in {"done", "failed"} : phase' = [phase EXCEPT ![w] = ph]
        BY <1>9 DEF RunWrite
    <2> QED
        BY <1>0, <1>9, <1>a, <2>1 DEF RunWrite, loopVars, Phases, Finished
<1> QED
    BY <1>1, <1>2, <1>3, <1>4, <1>5, <1>6, <1>7, <1>8, <1>9
    DEF Next, Loop, Background, Over, Result, Leave, Exit, vars, loopVars

-----------------------------------------------------------------------------
(* The order of puts.                                                      *)

\* Puts end in superstep order, and only a put that has ended is durable.
\* When no call fails, every put that has ended is durable.
OrderInv ==
    /\ \A n \in Steps : IsOver(Put(n)) => \A m \in 0 .. (n - 1) : IsOver(Put(m))
    /\ \A n \in stored : IsOver(Put(n))
    /\ ~CanFail => /\ \A j \in Jobs : phase[j] # "failed"
                   /\ \A n \in Steps : IsOver(Put(n)) => n \in stored

\* No put gives up early: asyncio.gather can raise only after a failure.
Orderly == Executor = "sync" \/ ~CanFail

LEMMA OrderInit == Init => OrderInv
BY JobFacts DEF Init, OrderInv, IsOver, Finished

\* A step of the loop or of a write leaves every put's end as it was.
LEMMA OrderFrame ==
    ASSUME TypeOK, OrderInv, stored' = stored,
           \A n \in Steps : IsOver(Put(n))' <=> IsOver(Put(n)),
           ~CanFail => \A j \in Jobs : phase'[j] # "failed"
    PROVE  OrderInv'
<1> DEFINE O(n) == IsOver(Put(n))
<1>1. \A n \in Steps : O(n)' <=> O(n)
    OBVIOUS
<1>2. \A n \in Steps : \A m \in 0 .. (n - 1) : m \in Steps
    BY PipelineAssumption DEF Steps
<1>3. stored \subseteq Steps
    BY DEF TypeOK
<1>4. /\ \A n \in Steps : O(n) => \A m \in 0 .. (n - 1) : O(m)
      /\ \A n \in stored : O(n)
      /\ ~CanFail => \A n \in Steps : O(n) => n \in stored
    BY DEF OrderInv
<1>5. /\ \A n \in Steps : O(n)' => \A m \in 0 .. (n - 1) : O(m)'
      /\ \A n \in stored : O(n)'
      /\ ~CanFail => \A n \in Steps : O(n)' => n \in stored
    <2> HIDE DEF O
    <2> QED BY <1>1, <1>2, <1>3, <1>4
<1> QED
    BY <1>5 DEF OrderInv

LEMMA OrderNext ==
    ASSUME Orderly, TypeOK, QueueInv, OrderInv, [Next]_vars
    PROVE  OrderInv'
<1> USE DEF Finished
<1>0. /\ \A n \in Steps : Put(n) \in Jobs
      /\ \A n \in Steps : \A m \in 0 .. (n - 1) : m \in Steps
      /\ \A m, n \in Steps : Put(m) = Put(n) => m = n
    BY JobFacts, PipelineAssumption DEF Steps
<1>a. ASSUME stored' = stored, NEW j \in Jobs, phase[j] \notin Finished,
             NEW ph \in Phases, phase' = [phase EXCEPT ![j] = ph],
             ph \in Finished => j.kind = "writes",
             ph = "failed" => CanFail
      PROVE  OrderInv'
    <2>1. \A k \in Jobs : phase'[k] = IF k = j THEN ph ELSE phase[k]
        BY <1>a DEF TypeOK
    <2>2. \A n \in Steps : IsOver(Put(n))' <=> IsOver(Put(n))
        BY <1>0, <1>a, <2>1, JobFacts DEF IsOver
    <2>3. ~CanFail => \A k \in Jobs : phase'[k] # "failed"
        BY <1>a, <2>1 DEF OrderInv
    <2> QED
        BY <1>a, <2>2, <2>3, OrderFrame
<1>1. ASSUME NEW upd \in SUBSET Chans, NEW d \in BOOLEAN, First(d, upd)
      PROVE  OrderInv'
    <2>1. \A n \in Steps : phase[Put(n)] = "none"
        BY <1>1, PipelineAssumption DEF First, QueueInv, Steps
    <2>2. \A j \in Jobs : phase'[j] \in {phase[j], "queued"}
        BY <1>1 DEF First
    <2>3. \A n \in Steps : IsOver(Put(n))' <=> IsOver(Put(n))
        BY <1>0, <2>1, <2>2 DEF IsOver
    <2>4. ~CanFail => \A j \in Jobs : phase'[j] # "failed"
        BY <2>2 DEF OrderInv
    <2> QED
        BY <1>1, <2>3, <2>4, OrderFrame DEF First, saverVars
<1>2. ASSUME NEW t \in Tasks, NEW d \in BOOLEAN, PutWrites(t, d)
      PROVE  OrderInv'
    <2>1. step \in Steps
        BY <1>2, PipelineAssumption DEF PutWrites, TypeOK, Steps
    <2>2. Write(step, t) \in Jobs /\ Write(step, t).kind = "writes"
        BY <2>1, JobFacts
    <2>3. \A k \in Jobs :
              phase'[k] = IF k = Write(step, t) THEN "queued" ELSE phase[k]
        BY <1>2, <2>2 DEF PutWrites, TypeOK
    <2>4. \A n \in Steps : IsOver(Put(n))' <=> IsOver(Put(n))
        BY <1>0, <2>2, <2>3, JobFacts DEF IsOver
    <2>5. ~CanFail => \A k \in Jobs : phase'[k] # "failed"
        BY <2>3 DEF OrderInv
    <2> QED
        BY <1>2, <2>4, <2>5, OrderFrame DEF PutWrites, saverVars
<1>3. ASSUME NEW upd \in SUBSET Chans, AfterTick(upd)
      PROVE  OrderInv'
    <2>1. step \in Steps
        BY <1>3, PipelineAssumption DEF AfterTick, TypeOK, Steps
    <2>2. phase[Put(step)] = "none"
        BY <2>1, PipelineAssumption DEF QueueInv, Steps
    <2>3. /\ stored' = stored
          /\ phase' = [phase EXCEPT ![Put(step)] = "queued"]
          /\ Put(step) \in Jobs
        BY <1>0, <1>3, <2>1 DEF AfterTick, saverVars
    <2>4. "queued" \in Phases /\ "queued" \notin Finished
        BY DEF Phases
    <2> QED
        BY <1>a, <2>2, <2>3, <2>4
<1>4. ASSUME UNCHANGED <<phase, stored>>
      PROVE  OrderInv'
    BY <1>4 DEF OrderInv, IsOver
<1>5. CASE Start
    <2>1. Head(queue) = queue[1] /\ 1 \in 1 .. Len(queue) /\ Head(queue) \in Jobs
        BY <1>5 DEF Start, TypeOK
    <2>2. PICK ph \in {"started", "waiting"} :
              phase' = [phase EXCEPT ![Head(queue)] = ph]
        BY <1>5 DEF Start
    <2>3. CASE Head(queue).kind = "put"
        <3>1. phase[Head(queue)] = "queued"
            BY <2>1, <2>3 DEF QueueInv
        <3> QED
            BY <1>5, <1>a, <2>1, <2>2, <3>1 DEF Start, saverVars, Phases
    <2>4. CASE Head(queue).kind # "put"
        <3>1. \A k \in Jobs : phase'[k] = IF k = Head(queue) THEN ph ELSE phase[k]
            BY <2>1, <2>2 DEF TypeOK
        <3>2. \A n \in Steps : IsOver(Put(n))' <=> IsOver(Put(n))
            BY <1>0, <2>4, <3>1, JobFacts DEF IsOver
        <3>3. ~CanFail => \A k \in Jobs : phase'[k] # "failed"
            BY <3>1 DEF OrderInv
        <3> QED
            BY <1>5, <3>2, <3>3, OrderFrame DEF Start, saverVars
    <2> QED
        BY <2>3, <2>4
<1>6. ASSUME NEW n \in Steps, DrainInThread(n)
      PROVE  OrderInv'
    <2>1. /\ stored' = stored
          /\ phase[Put(n)] = "started"
          /\ phase' = [phase EXCEPT ![Put(n)] = "waiting"]
          /\ Put(n) \in Jobs
        BY <1>0, <1>6 DEF DrainInThread, saverVars
    <2>2. "waiting" \in Phases /\ "waiting" \notin Finished
        BY DEF Phases
    <2> QED
        BY <1>a, <2>1, <2>2
<1>7. ASSUME NEW n \in Steps, RunPutGatherFails(n)
      PROVE  OrderInv'
    <2>1. CanFail
        BY <1>7 DEF RunPutGatherFails, GatherFails, OrderInv, TypeOK, Jobs
    <2> QED
        BY <1>7, <2>1 DEF RunPutGatherFails, GatherFails, Orderly
<1>8. ASSUME NEW n \in Steps, NEW ok \in BOOLEAN, RunPut(n, ok)
      PROVE  OrderInv'
    <2> DEFINE ph == IF ok /\ (n > 0 => phase[Put(n - 1)] = "done")
                     THEN "done" ELSE "failed"
    <2>1. phase' = [phase EXCEPT ![Put(n)] = ph] /\ ph \in Finished
        BY <1>8 DEF RunPut
    <2>2. \A k \in Jobs : phase'[k] = IF k = Put(n) THEN ph ELSE phase[k]
        BY <1>0, <2>1 DEF TypeOK
    <2>3. \A m \in Steps : IsOver(Put(m))' <=> (IsOver(Put(m)) \/ m = n)
        BY <1>0, <2>1, <2>2 DEF IsOver
    <2>4. \A m \in 0 .. (n - 1) : IsOver(Put(m))
        <3> SUFFICES ASSUME NEW m \in 0 .. (n - 1) PROVE IsOver(Put(m))
            OBVIOUS
        <3>1. n > 0 /\ n - 1 \in Steps /\ m \in Steps
            BY <1>0, PipelineAssumption DEF Steps
        <3>2. IsOver(Put(n - 1))
            BY <1>8, <3>1 DEF RunPut, PrevOver
        <3>3. m = n - 1 \/ m \in 0 .. ((n - 1) - 1)
            BY <3>1, PipelineAssumption DEF Steps
        <3> QED
            BY <3>1, <3>2, <3>3 DEF OrderInv
    <2>5. \A k \in Steps : IsOver(Put(k))' =>
              \A m \in 0 .. (k - 1) : IsOver(Put(m))'
        BY <1>0, <2>3, <2>4 DEF OrderInv
    <2>6. stored' \subseteq stored \cup {n} /\ stored \subseteq stored'
        BY <1>8 DEF RunPut, saverVars
    <2>7. \A k \in stored' : IsOver(Put(k))'
        BY <2>3, <2>6 DEF OrderInv, TypeOK
    <2>8. ASSUME ~CanFail
          PROVE  /\ \A k \in Jobs : phase'[k] # "failed"
                 /\ \A k \in Steps : IsOver(Put(k))' => k \in stored'
        <3>1. ok /\ n \in stored'
            BY <1>8, <2>8 DEF RunPut
        <3>2. n > 0 => phase[Put(n - 1)] = "done"
            <4>1. n > 0 => n - 1 \in Steps /\ Put(n - 1) \in Jobs
                BY <1>0, PipelineAssumption DEF Steps
            <4> QED
                BY <1>8, <2>8, <4>1 DEF RunPut, PrevOver, IsOver, OrderInv
        <3>3. ph = "done"
            BY <3>1, <3>2
        <3> QED
            BY <2>2, <2>3, <2>6, <2>8, <3>1, <3>3 DEF OrderInv
    <2> QED
        BY <2>5, <2>7, <2>8 DEF OrderInv
<1>9. ASSUME NEW w \in WriteJobs, NEW ok \in BOOLEAN, RunWrite(w, ok)
      PROVE  OrderInv'
    <2>1. w \in Jobs /\ w.kind = "writes"
        BY JobFacts DEF Jobs
    <2>2. PICK ph \in {"done", "failed"} :
              phase' = [phase EXCEPT ![w] = ph] /\ (ph = "failed" => CanFail)
        BY <1>9 DEF RunWrite
    <2> QED
        BY <1>9, <1>a, <2>1, <2>2 DEF RunWrite, saverVars, Phases
<1> QED
    BY <1>1, <1>2, <1>3, <1>4, <1>5, <1>6, <1>7, <1>8, <1>9
    DEF Next, Loop, Background, Over, Result, Leave, Exit, vars, saverVars

\* Checkpoints reach the checkpointer in superstep order: for the thread pool
\* whatever fails, and for asyncio as long as no call to the checkpointer fails.
THEOREM CheckpointsInOrder ==
    ASSUME Orderly
    PROVE  Spec => []InOrder
<1>1. TypeOK /\ QueueInv /\ OrderInv /\ [Next]_vars
      => (TypeOK /\ QueueInv /\ OrderInv)'
    BY NextTypeOK, QueueNext, OrderNext
<1>2. Init => TypeOK /\ QueueInv /\ OrderInv
    BY InitTypeOK, QueueInit, OrderInit
<1>3. TypeOK /\ OrderInv => InOrder
    BY DEF TypeOK, OrderInv, InOrder
<1> QED
    BY <1>1, <1>2, <1>3, PTL DEF Spec

\* Without failing calls the durable checkpoints are always a prefix of the
\* run, and grow by one checkpoint at a time: the pipeline implements
\* CheckpointLog.
THEOREM ImplementsLog ==
    ASSUME CanFail = FALSE
    PROVE  Spec => RefinesLog
<1>1. Init => Log!Init
    BY DEF Init, Log!Init
<1>2. ASSUME TypeOK, QueueInv, OrderInv, [Next]_vars
      PROVE  [Log!Next]_stored
    <2> USE <1>2
    <2>1. CASE stored' = stored
        BY <2>1
    <2>2. ASSUME NEW n \in Steps, NEW ok \in BOOLEAN, RunPut(n, ok), stored' # stored
          PROVE  Log!Persist(n)
        <3>1. ok /\ stored' = stored \cup {n} /\ ~IsOver(Put(n))
            BY <2>2 DEF RunPut, saverVars, IsOver, Finished
        <3>2. n \notin stored
            BY <3>1 DEF OrderInv
        <3>3. \A m \in stored : m < n
            <4> SUFFICES ASSUME NEW m \in stored, ~(m < n) PROVE FALSE
                OBVIOUS
            <4>1. m \in Steps /\ m # n
                BY <3>2 DEF TypeOK
            <4>2. n \in 0 .. (m - 1)
                BY <4>1, PipelineAssumption DEF Steps
            <4> QED
                BY <3>1, <4>1, <4>2 DEF OrderInv
        <3>4. \A m \in 0 .. (n - 1) : m \in stored
            <4> SUFFICES ASSUME NEW m \in 0 .. (n - 1) PROVE m \in stored
                OBVIOUS
            <4>1. n > 0 /\ n - 1 \in Steps /\ m \in Steps
                BY PipelineAssumption DEF Steps
            <4>2. IsOver(Put(n - 1))
                BY <2>2, <4>1 DEF RunPut, PrevOver
            <4>3. m = n - 1 \/ m \in 0 .. ((n - 1) - 1)
                BY <4>1, PipelineAssumption DEF Steps
            <4>4. IsOver(Put(m))
                BY <4>1, <4>2, <4>3 DEF OrderInv
            <4> QED
                BY <4>1, <4>4 DEF OrderInv
        <3>5. stored = 0 .. (n - 1)
            <4>1. n \in Nat /\ \A m \in stored : m \in Nat
                BY WriteFacts DEF TypeOK
            <4>2. \A m : m \in stored <=> m \in 0 .. (n - 1)
                BY <3>3, <3>4, <4>1
            <4> QED
                BY <4>2
        <3> QED
            BY <3>1, <3>2, <3>5 DEF Log!Persist
    <2>3. (\A n \in Steps : Log!Persist(n) => Log!Next)
        BY DEF Log!Next, Steps
    <2> QED
        BY <2>1, <2>2, <2>3
        DEF Next, Loop, Background, Over, First, PutWrites, AfterTick, Result,
            Leave, Exit, Start, DrainInThread, RunWrite, RunPutGatherFails,
            vars, saverVars
<1>3. TypeOK /\ QueueInv /\ OrderInv /\ [Next]_vars
      => (TypeOK /\ QueueInv /\ OrderInv)'
    BY NextTypeOK, QueueNext, OrderNext DEF Orderly
<1>4. Init => TypeOK /\ QueueInv /\ OrderInv
    BY InitTypeOK, QueueInit, OrderInit
<1> QED
    BY <1>1, <1>2, <1>3, <1>4, PTL DEF Spec, RefinesLog, Log!Spec

-----------------------------------------------------------------------------
(* Writes before the checkpoint they produced.                             *)

NotBegun(n) == phase[Put(n)] \in {"none", "queued"}

\* A delta write that is not over is either still in the shared list, and
\* then no put of its superstep or a later one has begun, or some put of its
\* superstep or an earlier one waits for it.
DeltaInv ==
    /\ \A n \in Steps : phase[Put(n)] # "started"
    /\ \A w \in delta : w.step < step \/ (w.step = step /\ w.task \in committed)
    /\ \A w \in deltaFuts : \A n \in Steps : n >= w.step => NotBegun(n)
    /\ \A w \in delta :
           \/ IsOver(w)
           \/ w \in deltaFuts
           \/ \E k \in Steps : /\ k <= w.step
                               /\ w \in waitFor[k]
                               /\ phase[Put(k)] = "waiting"

LEMMA DeltaInit == Init => DeltaInv
BY JobFacts DEF Init, DeltaInv

LEMMA DeltaNext ==
    ASSUME Executor = "async", CanFail = FALSE,
           TypeOK, QueueInv, OnceInv, OrderInv, DeltaInv, [Next]_vars
    PROVE  DeltaInv'
<1> USE DEF Finished
<1>0. /\ \A n \in Steps : Put(n) \in Jobs
      /\ \A m, n \in Steps : Put(m) = Put(n) => m = n
      /\ WriteJobs \subseteq Jobs
      /\ \A n \in Steps : \A w \in WriteJobs : Put(n) # w
      /\ \A w \in WriteJobs : w.step \in Steps
      /\ delta \subseteq WriteJobs /\ deltaFuts \subseteq WriteJobs
      /\ step \in Nat
      /\ \A n \in Steps : n \in Nat
    BY JobFacts, WriteFacts DEF TypeOK
<1>1. ASSUME NEW upd \in SUBSET Chans, NEW d \in BOOLEAN, First(d, upd)
      PROVE  DeltaInv'
    <2>1. \A n \in Steps : phase[Put(n)] = "none"
        BY <1>0, <1>1, PipelineAssumption DEF First, QueueInv, Steps
    <2>2. \A j \in Jobs : phase'[j] \in {phase[j], "queued"}
        BY <1>1 DEF First
    <2>3. \A n \in Steps : phase'[Put(n)] \in {"none", "queued"}
        BY <1>0, <2>1, <2>2
    <2>4. deltaFuts' = delta' /\ step' = 1
        BY <1>1 DEF First
    <2>5. \A w \in delta' : w.step = 0
        BY <1>1 DEF First, Write
    <2> QED
        BY <2>3, <2>4, <2>5 DEF DeltaInv, NotBegun
<1>2. ASSUME NEW t \in Tasks, NEW d \in BOOLEAN, PutWrites(t, d)
      PROVE  DeltaInv'
    <2> DEFINE w0 == Write(step, t)
    <2>1. step \in Steps
        BY <1>2, PipelineAssumption DEF PutWrites, TypeOK, Steps
    <2>2. w0 \in WriteJobs /\ w0.step = step /\ w0.task = t
        BY <2>1, JobFacts DEF Write
    <2>3. w0 \notin delta
        BY <1>0, <1>2, <2>2 DEF PutWrites, DeltaInv
    <2>4. \A j \in Jobs : phase'[j] = IF j = w0 THEN "queued" ELSE phase[j]
        BY <1>0, <1>2, <2>2 DEF PutWrites, TypeOK
    <2>5. \A n \in Steps : phase'[Put(n)] = phase[Put(n)]
        BY <1>0, <2>2, <2>4
    <2>6. \A n \in Steps : n >= step => NotBegun(n)
        BY DEF QueueInv, NotBegun
    <2>7. /\ step' = step /\ committed' = committed \cup {t} /\ waitFor' = waitFor
          /\ \/ delta' = delta \cup {w0} /\ deltaFuts' = deltaFuts \cup {w0}
             \/ delta' = delta /\ deltaFuts' = deltaFuts
        BY <1>2 DEF PutWrites
    <2> HIDE DEF w0
    <2>8. \A w \in delta' : w.step < step \/ (w.step = step /\ w.task \in committed')
        BY <2>2, <2>7 DEF DeltaInv
    <2>9. \A w \in deltaFuts' : \A n \in Steps :
              n >= w.step => phase'[Put(n)] \in {"none", "queued"}
        BY <2>2, <2>5, <2>6, <2>7 DEF DeltaInv, NotBegun
    <2>10. \A w \in delta' :
              \/ phase'[w] \in Finished
              \/ w \in deltaFuts'
              \/ \E k \in Steps : /\ k <= w.step /\ w \in waitFor[k]
                                  /\ phase'[Put(k)] = "waiting"
        <3> SUFFICES ASSUME NEW w \in delta, w # w0, w \notin deltaFuts,
                            phase'[w] \notin Finished
                     PROVE  \E k \in Steps : /\ k <= w.step /\ w \in waitFor[k]
                                             /\ phase'[Put(k)] = "waiting"
            BY <2>3, <2>7
        <3>1. ~IsOver(w)
            BY <1>0, <2>4 DEF IsOver
        <3> QED
            BY <2>5, <3>1 DEF DeltaInv
    <2> QED
        BY <2>5, <2>7, <2>8, <2>9, <2>10 DEF DeltaInv, NotBegun, IsOver
<1>3. ASSUME NEW upd \in SUBSET Chans, AfterTick(upd)
      PROVE  DeltaInv'
    <2>1. step \in Steps /\ step' = step + 1
        BY <1>3, PipelineAssumption DEF AfterTick, TypeOK, Steps
    <2>2. phase[Put(step)] = "none"
        BY <1>0, <2>1 DEF QueueInv
    <2>3. \A j \in Jobs : phase'[j] = IF j = Put(step) THEN "queued" ELSE phase[j]
        BY <1>0, <1>3, <2>1 DEF AfterTick, TypeOK
    <2>4. UNCHANGED <<delta, deltaFuts, waitFor>>
        BY <1>3 DEF AfterTick
    <2>5. \A n \in Steps : /\ phase'[Put(n)] # "started"
                           /\ NotBegun(n) => phase'[Put(n)] \in {"none", "queued"}
                           /\ phase[Put(n)] = "waiting" => phase'[Put(n)] = "waiting"
        BY <1>0, <2>1, <2>2, <2>3 DEF DeltaInv, NotBegun
    <2>6. \A w \in WriteJobs : phase'[w] = phase[w]
        BY <1>0, <2>1, <2>3
    <2>7. \A w \in delta : w.step < step + 1
        BY <1>0 DEF DeltaInv
    <2> QED
        BY <1>0, <2>1, <2>4, <2>5, <2>6, <2>7 DEF DeltaInv, NotBegun, IsOver
<1>4. CASE Start
    <2> DEFINE h == Head(queue)
    <2>1. h = queue[1] /\ 1 \in 1 .. Len(queue) /\ h \in Jobs
        BY <1>4 DEF Start, TypeOK
    <2>2. UNCHANGED <<delta, step, committed>>
        BY <1>4 DEF Start, loopVars
    <2>3. CASE h.kind = "put"
        <3>1. /\ phase' = [phase EXCEPT ![h] = "waiting"]
              /\ waitFor' = [waitFor EXCEPT ![h.step] = deltaFuts]
              /\ deltaFuts' = {}
            BY <1>4, <2>3 DEF Start, Drain
        <3>2. h.step \in Steps /\ h = Put(h.step) /\ phase[h] = "queued"
            BY <2>1, <2>3, JobFacts DEF QueueInv
        <3>3. \A m \in 0 .. (h.step - 1) : phase[Put(m)] \notin {"none", "queued"}
            BY <1>4, <2>3, <3>1, QueueStart DEF Start, loopVars
        <3>4. \A j \in Jobs : phase'[j] = IF j = h THEN "waiting" ELSE phase[j]
            BY <2>1, <3>1 DEF TypeOK
        <3>5. \A n \in Steps : waitFor'[n] = IF n = h.step THEN deltaFuts ELSE waitFor[n]
            BY <3>1, <3>2 DEF TypeOK
        <3> HIDE DEF h
        <3>6. \A w \in deltaFuts : h.step <= w.step
            <4> SUFFICES ASSUME NEW w \in deltaFuts, ~(h.step <= w.step) PROVE FALSE
                OBVIOUS
            <4>1. w.step \in Steps
                BY <1>0
            <4>2. w.step \in 0 .. (h.step - 1)
                BY <1>0, <3>2, <4>1
            <4>3. NotBegun(w.step)
                BY <1>0, <4>1 DEF DeltaInv
            <4> QED
                BY <3>3, <4>2, <4>3 DEF NotBegun
        <3>7. \A n \in Steps : /\ phase'[Put(n)] # "started"
                               /\ phase[Put(n)] = "waiting" =>
                                      n # h.step /\ phase'[Put(n)] = "waiting"
            BY <1>0, <3>2, <3>4 DEF DeltaInv
        <3>8. ASSUME NEW w \in delta, phase'[w] \notin Finished
              PROVE  \E k \in Steps : /\ k <= w.step /\ w \in waitFor'[k]
                                      /\ phase'[Put(k)] = "waiting"
            <4>1. ~IsOver(w)
                BY <1>0, <3>2, <3>4, <3>8 DEF IsOver
            <4>2. CASE w \in deltaFuts
                BY <2>1, <3>2, <3>4, <3>5, <3>6, <4>2
            <4>3. CASE w \notin deltaFuts
                BY <3>5, <3>7, <4>1, <4>3 DEF DeltaInv
            <4> QED
                BY <4>2, <4>3
        <3> QED
            BY <2>2, <3>1, <3>7, <3>8 DEF DeltaInv, IsOver
    <2>4. CASE h.kind # "put"
        <3>1. /\ phase' = [phase EXCEPT ![h] = "started"]
              /\ UNCHANGED <<waitFor, deltaFuts>>
            BY <1>4, <2>4 DEF Start
        <3>2. \A n \in Steps : Put(n) # h
            BY <2>4, JobFacts
        <3>3. \A j \in Jobs : phase'[j] = IF j = h THEN "started" ELSE phase[j]
            BY <2>1, <3>1 DEF TypeOK
        <3>4. \A n \in Steps : phase'[Put(n)] = phase[Put(n)]
            BY <1>0, <3>2, <3>3
        <3>5. \A w \in WriteJobs : IsOver(w) => phase'[w] \in Finished
            BY <1>0, <2>1, <3>3 DEF IsOver, OnceInv
        <3> QED
            BY <1>0, <2>2, <3>1, <3>4, <3>5 DEF DeltaInv, NotBegun, IsOver
    <2> QED
        BY <2>3, <2>4
<1>5. ASSUME NEW n \in Steps, DrainInThread(n)
      PROVE  DeltaInv'
    BY <1>5 DEF DrainInThread, DeltaInv
<1>6. ASSUME NEW n \in Steps, phase[Put(n)] = "waiting",
             NEW ph \in Finished, phase' = [phase EXCEPT ![Put(n)] = ph],
             UNCHANGED <<delta, deltaFuts, waitFor, step, committed>>,
             \A w \in waitFor[n] : IsOver(w)
      PROVE  DeltaInv'
    <2>1. \A j \in Jobs : phase'[j] = IF j = Put(n) THEN ph ELSE phase[j]
        BY <1>0, <1>6 DEF TypeOK
    <2>2. \A w \in WriteJobs : phase'[w] = phase[w]
        BY <1>0, <2>1
    <2>3. \A m \in Steps : m # n => phase'[Put(m)] = phase[Put(m)]
        BY <1>0, <2>1
    <2>4. \A m \in Steps : NotBegun(m) => m # n
        BY <1>6 DEF NotBegun
    <2>5. phase'[Put(n)] \in Finished
        BY <1>0, <1>6, <2>1
    <2> QED
        BY <1>0, <1>6, <2>2, <2>3, <2>4, <2>5 DEF DeltaInv, NotBegun, IsOver
<1>7. ASSUME NEW w \in WriteJobs, NEW ph \in Finished,
             phase' = [phase EXCEPT ![w] = ph],
             UNCHANGED <<delta, deltaFuts, waitFor, step, committed>>
      PROVE  DeltaInv'
    <2>1. \A j \in Jobs : phase'[j] = IF j = w THEN ph ELSE phase[j]
        BY <1>0, <1>7 DEF TypeOK
    <2>2. \A n \in Steps : phase'[Put(n)] = phase[Put(n)]
        BY <1>0, <2>1
    <2>3. \A v \in WriteJobs : IsOver(v) => phase'[v] \in Finished
        BY <1>0, <1>7, <2>1 DEF IsOver
    <2> QED
        BY <1>0, <1>7, <2>2, <2>3 DEF DeltaInv, NotBegun, IsOver
<1>8. ASSUME UNCHANGED <<phase, delta, deltaFuts, waitFor, step, committed>>
      PROVE  DeltaInv'
    BY <1>8 DEF DeltaInv, NotBegun, IsOver
<1>9. ASSUME NEW n \in Steps, RunPutGatherFails(n)
      PROVE  DeltaInv'
    BY <1>0, <1>9 DEF RunPutGatherFails, GatherFails, OrderInv, TypeOK
<1>10. ASSUME NEW n \in Steps, NEW ok \in BOOLEAN, RunPut(n, ok)
       PROVE  DeltaInv'
    <2>1. PICK ph \in Finished : phase' = [phase EXCEPT ![Put(n)] = ph]
        BY <1>10 DEF RunPut
    <2> QED
        BY <1>6, <1>10, <2>1 DEF RunPut, loopVars
<1>11. ASSUME NEW w \in WriteJobs, NEW ok \in BOOLEAN, RunWrite(w, ok)
       PROVE  DeltaInv'
    <2>1. PICK ph \in Finished : phase' = [phase EXCEPT ![w] = ph]
        BY <1>11 DEF RunWrite
    <2> QED
        BY <1>7, <1>11, <2>1 DEF RunWrite, loopVars
<1> QED
    BY <1>1, <1>2, <1>3, <1>4, <1>5, <1>8, <1>9, <1>10, <1>11
    DEF Next, Loop, Background, Over, Result, Leave, Exit, vars, loopVars

\* The asyncio executor keeps the promise of _delta_write_futs when no call
\* fails: a durable checkpoint has all its delta writes, however many jobs run
\* at a time.
THEOREM DeltaWritesFirst ==
    ASSUME Executor = "async", CanFail = FALSE
    PROVE  Spec => []DeltaVisible
<1> DEFINE IInv == TypeOK /\ QueueInv /\ OnceInv /\ OrderInv /\ DeltaInv
<1>1. Init => IInv
    BY InitTypeOK, QueueInit, OnceInit, OrderInit, DeltaInit
<1>2. IInv /\ [Next]_vars => IInv'
    BY NextTypeOK, QueueNext, OnceNext, OrderNext, DeltaNext DEF Orderly
<1>3. IInv => DeltaVisible
    <2> SUFFICES ASSUME IInv, NEW n \in stored, NEW w \in delta, w.step <= n
                 PROVE  phase[w] = "done"
        BY DEF DeltaVisible
    <2>1. /\ n \in Steps /\ w \in WriteJobs /\ w \in Jobs
          /\ w.step \in Nat /\ n \in Nat
        BY WriteFacts DEF TypeOK
    <2>2. IsOver(Put(n))
        BY DEF OrderInv
    <2>3. w \notin deltaFuts
        BY <2>1, <2>2 DEF DeltaInv, NotBegun, IsOver, Finished
    <2>4. \A k \in Steps : k <= w.step => IsOver(Put(k))
        <3> SUFFICES ASSUME NEW k \in Steps, k <= w.step PROVE IsOver(Put(k))
            OBVIOUS
        <3>1. k = n \/ k \in 0 .. (n - 1)
            BY <2>1, WriteFacts
        <3> QED
            BY <2>1, <2>2, <3>1 DEF OrderInv
    <2>5. IsOver(w)
        BY <2>3, <2>4 DEF DeltaInv, IsOver, Finished
    <2>6. phase[w] # "failed"
        BY <2>1 DEF OrderInv
    <2> QED
        BY <2>5, <2>6 DEF IsOver, Finished
<1> QED
    BY <1>1, <1>2, <1>3, PTL DEF Spec

-----------------------------------------------------------------------------
(* Values before the checkpoint that names them.                           *)

\* A version a checkpoint names was made by that superstep or an earlier one,
\* whose put brings the value along.
BlobInv ==
    /\ \A c \in Chans : versions[c] # NoVersion =>
           /\ versions[c] - 1 < step
           /\ c \in args[versions[c] - 1].new
           /\ args[versions[c] - 1].versions[c] = versions[c]
    /\ \A n \in Steps : n < step => \A c \in Chans :
           args[n].versions[c] # NoVersion =>
               /\ args[n].versions[c] - 1 <= n
               /\ c \in args[args[n].versions[c] - 1].new
               /\ args[args[n].versions[c] - 1].versions[c] = args[n].versions[c]
    /\ \A n \in stored : n < step /\ \A c \in args[n].new :
           <<c, args[n].versions[c]>> \in blobs

LEMMA BlobInit == Init => BlobInv
BY DEF Init, BlobInv

LEMMA BlobMake ==
    ASSUME TypeOK, QueueInv, OrderInv, BlobInv, step \in Steps,
           NEW upd \in SUBSET Chans, MakeCheckpoint(step, upd),
           step' = step + 1, stored' = stored, blobs' = blobs
    PROVE  BlobInv'
<1>1. /\ step \in Nat
      /\ \A n \in Steps : n \in Nat
      /\ \A c \in Chans : versions[c] \in Nat
      /\ \A n \in Steps : \A c \in Chans : args[n].versions[c] \in Nat
      /\ NoVersion = 0
    BY WriteFacts, PipelineAssumption DEF TypeOK, Versions, NoVersion
<1>2. /\ \A c \in Chans : versions'[c] = IF c \in upd THEN step + 1 ELSE versions[c]
      /\ args'[step].versions = versions'
      /\ args'[step].new = {c \in Chans : versions'[c] > versions[c]}
      /\ \A n \in Steps : n # step => args'[n] = args[n]
    BY DEF MakeCheckpoint, Bump, NewVersions, TypeOK
<1>3. \A c \in Chans : versions[c] <= step
    BY <1>1 DEF BlobInv
<1>4. \A c \in Chans : versions'[c] # 0 =>
           /\ versions'[c] - 1 <= step
           /\ c \in args'[versions'[c] - 1].new
           /\ args'[versions'[c] - 1].versions[c] = versions'[c]
    <2> SUFFICES ASSUME NEW c \in Chans, versions'[c] # 0
                 PROVE  /\ versions'[c] - 1 <= step
                        /\ c \in args'[versions'[c] - 1].new
                        /\ args'[versions'[c] - 1].versions[c] = versions'[c]
        OBVIOUS
    <2>1. CASE c \in upd
        <3>1. versions'[c] = step + 1 /\ versions'[c] - 1 = step
            BY <1>1, <1>2, <2>1
        <3>2. versions'[c] > versions[c]
            BY <1>1, <1>3, <3>1
        <3> QED
            BY <1>1, <1>2, <3>1, <3>2
    <2>2. CASE c \notin upd
        <3>1. versions'[c] = versions[c] /\ versions[c] # 0
            BY <1>2, <2>2
        <3>2. /\ versions[c] - 1 < step
              /\ c \in args[versions[c] - 1].new
              /\ args[versions[c] - 1].versions[c] = versions[c]
            BY <1>1, <3>1 DEF BlobInv
        <3>3. versions[c] - 1 \in Steps /\ versions[c] - 1 # step
            BY <1>1, <3>1, <3>2, PipelineAssumption DEF Steps
        <3> QED
            BY <1>1, <1>2, <3>1, <3>2, <3>3
    <2> QED
        BY <2>1, <2>2
<1>5. ASSUME NEW n \in Steps, n < step + 1, NEW c \in Chans,
             args'[n].versions[c] # 0
      PROVE  /\ args'[n].versions[c] - 1 <= n
             /\ c \in args'[args'[n].versions[c] - 1].new
             /\ args'[args'[n].versions[c] - 1].versions[c] = args'[n].versions[c]
    <2>1. CASE n = step
        BY <1>2, <1>4, <1>5, <2>1
    <2>2. CASE n # step
        <3>1. n < step /\ args'[n] = args[n] /\ args[n].versions[c] # 0
            BY <1>1, <1>2, <1>5, <2>2
        <3>2. /\ args[n].versions[c] - 1 <= n
              /\ c \in args[args[n].versions[c] - 1].new
              /\ args[args[n].versions[c] - 1].versions[c] = args[n].versions[c]
            BY <1>1, <3>1 DEF BlobInv
        <3>3. args[n].versions[c] - 1 \in Steps /\ args[n].versions[c] - 1 # step
            BY <1>1, <3>1, <3>2, PipelineAssumption DEF Steps
        <3> QED
            BY <1>2, <3>1, <3>2, <3>3
    <2> QED
        BY <2>1, <2>2
<1>6. \A n \in stored : n < step + 1 /\ \A c \in args'[n].new :
           <<c, args'[n].versions[c]>> \in blobs
    <2>1. \A n \in stored : n \in Steps /\ n < step /\ n # step
        BY <1>1 DEF BlobInv, TypeOK
    <2>2. ASSUME NEW n \in stored
          PROVE  n < step + 1 /\ \A c \in args'[n].new :
                     <<c, args'[n].versions[c]>> \in blobs
        <3>1. args'[n] = args[n]
            BY <1>2, <2>1
        <3>2. \A c \in args[n].new : <<c, args[n].versions[c]>> \in blobs
            BY DEF BlobInv
        <3>3. n < step + 1
            <4>1. n \in Nat /\ step \in Nat /\ n < step
                BY <1>1, <2>1
            <4> QED
                BY <4>1
        <3> QED
            BY <3>1, <3>2, <3>3
    <2> QED
        BY <2>2
<1>7. \A c \in Chans : versions'[c] # 0 => versions'[c] - 1 < step + 1
    BY <1>1, <1>2, <1>4
<1> QED
    BY <1>1, <1>4, <1>5, <1>6, <1>7 DEF BlobInv, NoVersion

LEMMA BlobNext ==
    TypeOK /\ QueueInv /\ OrderInv /\ BlobInv /\ [Next]_vars => BlobInv'
<1> SUFFICES ASSUME TypeOK, QueueInv, OrderInv, BlobInv, [Next]_vars
             PROVE  BlobInv'
    OBVIOUS
<1>1. ASSUME NEW upd \in SUBSET Chans, NEW d \in BOOLEAN, First(d, upd)
      PROVE  BlobInv'
    <2>1. step = 0 /\ step \in Steps /\ step' = step + 1
        BY <1>1, PipelineAssumption DEF First, QueueInv, Steps
    <2> QED
        BY <1>1, <2>1, BlobMake DEF First, saverVars
<1>2. ASSUME NEW upd \in SUBSET Chans, AfterTick(upd)
      PROVE  BlobInv'
    <2>1. step \in Steps
        BY <1>2, PipelineAssumption DEF AfterTick, TypeOK, Steps
    <2> QED
        BY <1>2, <2>1, BlobMake DEF AfterTick, saverVars
<1>3. ASSUME NEW n \in Steps, NEW ok \in BOOLEAN, RunPut(n, ok)
      PROVE  BlobInv'
    <2>1. UNCHANGED <<versions, args, step>>
        BY <1>3 DEF RunPut, loopVars
    <2>2. \/ UNCHANGED <<stored, blobs>>
          \/ /\ stored' = stored \cup {n}
             /\ blobs' = blobs \cup {<<c, args[n].versions[c]>> : c \in args[n].new}
        BY <1>3 DEF RunPut, saverVars
    <2>3. n < step
        <3>1. phase[Put(n)] # "none"
            BY <1>3 DEF RunPut
        <3> QED
            BY <3>1, WriteFacts DEF QueueInv, TypeOK
    <2>4. \A m \in stored' : m < step /\ \A c \in args[m].new :
              <<c, args[m].versions[c]>> \in blobs'
        BY <2>2, <2>3 DEF BlobInv
    <2> QED
        BY <2>1, <2>4 DEF BlobInv
<1>4. ASSUME UNCHANGED <<versions, args, step, stored, blobs>>
      PROVE  BlobInv'
    BY <1>4 DEF BlobInv
<1> QED
    BY <1>1, <1>2, <1>3, <1>4
    DEF Next, Loop, Background, Over, PutWrites, Result, Leave, Exit, Start,
        DrainInThread, RunWrite, RunPutGatherFails, vars, loopVars, saverVars

\* Without failing calls, every durable checkpoint can be read back: the value
\* of each channel version it names is durable too, although its own put only
\* brought the values its superstep changed.
THEOREM CheckpointsLoadable ==
    ASSUME CanFail = FALSE
    PROVE  Spec => []Loadable
<1> DEFINE IInv == TypeOK /\ QueueInv /\ OrderInv /\ BlobInv
<1>1. Init => IInv
    BY InitTypeOK, QueueInit, OrderInit, BlobInit
<1>2. IInv /\ [Next]_vars => IInv'
    BY NextTypeOK, QueueNext, OrderNext, BlobNext DEF Orderly
<1>3. IInv => Loadable
    <2> SUFFICES ASSUME IInv, NEW n \in stored, NEW c \in Chans,
                        args[n].versions[c] # NoVersion
                 PROVE  <<c, args[n].versions[c]>> \in blobs
        BY DEF Loadable
    <2> DEFINE m == args[n].versions[c] - 1
    <2>1. n \in Steps /\ n \in Nat /\ n < step /\ args[n].versions[c] \in Nat
        BY WriteFacts, PipelineAssumption DEF TypeOK, BlobInv, Versions
    <2>2. /\ m <= n /\ c \in args[m].new
          /\ args[m].versions[c] = args[n].versions[c]
        BY <2>1 DEF BlobInv
    <2>3. m \in Steps /\ (m = n \/ m \in 0 .. (n - 1))
        BY <2>1, <2>2, PipelineAssumption DEF Steps, NoVersion
    <2>4. m \in stored
        <3>1. IsOver(Put(n))
            BY DEF OrderInv
        <3>2. IsOver(Put(m))
            BY <2>1, <2>3, <3>1 DEF OrderInv
        <3> QED
            BY <2>3, <3>2 DEF OrderInv
    <2> QED
        BY <2>2, <2>4 DEF BlobInv
<1> QED
    BY <1>1, <1>2, <1>3, PTL DEF Spec

-----------------------------------------------------------------------------
(* Calls that raise.                                                       *)

\* Whatever raises: what is stored was put after the writes its put drained,
\* a put that succeeded has everything before it stored, durability "sync"
\* does not go on before the last put has succeeded, and a run that is over
\* has no job left and has raised if one of them did.
FaultInv ==
    /\ \A n \in stored : IsOver(Put(n))
    /\ DrainedStored
    /\ \A n \in Steps : phase[Put(n)] = "done" => 0 .. n \subseteq stored
    /\ (Durability = "sync" /\ pc = "run" /\ step > 1) => phase[Put(step - 1)] = "done"
    /\ pc = "result" => step > 1
    /\ pc = "over" =>
           \A j \in Jobs : \/ phase[j] \in {"none", "done"}
                           \/ phase[j] = "failed" /\ error

LEMMA FaultInit == Init => FaultInv
BY JobFacts DEF Init, FaultInv, DrainedStored

\* A step that stores nothing and moves one job, to an end if it is a write or
\* a put that failed.
LEMMA FaultJob ==
    ASSUME TypeOK, QueueInv, FaultInv, NEW j \in Jobs, NEW ph \in Phases,
           phase[j] \notin Finished, phase[j] # "none" \/ pc # "over",
           phase' = [phase EXCEPT ![j] = ph],
           j.kind = "put" => ph # "done",
           stored' = stored, step' = step, pc' = pc, error' = error,
           \A n \in Steps : waitFor'[n] = waitFor[n] \/ j = Put(n)
    PROVE  FaultInv'
<1> USE DEF Finished
<1>0. /\ \A n \in Steps : Put(n) \in Jobs /\ Put(n).kind = "put"
      /\ stored \subseteq Steps
      /\ \A n \in Steps : waitFor[n] \subseteq Jobs
      /\ step \in 0 .. (LastStep + 1)
    BY JobFacts, WriteFacts DEF TypeOK
<1>1. \A k \in Jobs : phase'[k] = IF k = j THEN ph ELSE phase[k]
    BY DEF TypeOK
<1>2. \A n \in stored : IsOver(Put(n))' /\ waitFor'[n] = waitFor[n]
    BY <1>0, <1>1 DEF FaultInv, IsOver
<1>3. DrainedStored'
    <2> SUFFICES ASSUME Executor = "async", NEW n \in stored, NEW w \in waitFor[n]
                 PROVE  phase'[w] = "done"
        BY <1>2 DEF DrainedStored
    <2>1. phase[w] = "done" /\ w \in Jobs
        BY <1>0 DEF FaultInv, DrainedStored
    <2> QED
        BY <2>1, <1>1
<1>4. \A n \in Steps : phase'[Put(n)] = "done" => 0 .. n \subseteq stored
    BY <1>0, <1>1 DEF FaultInv
<1>5. (Durability = "sync" /\ pc = "run" /\ step > 1) => phase'[Put(step - 1)] = "done"
    <2>1. step > 1 => step - 1 \in Steps
        BY <1>0, PipelineAssumption DEF Steps
    <2> QED
        BY <1>0, <1>1, <2>1 DEF FaultInv
<1>6. pc # "over"
    BY DEF FaultInv
<1> QED
    BY <1>2, <1>3, <1>4, <1>5, <1>6 DEF FaultInv

LEMMA FaultNext ==
    TypeOK /\ QueueInv /\ OnceInv /\ FaultInv /\ [Next]_vars => FaultInv'
<1> SUFFICES ASSUME TypeOK, QueueInv, OnceInv, FaultInv, [Next]_vars PROVE FaultInv'
    OBVIOUS
<1> USE DEF Finished
<1>0. /\ \A n \in Steps : Put(n) \in Jobs /\ Put(n).kind = "put"
      /\ \A m, n \in Steps : Put(m) = Put(n) => m = n
      /\ \A n \in Steps : n \in Nat
      /\ WriteJobs \subseteq Jobs
      /\ \A w \in WriteJobs : w.kind = "writes"
      /\ \A n \in Steps : \A w \in WriteJobs : Put(n) # w
      /\ stored \subseteq Steps
      /\ \A n \in Steps : waitFor[n] \subseteq WriteJobs
      /\ step \in 0 .. (LastStep + 1) /\ step \in Nat
    BY JobFacts, WriteFacts, PipelineAssumption DEF TypeOK
<1>1. ASSUME NEW upd \in SUBSET Chans, NEW d \in BOOLEAN, First(d, upd)
      PROVE  FaultInv'
    <2>1. \A n \in Steps : phase[Put(n)] = "none"
        BY <1>0, <1>1 DEF First, QueueInv
    <2>2. stored = {}
        BY <1>0, <2>1 DEF FaultInv, IsOver
    <2>3. \A j \in Jobs : phase'[j] \in {phase[j], "queued"}
        BY <1>1 DEF First
    <2>4. \A n \in Steps : phase'[Put(n)] \in {"none", "queued"}
        BY <1>0, <2>1, <2>3
    <2>5. stored' = {} /\ step' = 1 /\ pc' = "run"
        BY <1>1, <2>2 DEF First, saverVars
    <2> QED
        BY <2>4, <2>5 DEF FaultInv, DrainedStored
<1>2. ASSUME NEW t \in Tasks, NEW d \in BOOLEAN, PutWrites(t, d)
      PROVE  FaultInv'
    <2>1. step \in Steps
        BY <1>2, PipelineAssumption DEF PutWrites, TypeOK, Steps
    <2>2. /\ Write(step, t) \in WriteJobs
          /\ Write(step, t).step = step /\ Write(step, t).task = t
        BY <2>1, JobFacts DEF Write
    <2>3. phase[Write(step, t)] = "none"
        BY <1>0, <1>2, <2>2 DEF PutWrites, OnceInv
    <2>4. /\ phase' = [phase EXCEPT ![Write(step, t)] = "queued"]
          /\ UNCHANGED <<stored, step, pc, error, waitFor>> /\ pc # "over"
        BY <1>2 DEF PutWrites, saverVars
    <2> QED
        BY <1>0, <2>2, <2>3, <2>4, FaultJob DEF Phases
<1>3. ASSUME NEW upd \in SUBSET Chans, AfterTick(upd)
      PROVE  FaultInv'
    <2>1. step \in Steps /\ step > 0 /\ phase[Put(step)] = "none"
        BY <1>0, <1>3, PipelineAssumption DEF AfterTick, Steps, QueueInv
    <2>2. \A k \in Jobs : phase'[k] = IF k = Put(step) THEN "queued" ELSE phase[k]
        BY <1>0, <1>3, <2>1 DEF AfterTick, TypeOK
    <2>3. /\ stored' = stored /\ waitFor' = waitFor /\ step' = step + 1
          /\ pc' = IF Durability = "sync" THEN "result" ELSE "run"
        BY <1>3 DEF AfterTick, saverVars
    <2>4. \A n \in stored : IsOver(Put(n))'
        BY <1>0, <2>1, <2>2 DEF FaultInv, IsOver
    <2>5. \A n \in stored : \A w \in waitFor[n] :
              phase[w] = "done" => phase'[w] = "done"
        BY <1>0, <2>1, <2>2
    <2>6. DrainedStored'
        BY <2>3, <2>5 DEF FaultInv, DrainedStored
    <2>7. \A n \in Steps : phase'[Put(n)] = "done" => 0 .. n \subseteq stored
        BY <1>0, <2>1, <2>2 DEF FaultInv
    <2>8. step' > 1
        BY <1>0, <2>1, <2>3
    <2> QED
        BY <2>3, <2>4, <2>6, <2>7, <2>8 DEF FaultInv
<1>4. CASE Result
    <2>1. step > 1 /\ UNCHANGED <<phase, step, waitFor, stored>>
        BY <1>4 DEF Result, FaultInv, saverVars
    <2>2. pc' = "run" => phase[Put(step - 1)] = "done"
        BY <1>4 DEF Result, ResultReady, IsOver
    <2>3. pc' \in {"run", "exit"}
        BY <1>4 DEF Result
    <2> QED
        BY <2>1, <2>2, <2>3 DEF FaultInv, DrainedStored, IsOver
<1>5. ASSUME NEW r \in BOOLEAN, Leave(r)
      PROVE  FaultInv'
    BY <1>5 DEF Leave, FaultInv, DrainedStored, IsOver, saverVars
<1>6. CASE Exit
    <2>1. /\ UNCHANGED <<phase, step, waitFor, stored>> /\ pc' = "over"
          /\ error' = (error \/ \E j \in Jobs : phase[j] = "failed")
        BY <1>6 DEF Exit, saverVars
    <2>2. \A j \in Jobs : \/ phase[j] \in {"none", "done"}
                          \/ phase[j] = "failed" /\ error'
        BY <1>6, <2>1 DEF Exit, NonePending
    <2> QED
        BY <2>1, <2>2 DEF FaultInv, DrainedStored, IsOver
<1>7. CASE Start
    <2>1. Head(queue) = queue[1] /\ 1 \in 1 .. Len(queue) /\ Head(queue) \in Jobs
        BY <1>7 DEF Start, TypeOK
    <2>2. phase[Head(queue)] = "queued"
        BY <2>1 DEF OnceInv
    <2>3. PICK ph \in {"started", "waiting"} :
              phase' = [phase EXCEPT ![Head(queue)] = ph]
        BY <1>7 DEF Start
    <2>4. \A n \in Steps : waitFor'[n] = waitFor[n] \/ Head(queue) = Put(n)
        <3>1. CASE Head(queue).kind = "put"
            <4>1. Head(queue).step \in Steps /\ Head(queue) = Put(Head(queue).step)
                BY <2>1, <3>1, JobFacts
            <4>2. \/ waitFor' = waitFor
                  \/ waitFor' = [waitFor EXCEPT ![Head(queue).step] = deltaFuts]
                BY <1>7 DEF Start, Drain
            <4> QED
                BY <4>1, <4>2 DEF TypeOK
        <3>2. CASE Head(queue).kind # "put"
            BY <1>7, <3>2 DEF Start
        <3> QED
            BY <3>1, <3>2
    <2>5. UNCHANGED <<stored, step, pc, error>>
        BY <1>7 DEF Start, loopVars, saverVars
    <2> QED
        BY <2>1, <2>2, <2>3, <2>4, <2>5, FaultJob DEF Phases
<1>8. ASSUME NEW n \in Steps, DrainInThread(n)
      PROVE  FaultInv'
    <2>1. /\ phase[Put(n)] = "started"
          /\ phase' = [phase EXCEPT ![Put(n)] = "waiting"]
          /\ UNCHANGED <<stored, step, pc, error>>
        BY <1>8 DEF DrainInThread, loopVars, saverVars
    <2>2. \A m \in Steps : waitFor'[m] = waitFor[m] \/ Put(n) = Put(m)
        BY <1>8 DEF DrainInThread, Drain, TypeOK
    <2> QED
        BY <1>0, <2>1, <2>2, FaultJob DEF Phases
<1>9. ASSUME NEW n \in Steps, RunPutGatherFails(n)
      PROVE  FaultInv'
    <2>1. /\ phase[Put(n)] = "waiting"
          /\ phase' = [phase EXCEPT ![Put(n)] = "failed"]
          /\ UNCHANGED <<stored, step, pc, error, waitFor>>
        BY <1>9 DEF RunPutGatherFails, loopVars, saverVars
    <2> QED
        BY <1>0, <2>1, FaultJob DEF Phases
<1>10. ASSUME NEW n \in Steps, NEW ok \in BOOLEAN, RunPut(n, ok)
       PROVE  FaultInv'
    <2> DEFINE ph == IF ok /\ (n > 0 => phase[Put(n - 1)] = "done")
                     THEN "done" ELSE "failed"
    <2>1. /\ phase' = [phase EXCEPT ![Put(n)] = ph] /\ ph \in {"done", "failed"}
          /\ phase[Put(n)] = "waiting"
          /\ ph = "done" => ok /\ (n > 0 => phase[Put(n - 1)] = "done")
          /\ stored' = IF ok THEN stored \cup {n} ELSE stored
          /\ UNCHANGED <<step, pc, error, waitFor>>
        BY <1>10 DEF RunPut, loopVars, saverVars
    <2> HIDE DEF ph
    <2>2. \A k \in Jobs : phase'[k] = IF k = Put(n) THEN ph ELSE phase[k]
        BY <1>0, <2>1 DEF TypeOK
    <2>3. \A m \in stored' : m \in Steps /\ (m \in stored \/ m = n)
        BY <1>0, <2>1
    <2>4. \A m \in stored' : IsOver(Put(m))'
        BY <1>0, <2>1, <2>2, <2>3 DEF FaultInv, IsOver
    <2>5. DrainedStored'
        <3> SUFFICES ASSUME Executor = "async", NEW m \in stored', NEW w \in waitFor[m]
                     PROVE  phase'[w] = "done"
            BY <2>1 DEF DrainedStored
        <3>1. w \in WriteJobs /\ phase'[w] = phase[w]
            BY <1>0, <2>2, <2>3
        <3>2. CASE m \in stored
            BY <3>1, <3>2 DEF FaultInv, DrainedStored
        <3>3. CASE m = n
            BY <1>10, <3>1, <3>3 DEF RunPut, GatherFails, IsOver
        <3> QED
            BY <2>3, <3>2, <3>3
    <2>6. ASSUME NEW m \in Steps, phase'[Put(m)] = "done"
          PROVE  0 .. m \subseteq stored'
        <3>1. CASE m # n
            BY <1>0, <2>1, <2>2, <2>6, <3>1 DEF FaultInv
        <3>2. CASE m = n /\ n = 0
            BY <1>0, <2>1, <2>2, <2>6, <3>2
        <3>3. CASE m = n /\ n # 0
            <4>1. ok /\ n - 1 \in Steps /\ phase[Put(n - 1)] = "done"
                BY <1>0, <2>1, <2>2, <2>6, <3>3, PipelineAssumption DEF Steps
            <4>2. 0 .. (n - 1) \subseteq stored
                BY <4>1 DEF FaultInv
            <4>3. \A k \in 0 .. n : k = n \/ k \in 0 .. (n - 1)
                BY <1>0
            <4> QED
                BY <2>1, <3>3, <4>1, <4>2, <4>3
        <3> QED
            BY <3>1, <3>2, <3>3
    <2>7. (Durability = "sync" /\ pc = "run" /\ step > 1)
              => phase'[Put(step - 1)] = "done"
        <3>1. step > 1 => step - 1 \in Steps
            BY <1>0, PipelineAssumption DEF Steps
        <3> QED
            BY <1>0, <2>1, <2>2, <3>1 DEF FaultInv
    <2>8. pc # "over"
        BY <1>0, <2>1 DEF FaultInv
    <2> QED
        BY <2>1, <2>4, <2>5, <2>6, <2>7, <2>8 DEF FaultInv
<1>11. ASSUME NEW w \in WriteJobs, NEW ok \in BOOLEAN, RunWrite(w, ok)
       PROVE  FaultInv'
    <2>1. PICK ph \in {"done", "failed"} : phase' = [phase EXCEPT ![w] = ph]
        BY <1>11 DEF RunWrite
    <2>2. phase[w] = "started" /\ UNCHANGED <<stored, step, pc, error, waitFor>>
        BY <1>11 DEF RunWrite, loopVars, saverVars
    <2> QED
        BY <1>0, <2>1, <2>2, FaultJob DEF Phases
<1>12. CASE UNCHANGED vars
    BY <1>12 DEF vars, loopVars, saverVars, FaultInv, DrainedStored, IsOver
<1> QED
    BY <1>1, <1>2, <1>3, <1>4, <1>5, <1>6, <1>7, <1>8, <1>9, <1>10, <1>11,
       <1>12 DEF Next, Loop, Background, Over

LEMMA FaultsHold == Spec => [](TypeOK /\ QueueInv /\ OnceInv /\ FaultInv)
<1>1. Init => TypeOK /\ QueueInv /\ OnceInv /\ FaultInv
    BY InitTypeOK, QueueInit, OnceInit, FaultInit
<1>2. TypeOK /\ QueueInv /\ OnceInv /\ FaultInv /\ [Next]_vars
      => (TypeOK /\ QueueInv /\ OnceInv /\ FaultInv)'
    BY NextTypeOK, QueueNext, OnceNext, FaultNext
<1> QED
    BY <1>1, <1>2, PTL DEF Spec

\* With asyncio, a checkpoint is stored only if every delta write its put
\* drained was stored: asyncio.gather raises before the put, whichever call to
\* the checkpointer fails.
THEOREM NothingStoredWithoutDrained == Spec => []DrainedStored
<1>1. FaultInv => DrainedStored
    BY DEF FaultInv
<1> QED
    BY <1>1, FaultsHold, PTL

\* A run that ends without raising lost nothing: every checkpoint and every
\* write it submitted is durable, with both executors and whatever fails,
\* since the executor's exit waits for every job and raises what one raised.
THEOREM NoSilentLoss == Spec => []CleanExit
<1>1. TypeOK /\ QueueInv /\ FaultInv => CleanExit
    <2> SUFFICES ASSUME TypeOK, QueueInv, FaultInv, pc = "over", ~error
                 PROVE  /\ stored = 0 .. (step - 1)
                        /\ \A j \in Jobs : phase[j] \in {"none", "done"}
        BY DEF CleanExit
    <2>1. \A j \in Jobs : phase[j] \in {"none", "done"}
        BY DEF FaultInv
    <2>2. step \in Nat /\ step <= LastStep + 1 /\ stored \subseteq Steps
        BY PipelineAssumption DEF TypeOK
    <2>3. \A n \in Steps : n \in Nat /\ Put(n) \in Jobs
        BY JobFacts, WriteFacts
    <2>4. \A n \in stored : n \in 0 .. (step - 1)
        BY <2>2, <2>3 DEF FaultInv, QueueInv, IsOver, Finished
    <2>5. \A n \in 0 .. (step - 1) : n \in stored
        <3> SUFFICES ASSUME NEW n \in 0 .. (step - 1) PROVE n \in stored
            OBVIOUS
        <3>1. n \in Steps /\ ~(n >= step) /\ n \in 0 .. n
            BY <2>2, PipelineAssumption DEF Steps
        <3>2. phase[Put(n)] = "done"
            BY <2>1, <2>3, <3>1 DEF QueueInv
        <3> QED
            BY <3>1, <3>2 DEF FaultInv
    <2> QED
        BY <2>1, <2>4, <2>5
<1> QED
    BY <1>1, FaultsHold, PTL

\* Durability "sync": from the second superstep on, none starts before every
\* checkpoint so far is durable, with both executors and whatever fails.
THEOREM DurableBeforeNext ==
    ASSUME Durability = "sync"
    PROVE  Spec => []SyncDurableSteps
<1>1. TypeOK /\ FaultInv => SyncDurableSteps
    <2> SUFFICES ASSUME TypeOK, FaultInv, pc = "run", step > 1
                 PROVE  0 .. (step - 1) \subseteq stored
        BY DEF SyncDurableSteps
    <2>1. step - 1 \in Steps
        BY PipelineAssumption DEF TypeOK, Steps
    <2> QED
        BY <2>1 DEF FaultInv
<1> QED
    BY <1>1, FaultsHold, PTL
=============================================================================
