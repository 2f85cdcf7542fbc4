----------------------------- MODULE PregelLoop -----------------------------
(***************************************************************************)
(* The supersteps of PregelLoop: _first, tick and after_tick, with the     *)
(* algorithms they call (apply_writes, prepare_next_tasks) and the         *)
(* versions that decide which nodes run.                                   *)
(*                                                                         *)
(* A run loads the thread's last stored checkpoint, takes an input or      *)
(* resumes, and alternates tick and after_tick until it leaves the loop.   *)
(* The tasks of a superstep run as one step here: PregelRunner has their   *)
(* interleavings, CheckpointPipeline those of the puts, of which only the  *)
(* order is kept, and SuperstepResume the pending writes of tasks.         *)
(* Nested graphs, time travel and update_state are left out.               *)
(***************************************************************************)
EXTENDS GraphShape

CONSTANTS
    InterruptBefore, InterruptAfter,   \* nodes
    Limit,        \* recursion_limit
    Durability,   \* "async" or "exit"
    Events,       \* what may happen to a run: "crash", "drain", "fail"
    LastRun       \* bound: runs on the thread

ASSUME LoopAssumption ==
    /\ InterruptBefore \subseteq Nodes /\ InterruptAfter \subseteq Nodes
    /\ Limit \in Nat \ {0}
    /\ Durability \in {"async", "exit"}
    /\ Events \subseteq {"crash", "drain", "fail"}
    /\ LastRun \in Nat

VARIABLES
    pc,        \* "idle": no loop, "tick", "run": the runner, "exit": __exit__
    status,    \* self.status
    ck,        \* self.checkpoint, self.channels and self.updated_channels
    tasks,     \* tasks of the superstep that runs or has failed
    stop,      \* self.stop
    resuming,  \* config[CONF][CONFIG_KEY_RESUMING]
    nulls,     \* pending writes of the null task: the channels written
    flight,    \* put_writes of null writes submitted and not stored
    queue,     \* checkpoints submitted and not stored
    saved,     \* checkpointer: the thread's last checkpoint
    savedNulls,\* checkpointer: its pending writes of the null task
    runs,      \* runs begun
    asked      \* history: has a run been interrupted since the last superstep?

vars == <<pc, status, ck, tasks, stop, resuming, nulls, flight, queue, saved,
          savedNulls, runs, asked>>

-----------------------------------------------------------------------------
(* Channels.  got is what the channel holds, fin its finished flag.        *)

Empty == [got |-> {}, fin |-> FALSE]

IsFull(c, s) == IF c \in Barriers THEN s.got = Names[c] ELSE s.got # {}

\* is_available
IsAvailable(c, s) == IsFull(c, s) /\ (c \in Deferred => s.fin)

\* update: the new state.
Update(c, s, vals) ==
    CASE Kind[c] \in {"ephemeral", "topic"}             -> [s EXCEPT !.got = vals]
      [] c \in Barriers                                 -> [s EXCEPT !.got = @ \cup vals]
      [] Kind[c] = "last" /\ vals # {}                  -> [s EXCEPT !.got = vals]
      [] Kind[c] = "last after finish" /\ vals # {}     -> [got |-> vals, fin |-> FALSE]
      [] OTHER                                          -> s

\* update: does it return True?
Updates(c, s, vals) ==
    CASE c \in Barriers                     -> ~(vals \subseteq s.got)
      [] Kind[c] \in {"ephemeral", "topic"} -> vals # {} \/ s.got # {}
      [] OTHER                              -> vals # {}

\* consume: the new state; it returns True when it changes the channel.
Consume(c, s) ==
    IF IsAvailable(c, s) /\ (c \in Barriers \/ c \in Deferred) THEN Empty ELSE s

\* finish
Finish(c, s) == IF c \in Deferred /\ IsFull(c, s) THEN [s EXCEPT !.fin = TRUE] ELSE s

-----------------------------------------------------------------------------
(* Checkpoints.                                                            *)

TriggerChans == UNION {Triggers[n] : n \in Nodes}    \* keys of trigger_to_nodes

Checkpoint ==
    [chan     : [Chans -> [got : UNION {SUBSET Values(c) : c \in Chans}, fin : BOOLEAN]],
     versions : [Chans -> Nat],                  \* 0: no version
     seen     : [Nodes -> [Chans -> Nat]],       \* versions_seen
     seenInt  : [Chans -> Nat],                  \* versions_seen[INTERRUPT]
     updated  : SUBSET Chans,                    \* {}: None or empty
     step     : Int]

EmptyCheckpoint ==
    [chan     |-> [c \in Chans |-> Empty],
     versions |-> [c \in Chans |-> 0],
     seen     |-> [n \in Nodes |-> [c \in Chans |-> 0]],
     seenInt  |-> [c \in Chans |-> 0],
     updated  |-> {},
     step     |-> -2]

MaxVersion(k) == CHOOSE v \in {k.versions[c] : c \in Chans} :
                     \A c \in Chans : k.versions[c] <= v

\* checkpoint["channel_versions"] with the next version for the channels cs.
Bumped(k, cs) ==
    [c \in Chans |-> IF c \in cs THEN MaxVersion(k) + 1 ELSE k.versions[c]]

\* Variant of apply_writes: the end is never announced.
FinishNever(up, bump) == FALSE

\* "update seen versions"
Seen(k, ts) ==
    [n \in Nodes |->
        [c \in Chans |-> IF n \in ts /\ c \in Triggers[n] THEN k.versions[c] ELSE k.seen[n][c]]]

\* "If this is (tentatively) the last superstep"
LastStep(up, bump) == bump /\ up \cap TriggerChans = {}

\* Channels consumed by the tasks ts.
Consumed(k, ts) ==
    LET read == UNION {Triggers[n] : n \in ts \cap Nodes}
    IN  [c \in Chans |-> IF c \in read THEN Consume(c, k.chan[c]) ELSE k.chan[c]]

\* apply_writes of the tasks ts, which write w.
ApplyWrites(k, ts, w) ==
    LET bump == ts # {}
        chan1 == Consumed(k, ts)
        \* the channels written to
        chan2 == [c \in Chans |-> IF w[c] # {} THEN Update(c, chan1[c], w[c]) ELSE chan1[c]]
        up2   == {c \in Chans : /\ w[c] # {} /\ Updates(c, chan1[c], w[c])
                                /\ IsAvailable(c, chan2[c])}
        \* the others are notified of the step
        idle  == {c \in Chans : bump /\ IsAvailable(c, chan2[c]) /\ c \notin up2}
        chan3 == [c \in Chans |-> IF c \in idle THEN Update(c, chan2[c], {}) ELSE chan2[c]]
        \* all are notified of the end
        last  == LastStep(up2, bump)
        chan4 == [c \in Chans |-> IF last THEN Finish(c, chan3[c]) ELSE chan3[c]]
        up4   == up2 \cup {c \in Chans : chan4[c] # chan3[c] /\ IsAvailable(c, chan4[c])}
        changed == {c \in Chans : \/ chan1[c] # k.chan[c]
                                  \/ w[c] # {} /\ Updates(c, chan1[c], w[c])
                                  \/ chan3[c] # chan2[c] \/ chan4[c] # chan3[c]}
    IN  [k EXCEPT !.chan = chan4,
                  !.versions = Bumped(k, changed),
                  !.seen = Seen(k, ts),
                  !.updated = up4]

\* _triggers
Triggered(k, c, n) == IsAvailable(c, k.chan[c]) /\ k.versions[c] > k.seen[n][c]
IsTriggered(k, n)  == \E c \in Triggers[n] : Triggered(k, c, n)

\* Nodes that prepare_next_tasks looks at.
Candidates(k) == IF k.updated # {} THEN {n \in Nodes : Triggers[n] \cap k.updated # {}}
                 ELSE Nodes

\* prepare_next_tasks; _first, which has no trigger_to_nodes, looks at all.
NextTasks(k)    == k.chan[TASKS].got \cup {n \in Candidates(k) : IsTriggered(k, n)}
DiscardTasks(k) == k.chan[TASKS].got \cup {n \in Nodes : IsTriggered(k, n)}

\* Variant: all tasks must be of the list.
ShouldInterruptAll(k, nodes, ts) ==
    /\ \E c \in Chans : k.versions[c] > k.seenInt[c]
    /\ \A t \in ts : NodeOf(t) \in nodes

\* should_interrupt
ShouldInterrupt(k, nodes, ts) ==
    /\ \E c \in Chans : k.versions[c] > k.seenInt[c]
    /\ \E t \in ts : NodeOf(t) \in nodes

-----------------------------------------------------------------------------
(* Entering the loop.                                                      *)

Init ==
    /\ pc = "idle" /\ status = "pending" /\ tasks = {} /\ stop = 0 /\ resuming = FALSE
    /\ ck = EmptyCheckpoint /\ saved = EmptyCheckpoint /\ queue = <<>>
    /\ nulls = {} /\ flight = {} /\ savedNulls = {}
    /\ runs = 0 /\ asked = FALSE

\* Variant: no superstep is put before the exit.
SubmitNone(q, k) == q

\* _put_checkpoint of the loop: the step advances; with "exit" nothing is put.
Put(k) == [k EXCEPT !.step = @ + 1]
Submit(q, k) == IF Durability = "exit" THEN q ELSE Append(q, k)

\* Variant: the channels of the Commands are not among the updated ones.
NullsNotNoted(k, cs) ==
    IF cs = {} THEN k ELSE [ApplyWrites(k, {}, WritesTo(cs)) EXCEPT !.updated = k.updated]

\* "apply NULL writes": the writes of Commands, new or not yet in a checkpoint.
ApplyNulls(k, cs) ==
    LET k1 == ApplyWrites(k, {}, WritesTo(cs))
    IN  IF cs = {} THEN k
        ELSE [k1 EXCEPT !.updated = IF k.updated = {} THEN {} ELSE k.updated \cup k1.updated]

\* __enter__
Enter ==
    /\ pc = "idle" /\ runs < LastRun
    /\ pc' = "tick" /\ status' = "pending"
    /\ stop' = (saved.step + 1) + Limit + 1
    /\ runs' = runs + 1
    /\ UNCHANGED <<tasks, saved, savedNulls>>

\* _first with an input: the unfinished tasks of the thread are discarded.
Invoke ==
    /\ Enter
    /\ LET k == ApplyNulls(saved, savedNulls)
       IN  ck' = Put(ApplyWrites(k, DiscardTasks(k), WritesTo(Input)))
    /\ queue' = Submit(queue, ck')
    /\ nulls' = savedNulls
    /\ resuming' = FALSE /\ asked' = FALSE
    /\ UNCHANGED flight

\* Variant: only the channels that a Command writes to are taken for seen.
SeenNothing(k) == k.seenInt

\* "proceed past previous checkpoint"
Proceed(k) == k.versions

\* _first without input, or with a Command that writes to cs.
Resume(cs) ==
    /\ Enter
    /\ saved.step > -2
    /\ nulls' = savedNulls \cup cs
    /\ flight' = IF Durability = "exit" THEN {} ELSE cs
    /\ LET k == ApplyNulls(saved, nulls')
       IN  ck' = [k EXCEPT !.seenInt = Proceed(k)]
    /\ resuming' = TRUE
    /\ UNCHANGED <<queue, asked>>

-----------------------------------------------------------------------------
(* tick.                                                                   *)

\* Variant: the last checkpoint is not put.
PutAtExitNone(q, k) == q

\* _put_checkpoint of _suppress_interrupt: k is put, unless it is "already saved".
PutAtExit(q, k) == IF Durability = "exit" /\ k.step # saved.step THEN Append(q, k) ELSE q

\* Leaving the loop with the checkpoint k: with "exit" it is put, and so are the
\* pending writes.
Leave(why, k) ==
    /\ pc' = "exit" /\ status' = why /\ ck' = k
    /\ queue' = PutAtExit(queue, k)
    /\ flight' = IF Durability = "exit" THEN nulls ELSE flight
    /\ UNCHANGED <<tasks, stop, resuming, nulls, saved, savedNulls, runs>>

InSteps == ck.step + 1 <= stop

\* "check if iteration limit is reached", "if no more tasks, we're done"
TickStops ==
    /\ pc = "tick"
    /\ \/ ~InSteps /\ Leave("out_of_steps", ck)
       \/ InSteps /\ NextTasks(ck) = {} /\ Leave("done", ck)
    /\ UNCHANGED asked

Drain ==
    /\ pc = "tick" /\ "drain" \in Events
    /\ InSteps /\ NextTasks(ck) # {}
    /\ Leave("draining", ck)
    /\ UNCHANGED asked

TickInterrupts ==
    /\ pc = "tick"
    /\ InSteps /\ ShouldInterrupt(ck, InterruptBefore, NextTasks(ck))
    /\ Leave("interrupt_before", ck)
    /\ asked' = TRUE

Tick ==
    /\ pc = "tick"
    /\ InSteps /\ NextTasks(ck) # {}
    /\ ~ShouldInterrupt(ck, InterruptBefore, NextTasks(ck))
    /\ tasks' = NextTasks(ck)
    /\ pc' = "run"
    /\ UNCHANGED <<status, ck, stop, resuming, nulls, flight, queue, saved, savedNulls,
                   runs, asked>>

-----------------------------------------------------------------------------
(* The tasks have run, or one of them raised.                              *)

\* A LastValue "Can receive only one value per step".
Conflicts(o) == {c \in Chans : /\ Kind[c] = "last"
                               /\ \E t, u \in DOMAIN o : /\ t # u
                                                         /\ <<c, Value>> \in o[t]
                                                         /\ <<c, Value>> \in o[u]}

\* after_tick
AfterTick(o) ==
    /\ pc = "run"
    /\ Conflicts(o) = {}
    /\ nulls' = {}
    /\ LET k == Put(ApplyWrites(ck, tasks, Writes(o)))
           q == Submit(queue, k)
       IN  /\ ck' = k
           /\ tasks' = {}
           /\ IF ShouldInterrupt(k, InterruptAfter, tasks)
              THEN /\ pc' = "exit" /\ status' = "interrupt_after"
                   /\ queue' = PutAtExit(q, k)
                   /\ asked' = TRUE
                   /\ UNCHANGED resuming
              ELSE /\ pc' = "tick" /\ queue' = q /\ resuming' = FALSE /\ asked' = FALSE
                   /\ UNCHANGED status
    /\ UNCHANGED <<stop, flight, saved, savedNulls, runs>>

\* apply_writes raises InvalidUpdateError at a channel: what was seen, what was
\* consumed and the channels done before stay as they are.
AfterTickRaises(o, done) ==
    /\ pc = "run"
    /\ Conflicts(o) # {}
    /\ done \subseteq {c \in Chans : Writes(o)[c] # {}} \ Conflicts(o)
    /\ LET chan1 == Consumed(ck, tasks)
           chan2 == [c \in Chans |-> IF c \in done THEN Update(c, chan1[c], Writes(o)[c])
                                     ELSE chan1[c]]
           changed == {c \in Chans : \/ chan1[c] # ck.chan[c]
                                     \/ c \in done /\ Updates(c, chan1[c], Writes(o)[c])}
       IN  Leave("error", [ck EXCEPT !.chan = chan2,
                                     !.versions = Bumped(ck, changed),
                                     !.seen = Seen(ck, tasks)])
    /\ UNCHANGED asked

\* A task raised or interrupted.
Fail ==
    /\ pc = "run" /\ "fail" \in Events
    /\ Leave("error", ck)
    /\ UNCHANGED asked

-----------------------------------------------------------------------------
(* The background executor and the process.                                *)

StoreCheckpoint ==
    /\ queue # <<>>
    /\ saved' = Head(queue) /\ queue' = Tail(queue)
    /\ savedNulls' = {}
    /\ flight' = IF Durability = "exit" THEN flight ELSE {}
    /\ UNCHANGED <<pc, status, ck, tasks, stop, resuming, nulls, runs, asked>>

\* Null writes go to the checkpoint they were submitted for.
StoreNulls ==
    /\ flight # {}
    /\ Durability = "exit" => queue = <<>>
    /\ savedNulls' = savedNulls \cup flight /\ flight' = {}
    /\ UNCHANGED <<pc, status, ck, tasks, stop, resuming, nulls, queue, saved, runs,
                   asked>>

\* The loop is no more.
Gone ==
    /\ pc' = "idle" /\ status' = "pending" /\ ck' = EmptyCheckpoint /\ tasks' = {}
    /\ stop' = 0 /\ resuming' = FALSE /\ nulls' = {}

Exit ==
    /\ pc = "exit" /\ queue = <<>> /\ flight = {}
    /\ Gone
    /\ UNCHANGED <<flight, queue, saved, savedNulls, runs, asked>>

Crash ==
    /\ pc # "idle" /\ "crash" \in Events
    /\ Gone
    /\ queue' = <<>> /\ flight' = {}
    /\ UNCHANGED <<saved, savedNulls, runs, asked>>

\* Nobody runs the thread again.
Rest ==
    /\ pc = "idle" /\ runs = LastRun
    /\ UNCHANGED vars

Next ==
    \/ Invoke \/ \E cs \in Commands \cup {{}} : Resume(cs)
    \/ TickStops \/ Drain \/ TickInterrupts \/ Tick
    \/ \E o \in Outcomes(tasks) : AfterTick(o)
    \/ \E o \in Outcomes(tasks), done \in SUBSET Chans : AfterTickRaises(o, done)
    \/ Fail \/ StoreCheckpoint \/ StoreNulls \/ Exit \/ Crash \/ Rest

Spec == Init /\ [][Next]_vars

-----------------------------------------------------------------------------
(* What the loop implements.                                               *)

\* The nodes that are to run, without versions.
Abstract(k) ==
    [run   |-> {n \in Nodes : IsTriggered(k, n)},
     sends |-> k.chan[TASKS].got,
     wait  |-> {c \in Deferred : IsFull(c, k.chan[c]) /\ ~k.chan[c].fin},
     came  |-> [c \in Barriers |-> k.chan[c].got]]

InLoop == pc \in {"tick", "run"}

Bulk == INSTANCE BulkSynchronous WITH
    phase <- CASE pc = "idle" -> "idle" [] pc = "tick" -> "ready"
               [] pc = "run" -> "busy" [] pc = "exit" -> "leaving",
    cur   <- Abstract(IF InLoop THEN ck ELSE EmptyCheckpoint),
    tasks <- IF pc = "run" THEN tasks ELSE {},
    queue <- [i \in DOMAIN queue |-> Abstract(queue[i])],
    disk  <- Abstract(saved),
    todo  <- savedNulls \cup (IF Durability = "exit" /\ InLoop THEN nulls ELSE flight),
    dirty <- InLoop /\ ck.step # stop - Limit - 2

(* Safety.                                                                 *)

\* "Channel updates from step N are only visible in step N+1" (main.py): each
\* superstep runs exactly the nodes that the one before wrote to, the joins that
\* are complete and, when nothing else is left, the deferred nodes; whatever run
\* of the thread it is in, and whichever way the runs before ended.
ImplementsSupersteps == Bulk!Spec

\* The types of the state; a version is seen after the channel has had it.
TypeOK ==
    /\ pc \in {"idle", "tick", "run", "exit"}
    /\ status \in {"pending", "done", "draining", "out_of_steps", "interrupt_before",
                   "interrupt_after", "error"}
    /\ ck \in Checkpoint /\ saved \in Checkpoint
    /\ \A n \in Nodes, c \in Chans : /\ ck.seen[n][c] <= ck.versions[c]
                                    /\ ck.seenInt[c] <= ck.versions[c]
    /\ queue \in Seq(Checkpoint)
    /\ tasks \subseteq Tasks
    /\ stop \in Int
    /\ resuming \in BOOLEAN
    /\ nulls \subseteq Chans /\ flight \subseteq Chans /\ savedNulls \subseteq Chans
    /\ runs \in 0 .. LastRun
    /\ asked \in BOOLEAN

\* "if no more tasks, we're done" (tick): a run that is done leaves nothing that
\* was sent to a node, a deferred one included.
NothingLeft ==
    pc = "exit" /\ status = "done" =>
        /\ DiscardTasks(ck) = {}
        /\ \A c \in Deferred : ~IsFull(c, ck.chan[c])

\* "An optional list of node names to interrupt before" (StateGraph.compile):
\* a node of the list starts only when a run has been interrupted since the
\* superstep before it.
Approved == pc = "run" /\ (\E t \in tasks : NodeOf(t) \in InterruptBefore) => asked

\* "whenever we resume graph execution from that superstep" (README.md of
\* checkpoint): a superstep that failed can be resumed; its tasks are tasks of the
\* checkpoint that the failed run leaves.
FailedStepOwed ==
    pc = "exit" /\ status = "error" /\ queue = <<>> /\ flight = {} =>
        tasks \subseteq DiscardTasks(ApplyNulls(saved, savedNulls))

\* "proceed past previous checkpoint" (_first): a run that resumes is not
\* interrupted again before it has run a superstep.
ResumeProceeds == [][status # "interrupt_before" /\ status' = "interrupt_before" => ~resuming]_vars
=============================================================================
