----------------------------- MODULE Interrupts -----------------------------
(***************************************************************************)
(* interrupt() and the values it is answered with.                         *)
(*                                                                         *)
(* The tasks of one superstep ask the user questions, one after the other. *)
(* interrupt() has no memory of its own: the n-th call of a task returns   *)
(* the n-th value of the task's saved RESUME list, or takes the value of   *)
(* Command(resume=...) that the run brought, or raises GraphInterrupt; the *)
(* task then ends and is executed from its start by the next run.  Values  *)
(* come in a plain Command(resume=v), kept as a write of the null task     *)
(* that any task may consume, or as a mapping from interrupt ids.          *)
(*                                                                         *)
(* A run may crash between any two steps, and a task may raise an error.   *)
(* The writes put for a task reach the checkpointer in the same step; the  *)
(* background executor is the subject of CheckpointPipeline.               *)
(***************************************************************************)
EXTENDS Naturals, Sequences, FiniteSets

CONSTANTS
    Tasks,       \* the superstep's tasks
    Questions,   \* how often each task calls interrupt()
    LastRun      \* bound: number of runs

Plain(n)  == [run |-> n, to |-> "any"]      \* the value of Command(resume=v)
ById(n,t) == [run |-> n, to |-> t]          \* the value for t in a mapping
Answers   == [run : 1 .. LastRun, to : Tasks \cup {"any"}]
Asked     == [ans : Answers, task : Tasks, q : Nat]
Use       == [ans : Answers, task : Tasks, q : Nat, in : 1 .. LastRun]
NoRun     == 0

VARIABLES
    run,        \* number of the run, NoRun before the first
    on,         \* is it under way?
    task,       \* its tasks: "none", "running", "interrupted", "failed", "done"
    nullLeft,   \* the null task's RESUME write in the loop: a run, or NoRun
    pad,        \* scratchpad of each task: resume list, null write seen, counter
    q,          \* the question each task is at
    wrote,      \* tasks that have sent (RESUME, list) in this attempt
    db,         \* the checkpointer's pending writes
    meant,      \* history: the question every answer was given for
    used,       \* history: the questions every answer was returned to
    answered,   \* history: questions answered to each task when it was committed
    retried     \* history: tasks that were retried within a run

vars == <<run, on, task, nullLeft, pad, q, wrote, db, meant, used, answered, retried>>

TypeOK ==
    /\ run \in 0 .. LastRun /\ on \in BOOLEAN
    /\ task \in [Tasks -> {"none", "running", "interrupted", "failed", "done"}]
    /\ nullLeft \in 0 .. LastRun
    /\ pad \in [Tasks -> [resume : Seq(Answers), null : 0 .. LastRun, calls : Nat]]
    /\ q \in [Tasks -> Nat] /\ wrote \subseteq Tasks
    /\ db \in [null : 0 .. LastRun, resume : [Tasks -> Seq(Answers)],
               asked : [Tasks -> Nat], done : SUBSET Tasks]
    /\ meant \subseteq Asked /\ used \subseteq Use 
    /\ answered \in [Tasks -> Nat] /\ retried \subseteq Tasks

Init ==
    /\ run = NoRun /\ on = FALSE
    /\ task = [t \in Tasks |-> "none"] /\ nullLeft = NoRun
    /\ pad = [t \in Tasks |-> [resume |-> <<>>, null |-> NoRun, calls |-> 0]]
    /\ q = [t \in Tasks |-> 1] /\ wrote = {}
    /\ db = [null |-> NoRun, resume |-> [t \in Tasks |-> <<>>],
             asked |-> [t \in Tasks |-> 0], done |-> {}]
    /\ meant = {} /\ used = {} /\ answered = [t \in Tasks |-> 0] /\ retried = {}

-----------------------------------------------------------------------------
(* A run begins.                                                           *)

\* The tasks whose last question has no saved answer: users answer these.
Waiting == {t \in Tasks \ db.done : db.asked[t] > Len(db.resume[t])}

\* _pending_interrupts: a task with a RESUME write counts as answered, also if
\* it has asked again since.
PendingInterrupts == {t \in Tasks : db.asked[t] # 0 /\ db.resume[t] = <<>>}

\* Variant: the mapping is looked up by position instead of id.
MappedToAll(S, n, t) == IF S # {} THEN <<ById(n, CHOOSE u \in S : TRUE)>> ELSE <<>>

\* _scratchpad: a value mapped to the task's id is appended to its list.
Mapped(S, n, t) == IF t \in S THEN <<ById(n, t)>> ELSE <<>>

\* The loop loads the pending writes and prepares the unfinished tasks, each
\* with a scratchpad that has found the null task's RESUME write, if any.
Prepare(null, S) ==
    /\ on' = TRUE /\ run' = run + 1
    /\ nullLeft' = null
    /\ db' = [db EXCEPT !.null = null]
    /\ pad' = [t \in Tasks |-> [resume |-> db.resume[t] \o Mapped(S, run', t),
                                null |-> null, calls |-> 0]]
    /\ task' = [t \in Tasks |-> IF t \in db.done THEN "none" ELSE "running"]
    /\ q' = [t \in Tasks |-> 1] /\ wrote' = {}
    /\ UNCHANGED <<used, answered, retried>>

Ready == ~on /\ run < LastRun

\* The first run, or a run with input None: what the null task wrote for an
\* earlier run is still there.
RunNone ==
    /\ Ready
    /\ Prepare(db.null, {})
    /\ UNCHANGED meant

\* Command(resume=v) is refused if several interrupts are pending; put_writes
\* replaces the null task's RESUME.  The user means the one task that waits,
\* when no other is unfinished.
RunPlain ==
    /\ Ready /\ run # NoRun /\ Waiting # {}
    /\ Cardinality(PendingInterrupts) <= 1
    /\ Prepare(run + 1, {})
    /\ meant' = meant \cup {[ans |-> Plain(run + 1), task |-> t, q |-> db.asked[t]] :
                              t \in {u \in Waiting : Tasks \ db.done = {u}}}

\* Command(resume={id: v}) for some of the tasks that wait.
RunIds(S) ==
    /\ Ready /\ run # NoRun /\ S # {} /\ S \subseteq Waiting
    /\ Prepare(db.null, S)
    /\ meant' = meant \cup {[ans |-> ById(run + 1, t), task |-> t, q |-> db.asked[t]] :
                              t \in S}

-----------------------------------------------------------------------------
(* interrupt().                                                            *)

\* interrupt_counter(): the position in the list that this call looks at.
Position(t) == pad[t].calls + 1

\* get_null_resume(True) removes the write its scratchpad has seen.
Consume(t) == NoRun

HasNull(t) == pad[t].null # NoRun /\ nullLeft = pad[t].null

Asks(t) == on /\ task[t] = "running" /\ q[t] <= Questions[t]

Return(t, ans) ==
    /\ wrote' = wrote \cup {t}
    /\ used' = used \cup {[ans |-> ans, task |-> t, q |-> q[t], in |-> run]}
    /\ q' = [q EXCEPT ![t] = @ + 1]
    /\ UNCHANGED <<run, on, task, db, meant, answered, retried>>

\* A value of the list is returned; the list is sent as a RESUME write.
AnswerFromList(t) ==
    /\ Asks(t) /\ Position(t) <= Len(pad[t].resume)
    /\ pad' = [pad EXCEPT ![t].calls = @ + 1]
    /\ Return(t, pad[t].resume[Position(t)])
    /\ UNCHANGED nullLeft

\* The null task's value is consumed and appended to the list.
AnswerFromNull(t) ==
    /\ Asks(t) /\ Position(t) > Len(pad[t].resume) /\ HasNull(t)
    /\ nullLeft' = Consume(t)
    /\ pad' = [pad EXCEPT ![t].calls = @ + 1, ![t].resume = Append(@, Plain(nullLeft))]
    /\ Return(t, Plain(nullLeft))

\* What put_writes leaves as the task's RESUME write: the slot is replaced only
\* if the task sent a list.
SavedList(t) == IF t \in wrote THEN pad[t].resume ELSE db.resume[t]

\* Variant: commit saves the interrupt alone.
SavedWithout(t) == db.resume[t]

\* commit saves the RESUME writes next to the INTERRUPT.
SavedOnInterrupt(t) == SavedList(t)

\* commit ends the task, with what its RESUME write is to be.
Commit(t, state, list) ==
    /\ task' = [task EXCEPT ![t] = state]
    /\ db' = [db EXCEPT !.resume[t] = list,
                        !.asked[t] = IF state = "interrupted" THEN q[t] ELSE @,
                        !.done = IF state = "done" THEN @ \cup {t} ELSE @]
    /\ answered' = [answered EXCEPT ![t] = IF @ > q[t] - 1 THEN @ ELSE q[t] - 1]
    /\ UNCHANGED <<run, on, nullLeft, q, wrote, meant, used, retried>>

\* No value: GraphInterrupt ends the task.
Interrupt(t) ==
    /\ Asks(t) /\ Position(t) > Len(pad[t].resume) /\ ~HasNull(t)
    /\ pad' = [pad EXCEPT ![t].calls = @ + 1]
    /\ Commit(t, "interrupted", SavedOnInterrupt(t))

\* Every question is answered: the task's writes are committed.
Finish(t) ==
    /\ on /\ task[t] = "running" /\ q[t] > Questions[t]
    /\ Commit(t, "done", SavedList(t))
    /\ UNCHANGED pad

\* The body raises before its writers have run: its RESUME list, all it has
\* written, is committed next to its ERROR.
Fail(t) ==
    /\ on /\ task[t] = "running"
    /\ Commit(t, "failed", SavedList(t))
    /\ UNCHANGED pad

\* The body raises and is retried: its writes are cleared and it starts over,
\* with the scratchpad it has.  Bound: one retry in a behaviour.
Retry(t) ==
    /\ retried = {} /\ on /\ task[t] = "running" /\ q[t] > 1
    /\ q' = [q EXCEPT ![t] = 1]
    /\ wrote' = wrote \ {t}
    /\ retried' = retried \cup {t}
    /\ UNCHANGED <<run, on, task, nullLeft, pad, db, meant, used, answered>>

\* All tasks have ended: the run stops, unless the superstep is complete.
EndRun ==
    /\ on /\ \A t \in Tasks : task[t] # "running"
    /\ db.done # Tasks
    /\ on' = FALSE
    /\ UNCHANGED <<run, task, nullLeft, pad, q, wrote, db, meant, used, answered, retried>>

\* The process dies.
Crash ==
    /\ on /\ db.done # Tasks
    /\ on' = FALSE /\ task' = [t \in Tasks |-> "none"]
    /\ UNCHANGED <<run, nullLeft, pad, q, wrote, db, meant, used, answered, retried>>

\* The superstep is complete, or the last run is over.
Over == (db.done = Tasks \/ (~on /\ run = LastRun)) /\ UNCHANGED vars

Next ==
    \/ RunNone \/ RunPlain \/ (\E S \in SUBSET Tasks : RunIds(S))
    \/ \E t \in Tasks : AnswerFromList(t) \/ AnswerFromNull(t) \/ Interrupt(t)
                            \/ Finish(t) \/ Fail(t) \/ Retry(t)
    \/ EndRun \/ Crash \/ Over

Spec == Init /\ [][Next]_vars

-----------------------------------------------------------------------------
(* Properties.                                                             *)

\* An in-process retry starts the body over but not its scratchpad, so that the
\* first question is looked up where the failed attempt had got to.  And a plain
\* value stays a write of the null task after the run it was given to.
\* What happens then is not part of what is claimed here.
Fresh(x) == x.task \notin retried /\ (x.ans.to # "any" \/ x.in = x.ans.run)

\* "Mapping of interrupt ids to resume values", "a single value with which to
\* resume the next interrupt" (Command.resume): a value given by id, or a plain
\* one given while a single task was unfinished, is returned to the question
\* that waited for it and to no other; and no value answers two questions,
\* although every scratchpad has seen it and tasks are executed again and again.
RightAnswers ==
    \A x \in used : Fresh(x) =>
        /\ \A m \in meant : m.ans = x.ans => m.task = x.task /\ m.q = x.q
        /\ \A y \in used : (y.ans = x.ans /\ Fresh(y)) => y.task = x.task /\ y.q = x.q

\* "On subsequent invocations within the same node (same task to be precise),
\* returns the value provided during the first invocation" (interrupt): a
\* question that was answered when its task was committed is not put to the
\* user again, over crashes, failures and answers to other tasks.
AskedOnce ==
    [][\A t \in Tasks : 
            (t \notin retried /\ task[t] # "interrupted" /\ task'[t] = "interrupted")
                => q[t] > answered[t]]_vars
=============================================================================
