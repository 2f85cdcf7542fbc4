---------------------------- MODULE NodeAttempts ----------------------------
(***************************************************************************)
(* run_with_retry and arun_with_retry: one task, executed until an attempt *)
(* succeeds or its failure is not to be retried.                           *)
(*                                                                         *)
(* With a TimeoutPolicy (asyncio only) the attempt's body runs as a task   *)
(* of its own next to one or two watchdogs.  When a watchdog fires first   *)
(* the body is cancelled and abandoned: it may ignore the cancellation and *)
(* go on writing while the next attempt runs.  What keeps the two apart is *)
(* the attempt's _TimedAttemptScope, through which all its writes go.      *)
(*                                                                         *)
(* Time is kept as two stop watches, since the attempt began and since its *)
(* last progress.  A write is known by the attempt that made it.           *)
(***************************************************************************)
EXTENDS Naturals, Sequences, FiniteSets

CONSTANTS
    Errors,      \* exceptions a body may raise
    Policies,    \* retry_policy: a sequence of [on, max], tried in order
    Calls,       \* how the task may be run: [mode, run, idle, refresh]
    CacheHit     \* may the cache hold the task's writes?

Timeout   == "timeout"         \* NodeTimeoutError
Retryable == Errors \cup {Timeout}
NoLimit   == 0                 \* run_timeout or idle_timeout is None

\* No policy allows more attempts than this.
MaxExec == LET M == {Policies[i].max : i \in DOMAIN Policies} \cup {1}
           IN  CHOOSE n \in M : \A k \in M : n >= k

Execs    == 1 .. (MaxExec + 1)
Cached   == 0                  \* the writer of writes found in the cache
BodyEnds == {"ok", "own command", "bubble", "cancelled"} \cup Errors
Outcomes == {"none", "ok", "unsupported", "bubble", "cancelled", "node cancelled"}
                \cup Retryable

VARIABLES
    call,       \* the task's mode and timeout
    pc,         \* "enter", "begin", "body", "sleep", "end"
    outcome,    \* how run_with_retry ended
    attempts,   \* failed tries
    exec,       \* number of the attempt under way, or of the last one
    body,       \* state of every attempt's body
    active,     \* attempts whose scope is open
    writes,     \* task.writes: the attempts whose writes it holds
    resuming,   \* CONFIG_KEY_RESUMING
    since,      \* time since the attempt began
    quiet,      \* time since its last progress
    fired,      \* watchdogs that raised TimeoutError
    cancel,     \* the runner cancelled the task: "no", "pending", "delivered"
    reports     \* what the observer of timed attempts was told

bodyVars  == <<exec, body, active, writes>>
clockVars == <<since, quiet, fired>>
vars == <<call, pc, outcome, attempts, bodyVars, resuming, clockVars, cancel, reports>>

Timed == call.run # NoLimit \/ call.idle # NoLimit

TypeOK ==
    /\ call \in Calls
    /\ pc \in {"enter", "begin", "body", "sleep", "end"}
    /\ outcome \in Outcomes
    /\ attempts \in 0 .. MaxExec /\ exec \in {0} \cup Execs
    /\ body \in [Execs -> {"none", "running", "abandoned", "gone"} \cup BodyEnds]
    /\ active \subseteq Execs /\ writes \subseteq Execs \cup {Cached}
    /\ resuming \in BOOLEAN
    /\ since \in 0 .. call.run /\ quiet \in 0 .. call.idle
    /\ fired \subseteq {"idle", "run"}
    /\ cancel \in {"no", "pending", "delivered"}
    /\ reports \in [started : SUBSET Execs, finished : SUBSET Execs]

Init ==
    /\ call \in Calls
    /\ pc = "enter" /\ outcome = "none" /\ attempts = 0 /\ exec = 0
    /\ body = [i \in Execs |-> "none"] /\ active = {} /\ writes = {}
    /\ resuming = FALSE /\ since = 0 /\ quiet = 0 /\ fired = {}
    /\ cancel = "no" /\ reports = [started |-> {}, finished |-> {}]

-----------------------------------------------------------------------------
(* Before the first attempt.                                               *)

\* A sync node with a timeout is refused; an async one whose writes are found
\* in the cache returns at once, with those writes.
Enter(hit) ==
    /\ pc = "enter"
    /\ hit => CacheHit /\ call.mode = "async"
    /\ IF call.mode = "sync" /\ Timed
       THEN pc' = "end" /\ outcome' = "unsupported" /\ UNCHANGED writes
       ELSE IF hit
       THEN pc' = "end" /\ outcome' = "ok" /\ writes' = {Cached}
       ELSE pc' = "begin" /\ UNCHANGED <<outcome, writes>>
    /\ UNCHANGED <<call, attempts, exec, body, active, resuming, clockVars, cancel, reports>>

Cleared == {}

\* An attempt starts: writes of previous attempts are cleared, the scope is
\* opened and the watchdogs start to wait.
Begin ==
    /\ pc = "begin"
    /\ exec' = exec + 1
    /\ writes' = Cleared
    /\ body' = [body EXCEPT ![exec'] = "running"]
    /\ active' = IF Timed THEN active \cup {exec'} ELSE active
    /\ since' = 0 /\ quiet' = 0 /\ fired' = {}
    /\ reports' = IF Timed THEN [reports EXCEPT !.started = @ \cup {exec'}] ELSE reports
    /\ pc' = "body"
    /\ UNCHANGED <<call, outcome, attempts, resuming, cancel>>

-----------------------------------------------------------------------------
(* The bodies.                                                             *)

Alive(i) == body[i] \in {"running", "abandoned"}

\* Variant: the guard does not look whether the scope is closed.
GuardOpen(i) == TRUE

\* guarded_send: a closed scope drops what is sent through it.
GuardSend(i) == Timed => i \in active

\* The body writes, which counts as progress unless only heartbeats do.
Send(i) ==
    /\ Alive(i)
    /\ writes' = IF GuardSend(i) THEN writes \cup {i} ELSE writes
    /\ quiet' = IF i \in active /\ call.refresh = "auto" THEN 0 ELSE quiet
    /\ UNCHANGED <<call, pc, outcome, attempts, exec, body, active, resuming>>
    /\ UNCHANGED <<since, fired, cancel, reports>>

\* runtime.heartbeat(), a stream chunk or a callback: touch() of the body's
\* own scope, which is the current one only for the current attempt.
Touch(i) ==
    /\ Alive(i) /\ Timed
    /\ quiet' = IF i = exec THEN 0 ELSE quiet
    /\ UNCHANGED <<call, pc, outcome, attempts, bodyVars, resuming>>
    /\ UNCHANGED <<since, fired, cancel, reports>>

\* The body returns or raises.  One that was cancelled may end in any way, one
\* that was not may still raise CancelledError itself.
End(i, o) ==
    /\ Alive(i)
    /\ body' = [body EXCEPT ![i] = IF @ = "running" THEN o ELSE "gone"]
    /\ UNCHANGED <<call, pc, outcome, attempts, exec, active, writes, resuming>>
    /\ UNCHANGED <<clockVars, cancel, reports>>

-----------------------------------------------------------------------------
(* Time.                                                                   *)

Tick ==
    /\ pc = "body" /\ Timed
    /\ since' = IF since < call.run THEN since + 1 ELSE since
    /\ quiet' = IF quiet < call.idle THEN quiet + 1 ELSE quiet
    /\ UNCHANGED <<call, pc, outcome, attempts, bodyVars, resuming, fired, cancel, reports>>

IdleExpired == call.idle # NoLimit /\ quiet = call.idle

\* Variant: progress restarts the run timeout too.
RunExpiredQuiet == call.run # NoLimit /\ since = call.run /\ quiet = call.idle

RunExpired == call.run # NoLimit /\ since = call.run

Watchdog(k) ==
    /\ pc = "body" /\ k \notin fired
    /\ IF k = "idle" THEN IdleExpired ELSE RunExpired
    /\ fired' = fired \cup {k}
    /\ UNCHANGED <<call, pc, outcome, attempts, bodyVars, resuming, since, quiet>>
    /\ UNCHANGED <<cancel, reports>>

-----------------------------------------------------------------------------
(* The end of an attempt.                                                  *)

\* The first policy that retries on e; 0 if none does.
Matching(e) ==
    LET M == {i \in DOMAIN Policies : e \in Policies[i].on}
    IN  IF M = {} THEN 0 ELSE CHOOSE i \in M : \A k \in M : i <= k

\* Variant: one more attempt than the policy allows.
GiveUpLate(n, i) == n > Policies[i].max

GiveUp(n, i) == n >= Policies[i].max

\* except Exception: raised again, or retried after a pause.
Fail(e) ==
    IF Matching(e) = 0
    THEN pc' = "end" /\ outcome' = e /\ UNCHANGED attempts
    ELSE /\ attempts' = attempts + 1
         /\ IF GiveUp(attempts', Matching(e))
            THEN pc' = "end" /\ outcome' = e
            ELSE pc' = "sleep" /\ UNCHANGED outcome

Finish(o) == pc' = "end" /\ outcome' = o /\ UNCHANGED attempts

\* _finish_timed_attempt
Report(o) ==
    reports' = IF Timed THEN [reports EXCEPT !.finished = @ \cup {exec}] ELSE reports

\* CancelledError from the body: of the runner's making if cancelling() > 0.
Cancelled ==
    Finish(IF call.mode = "async" /\ cancel # "no" THEN "cancelled" ELSE "node cancelled")

\* ParentCommand for the task's own graph, whose writers are run in its place.
\* What one of them raises leaves at once; those before it have written.
RunWriters ==
    \/ Finish("ok") /\ writes' = writes \cup {exec}
    \/ \E e \in Errors : Finish(e) /\ writes' \in {writes, writes \cup {exec}}

\* The wait for the body is over because the body is.  A cancellation that
\* came first is delivered instead.
Wake ==
    /\ pc = "body"
    /\ cancel # "pending" \/ ~Timed
    /\ body[exec] \in BodyEnds
    /\ LET o == body[exec]
       IN  /\ CASE o = "ok"          -> Finish("ok") /\ UNCHANGED writes
                [] o = "own command" -> RunWriters
                [] o = "bubble"      -> Finish("bubble") /\ UNCHANGED writes
                [] o = "cancelled"   -> Cancelled /\ UNCHANGED writes
                [] OTHER             -> Fail(o) /\ UNCHANGED writes
           /\ Report(o)
    /\ active' = active \ {exec}
    /\ cancel' = IF cancel = "pending" THEN "delivered" ELSE cancel
    /\ UNCHANGED <<call, exec, body, resuming, clockVars>>

Close(i) == active \ {i}

\* A watchdog fired and the body is not done: its writes are dropped and it is
\* cancelled, which it may ignore.
TimeOut ==
    /\ pc = "body" /\ Timed
    /\ cancel # "pending"
    /\ fired # {} /\ body[exec] = "running"
    /\ active' = Close(exec)
    /\ writes' = {}
    /\ body' = [body EXCEPT ![exec] = "abandoned"]
    /\ Fail(Timeout)
    /\ Report(Timeout)
    /\ UNCHANGED <<call, exec, resuming, clockVars, cancel>>

\* The pause is over; subgraphs are told to resume.
SleepOver ==
    /\ pc = "sleep"
    /\ cancel # "pending"
    /\ pc' = "begin" /\ resuming' = TRUE
    /\ UNCHANGED <<call, outcome, attempts, bodyVars, clockVars, cancel, reports>>

\* The runner cancels the task because another one failed.
Cancel ==
    /\ call.mode = "async" /\ cancel = "no"
    /\ pc = "sleep" \/ (pc = "body" /\ (Timed \/ body[exec] = "running"))
    /\ cancel' = "pending"
    /\ UNCHANGED <<call, pc, outcome, attempts, bodyVars, resuming, clockVars, reports>>

\* CancelledError arrives in the wait for a timed body, or in the pause.  (In
\* an untimed attempt the body gets it, and ends as it likes: End, Wake.)
DeliverCancel ==
    /\ cancel = "pending"
    /\ (pc = "body" /\ Timed) \/ pc = "sleep"
    /\ cancel' = "delivered"
    /\ IF pc = "body"
       THEN /\ active' = Close(exec)
            /\ body' = [body EXCEPT ![exec] = IF @ = "running" THEN "abandoned" ELSE @]
            /\ Report("cancelled")
       ELSE UNCHANGED <<active, body, reports>>
    /\ Finish("cancelled")
    /\ UNCHANGED <<call, exec, writes, resuming, clockVars>>

\* The task has ended; abandoned bodies may go on.
Over == pc = "end" /\ UNCHANGED vars

-----------------------------------------------------------------------------
Next ==
    \/ \E hit \in BOOLEAN : Enter(hit)
    \/ Begin \/ Tick \/ Wake \/ TimeOut \/ SleepOver \/ Cancel \/ DeliverCancel \/ Over
    \/ \E i \in Execs : Send(i) \/ Touch(i)
    \/ \E i \in Execs, o \in BodyEnds : End(i, o)
    \/ \E k \in {"idle", "run"} : Watchdog(k)

\* The event loop runs what is ready and time passes.  Bodies need not end.
Fairness ==
    /\ WF_vars(Begin) /\ WF_vars(SleepOver)
    /\ WF_vars(Tick) /\ WF_vars(Watchdog("run")) /\ WF_vars(Wake) /\ WF_vars(TimeOut)
    /\ WF_vars(DeliverCancel)

Spec == Init /\ [][Next]_vars /\ Fairness

-----------------------------------------------------------------------------
(* Properties.                                                             *)

\* "cancelled background tasks cannot persist writes past the timeout
\* boundary" (_TimedAttemptScope): what a task that has ended hands to commit
\* was written by its last attempt only, and by none if that one timed out,
\* whatever abandoned bodies still do.
OwnWrites ==
    pc = "end" =>
        /\ writes \subseteq {exec} \cup (IF exec = 0 THEN {Cached} ELSE {})
        /\ outcome = Timeout => writes = {}

\* Every timed attempt is reported finished once, before the next one starts
\* and before the task ends, on whichever path (_finish_timed_attempt); no
\* attempt is made beyond "maximum number of attempts to make before giving up,
\* including the first" (RetryPolicy.max_attempts), nor are there fewer before a
\* failure of the body is given up: the failures so far count for all policies.
\* A body that ended as a Command for its own graph is the last one executed,
\* also if the writers of that command raise what a policy would retry.
AttemptsCounted ==
    /\ reports.finished \subseteq reports.started
    /\ Cardinality(reports.started \ reports.finished) <= 1
    /\ pc # "body" => reports.finished = reports.started
    /\ exec <= MaxExec
    /\ (/\ pc = "end" /\ outcome \in Retryable
        /\ Matching(outcome) # 0 /\ body[exec] # "own command") =>
           exec >= Policies[Matching(outcome)].max
    /\ \A i \in Execs : body[i] = "own command" => i = exec /\ pc \in {"body", "end"}

\* A node with a run_timeout ends, although its bodies may make progress for
\* ever and ignore that they were cancelled.
TimedEnds == (pc = "body" /\ call.run # NoLimit) ~> pc = "end"
=============================================================================
