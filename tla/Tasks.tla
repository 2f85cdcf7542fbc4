-------------------------------- MODULE Tasks --------------------------------
(***************************************************************************)
(* What goes on inside a task: the graph of an agent whose tasks are tool  *)
(* calls (ReactAgent), the attempts at a task (NodeAttempts), and the      *)
(* calls that a task makes of others (NestedCalls).  They share no state.  *)
(***************************************************************************)
EXTENDS ReactAgent, Sequences

CONSTANTS
    Errors, Policies, Calls, CacheHit,              \* those of NodeAttempts
    Modes, Program, MaxAttempts, LastRun            \* those of NestedCalls

VARIABLES
    call, tryPc, outcome, attempts, exec, body, active, writes, resuming, since, quiet,
    fired, cancel, reports,
    mode, run, on, parent, attempt, counter, position, handle, seen, child, arg, out,
    callbacks, dest, pending, toPut, db, stored, retried

attemptVars ==
    <<call, tryPc, outcome, attempts, exec, body, active, writes, resuming, since, quiet,
      fired, cancel, reports>>
nestedVars ==
    <<mode, run, on, parent, attempt, counter, position, handle, seen, child, arg, out,
      callbacks, dest, pending, toPut, db, stored, retried>>

Attempts == INSTANCE NodeAttempts WITH pc <- tryPc

Nested == INSTANCE NestedCalls WITH next <- position

\* _guard_send: a task's writes are those of its last attempt.
OwnWrites == Attempts!OwnWrites

\* run_with_retry: no policy is given more attempts than it allows.
AttemptsCounted == Attempts!AttemptsCounted

\* _arun_with_timeout: a task with a run_timeout ends.
TimedEnds == Attempts!TimedEnds

\* prepare_push_task_functional: a parent gets the results of its own calls.
OwnResults == Nested!OwnResults

\* accept_push: a child whose result is durable is not run again.
NotRunAgain == Nested!NotRunAgain

\* _call: every call is answered.
CallsAnswered == Nested!CallsAnswered
=============================================================================
