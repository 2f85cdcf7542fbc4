-------------------------- MODULE PregelRunnerProofs --------------------------
(***************************************************************************)
(* Proofs about PregelRunner, for any tasks, handlers and number of        *)
(* workers.                                                                *)
(***************************************************************************)
EXTENDS PregelRunner, FiniteSetTheorems, TLAPS

\* No step timeout with threads, where tick does not wait for callbacks when
\* the time is up.
Unhurried == \A s \in Settings : s.mode = "threads" => ~s.timeout

\* Tick is under way.
Going == pc \notin {"returned", "raised"}

\* Futures that FuturesDict.counter counts.
Open == {t \in All : fut[t] # "none" /\ cb[t] # "done"}

\* A failure no handler takes, and that no id is mistaken for.
Fatal(t) == fut[t] = "error" /\ t \notin Handled /\ exc[t] \notin handledIds

-----------------------------------------------------------------------------
(* The inductive invariant.                                                *)

TInv ==
    /\ pc \in {"fast", "submit", "loop", "batch", "handler", "event", "panic",
               "returned", "raised"}
    /\ raised \in Raised \cup {"timeout", "none"}
    /\ fut \in [All -> {"none", "queued", "running"} \cup DoneState]
    /\ exc \in [All -> Ids \cup {NoExc}]
    /\ cb \in [All -> {"none", "pending", "committed", "done"}]
    /\ live \subseteq All /\ doneSet \subseteq All
    /\ waiter \in {"none", "pending", "ready"}
    /\ event \in BOOLEAN /\ inflight \in BOOLEAN /\ expired \in BOOLEAN
    /\ batch \subseteq All /\ forStop \subseteq All /\ drained \subseteq All
    /\ handling \subseteq Handled
    /\ handledIds \subseteq Ids \cup {NoExc} /\ handledFuts \subseteq All
    /\ saved \in [All -> {"none", "ok", "error", "marked", "interrupt"}]
    /\ durable \subseteq All /\ errFuts \subseteq All /\ cancelReq \subseteq All
    /\ call \in [tasks : SUBSET Tasks, waiter : BOOLEAN, use : Settings]

\* A future has a callback when it is done, and an exception of its own if it
\* raised; only the end of tick cancels.
LifeInv ==
    /\ \A t \in All : cb[t] = "none" <=> ~IsDone(t)
    /\ \A t \in All : fut[t] \in Raised <=> exc[t] # NoExc
    /\ \A t, u \in All : (exc[t] = exc[u] /\ exc[t] # NoExc) => t = u
    /\ \A t \in cancelReq : fut[t] \in {"queued", "running"}
    /\ Going => cancelReq = {} /\ \A t \in All : fut[t] # "cancelled"

\* What commit and the callbacks have recorded.
CommitInv ==
    /\ Going => handledIds \subseteq
                    EarlierIds \cup {exc[t] : t \in {u \in Handled : fut[u] = "error"}}
    /\ \A t \in Handled :
            (fut[t] = "error" /\ cb[t] \in {"committed", "done"}) => exc[t] \in handledIds
    /\ \A t \in doneSet : cb[t] = "done"
    /\ Going => \A t \in All : (cb[t] = "done" /\ t \notin doneSet) =>
                    t \in Handled /\ fut[t] = "error"
    /\ Mode = "asyncio" => \A t \in All : saved[t] = "marked" => fut[t] = "error"

CountInv ==
    /\ IsFiniteSet(Open) /\ counter = Cardinality(Open)
    /\ IsFiniteSet(live)

\* The event means that every callback has run, or that tick will raise.
EventInv == (Going /\ event) => counter = 0 \/ \E t \in doneSet : Fatal(t)

\* A task is handled once: when it was popped, failed.
HandlerInv ==
    /\ pc # "handler" => handling = {}
    /\ \A t, u \in handling : t = u
    /\ handling \subseteq handledFuts
    /\ \A t \in handledFuts :
            /\ t \in Handled /\ fut[t] = "error"
            /\ t \in handling <=> fut[HandlerOf[t]] = "none"
    /\ \A t \in Handled : fut[HandlerOf[t]] # "none" => t \in handledFuts
    /\ (live \cup batch) \cap handledFuts = {}

\* What has been popped.
PoppedInv == Going =>
    /\ pc \notin {"batch", "handler"} => batch = {}
    /\ \A t \in batch : IsDone(t)
    /\ \A t \in live : fut[t] # "none"
    /\ \A t \in forStop : IsDone(t) /\ (t \notin Handled \/ fut[t] # "error")
    /\ \A t \in Tasks \ (live \cup batch) :
            (t \in Handled /\ fut[t] = "error") => t \in handledFuts
    /\ \A t \in Tasks \ (live \cup batch) : fut[t] = "none" \/ IsDone(t)

\* The waiter leaves when nothing else is in flight.
WaiterInv ==
    /\ (pc \in {"fast", "submit"} /\ call.waiter) => waiter # "none"
    /\ pc = "fast" => \A t \in All : fut[t] = "none"
    /\ (Going /\ call.waiter /\ waiter = "none") => live \ batch \subseteq HandlerTasks
    /\ expired => HasTimeout

\* Nothing but handlers is left, or a failure is fatal.
Settled == live \subseteq HandlerTasks \/ \E t \in All : Fatal(t)

\* Why the loop is left.
LeaveInv ==
    /\ pc = "event" => expired \/ Settled
    /\ pc = "panic" => event /\ Settled

LoopInv == PoppedInv /\ WaiterInv /\ LeaveInv

\* Tick returned, or raised the tasks' interrupts.
Ended == pc = "returned" \/ (pc = "raised" /\ raised = "interrupt")

\* How tick has ended.
EndInv ==
    /\ Ended => /\ cancelReq = {} /\ \A t \in All : fut[t] # "none" => cb[t] = "done"
    /\ raised = "error" => \E t \in All : fut[t] = "error" /\ t \notin Handled

RunnerInv == LifeInv /\ CommitInv /\ CountInv /\ EventInv /\ HandlerInv /\ LoopInv /\ EndInv

-----------------------------------------------------------------------------
(* Types.                                                                  *)

LEMMA TaskSets ==
    /\ Tasks \subseteq All /\ HandlerTasks \subseteq All /\ Handled \subseteq Tasks
    /\ \A t \in Handled : HandlerOf[t] \in HandlerTasks /\ HandlerOf[t] \notin Tasks
    /\ \A t, u \in Handled : HandlerOf[t] = HandlerOf[u] => t = u
    /\ NoExc \notin Ids /\ EarlierIds \cap All = {} /\ NoExc \notin All
BY RunnerAssumption DEF All, Ids

LEMMA SavedType ==
    ASSUME NEW t, NEW o \in DoneState
    PROVE  SavedAs(t, o) \in {"none", "ok", "error", "marked", "interrupt"}
BY DEF SavedAs, DoneState, Outcomes, Raised

\* What commit does for futures that are done.
LEMMA CommitFacts ==
    ASSUME TInv, NEW S \in SUBSET All, NEW f, NEW e \in [All -> Ids \cup {NoExc}],
           \A t \in S : f[t] \in DoneState, Commit(S, f, e)
    PROVE  /\ saved' \in [All -> {"none", "ok", "error", "marked", "interrupt"}]
           /\ \A t \in All : saved'[t] = IF t \in S THEN SavedAs(t, f[t]) ELSE saved[t]
           /\ handledIds' = handledIds \cup {e[t] : t \in {u \in S : Marks(u, f[u])}}
           /\ handledIds' \subseteq Ids \cup {NoExc}
           /\ errFuts' \subseteq All
<1>1. saved' = [t \in All |-> IF t \in S THEN SavedAs(t, f[t]) ELSE saved[t]]
    BY DEF Commit
<1>2. \A t \in All : (IF t \in S THEN SavedAs(t, f[t]) ELSE saved[t])
                        \in {"none", "ok", "error", "marked", "interrupt"}
    BY SavedType DEF TInv
<1>3. /\ handledIds' = handledIds \cup {e[t] : t \in {u \in S : Marks(u, f[u])}}
      /\ errFuts' = errFuts \cup {u \in S : Marks(u, f[u])}
    BY DEF Commit
<1>4. {e[t] : t \in {u \in S : Marks(u, f[u])}} \subseteq Ids \cup {NoExc}
    OBVIOUS
<1> QED
    BY <1>1, <1>2, <1>3, <1>4 DEF TInv

-----------------------------------------------------------------------------
(* What the larger steps change.                                           *)

\* What commit does for one future.
Committed(t, o, e) ==
    /\ saved' \in [All -> {"none", "ok", "error", "marked", "interrupt"}]
    /\ \A u \in All : saved'[u] = IF u = t THEN SavedAs(t, o) ELSE saved[u]
    /\ handledIds' = handledIds \cup (IF Marks(t, o) THEN {e} ELSE {})
    /\ handledIds' \subseteq Ids \cup {NoExc}
    /\ errFuts' \subseteq All

LEMMA CommitOne ==
    ASSUME TInv, NEW t \in All, NEW f, NEW e \in [All -> Ids \cup {NoExc}],
           f[t] \in DoneState, Commit({t}, f, e)
    PROVE  Committed(t, f[t], e[t])
<1>1. /\ saved' \in [All -> {"none", "ok", "error", "marked", "interrupt"}]
      /\ \A u \in All : saved'[u] = IF u \in {t} THEN SavedAs(u, f[u]) ELSE saved[u]
      /\ handledIds' = handledIds \cup {e[u] : u \in {v \in {t} : Marks(v, f[v])}}
      /\ handledIds' \subseteq Ids \cup {NoExc} /\ errFuts' \subseteq All
    <2>1. {t} \in SUBSET All /\ \A u \in {t} : f[u] \in DoneState
        OBVIOUS
    <2> QED
        BY <2>1, CommitFacts
<1>2. {e[u] : u \in {v \in {t} : Marks(v, f[v])}} = IF Marks(t, f[t]) THEN {e[t]} ELSE {}
    OBVIOUS
<1> QED
    BY <1>1, <1>2 DEF Committed

LEMMA OnDoneFacts ==
    ASSUME TInv, LifeInv, NEW t \in All, OnDone(t)
    PROVE  /\ cb[t] = "pending" /\ fut[t] \in DoneState
           /\ Committed(t, fut[t], exc[t])
           /\ cb' = [cb EXCEPT ![t] = IF Mode = "asyncio" THEN "done" ELSE "committed"]
           /\ Mode = "asyncio" => Tally(t, handledIds')
           /\ Mode # "asyncio" => UNCHANGED <<doneSet, counter, event>>
           /\ UNCHANGED <<pc, raised, fut, exc, cancelReq, live, batch, inflight, forStop,
                          handling, drained, waiter, handledFuts, durable, expired, call>>
<1>1. cb[t] = "pending" /\ fut[t] \in DoneState /\ exc \in [All -> Ids \cup {NoExc}]
    BY DEF OnDone, LifeInv, IsDone, TInv
<1>2. Committed(t, fut[t], exc[t])
    <2>1. Commit({t}, fut, exc)
        BY DEF OnDone
    <2> QED
        BY <1>1, <2>1, CommitOne
<1>3. /\ cb' = [cb EXCEPT ![t] = IF Mode = "asyncio" THEN "done" ELSE "committed"]
      /\ Mode = "asyncio" => Tally(t, handledIds')
      /\ Mode # "asyncio" => UNCHANGED <<doneSet, counter, event>>
    BY DEF OnDone
<1>4. UNCHANGED <<pc, raised, fut, exc, cancelReq, live, batch, inflight, forStop,
                  handling, drained, waiter, handledFuts, durable, expired, call>>
    BY DEF OnDone, batchVars
<1> QED
    BY <1>1, <1>2, <1>3, <1>4

LEMMA FastFacts ==
    ASSUME TInv, NEW t \in Tasks, NEW o \in Outcomes, NEW e \in Ids \cup {NoExc}, Fast(t, o, e)
    PROVE  /\ pc = "fast" /\ t \in All /\ t \in call.tasks /\ FreshId(t, o, e)
           /\ fut' = [fut EXCEPT ![t] = o] /\ exc' = [exc EXCEPT ![t] = e]
           /\ cb' = [cb EXCEPT ![t] = "done"] /\ Committed(t, o, e)
           /\ (o = "error" /\ t \in Handled) =>
                    pc' = "batch" /\ batch' = {t} /\ raised' = raised
           /\ ~(o = "error" /\ t \in Handled) =>
                    /\ pc' = IF o = "ok" \/ e \in handledIds THEN "returned" ELSE "raised"
                    /\ raised' = IF pc' = "raised" THEN o ELSE raised
                    /\ batch' = batch
           /\ UNCHANGED <<cancelReq, live, counter, event, doneSet, inflight, forStop,
                          handling, drained, waiter, handledFuts, durable, expired, call>>
<1>1. /\ pc = "fast" /\ t \in All /\ t \in call.tasks /\ FreshId(t, o, e)
      /\ fut' = [fut EXCEPT ![t] = o] /\ exc' = [exc EXCEPT ![t] = e]
      /\ cb' = [cb EXCEPT ![t] = "done"] /\ Commit({t}, fut', exc')
    BY TaskSets DEF Fast
<1>2. fut'[t] = o /\ exc'[t] = e /\ exc' \in [All -> Ids \cup {NoExc}] /\ o \in DoneState
    BY <1>1 DEF TInv, DoneState
<1>3. Committed(t, fut'[t], exc'[t])
    BY <1>1, <1>2, CommitOne
<1>4. /\ (o = "error" /\ t \in Handled) =>
                pc' = "batch" /\ batch' = {t} /\ raised' = raised
      /\ ~(o = "error" /\ t \in Handled) =>
                /\ pc' = IF o = "ok" \/ e \in handledIds THEN "returned" ELSE "raised"
                /\ raised' = IF pc' = "raised" THEN o ELSE raised
                /\ batch' = batch
    BY DEF Fast, ShouldRoute
<1>5. UNCHANGED <<cancelReq, live, counter, event, doneSet, inflight, forStop,
                  handling, drained, waiter, handledFuts, durable, expired, call>>
    BY DEF Fast, dictVars
<1> QED
    BY <1>1, <1>2, <1>3, <1>4, <1>5

\* Futures that the end of tick finds in flight, and those it can still cancel.
Left == {t \in live : ~IsDone(t)}
Cut  == IF Mode = "threads" THEN {t \in Left : fut[t] = "queued"} ELSE {}

LEMMA PanicFacts ==
    ASSUME TInv, NEW x \in Raised \cup {"timeout", "none"}, Panic(x)
    PROVE  /\ pc = "panic" /\ PanicRaises(x) /\ raised' = x
           /\ pc' = IF x = "none" THEN "returned" ELSE "raised"
           /\ cancelReq' = IF Mode = "asyncio" /\ x # "none" THEN Left ELSE {}
           /\ Left \subseteq All /\ Cut \subseteq Left /\ \A t \in Cut : fut[t] = "queued"
           /\ \/ /\ x # "none" /\ Cut # {}
                 /\ fut' = [t \in All |-> IF t \in Cut THEN "cancelled" ELSE fut[t]]
                 /\ cb' = [t \in All |-> IF t \in Cut THEN "done" ELSE cb[t]]
                 /\ saved' \in [All -> {"none", "ok", "error", "marked", "interrupt"}]
                 /\ handledIds \subseteq handledIds' /\ handledIds' \subseteq Ids \cup {NoExc}
                 /\ errFuts' \subseteq All
                 /\ doneSet' = doneSet \cup Cut
                 /\ counter' = counter - Cardinality(Cut)
                 /\ Mode = "threads"
              \/ UNCHANGED <<fut, cb, handledIds, saved, errFuts, doneSet, counter>>
           /\ UNCHANGED <<exc, live, event, batch, inflight, forStop, handling, drained,
                          waiter, handledFuts, durable, expired, call>>
<1> DEFINE futs == [t \in All |-> IF t \in Cut THEN "cancelled" ELSE fut[t]]
<1>1. Left \subseteq All /\ Cut \subseteq Left /\ \A t \in Cut : fut[t] = "queued"
    BY DEF TInv, Left, Cut
<1>2. /\ pc = "panic" /\ PanicRaises(x) /\ raised' = x
      /\ pc' = IF x = "none" THEN "returned" ELSE "raised"
      /\ cancelReq' = IF Mode = "asyncio" /\ x # "none" THEN Left ELSE {}
    BY DEF Panic, Left
<1>3. UNCHANGED <<exc, live, event, batch, inflight, forStop, handling, drained,
                  waiter, handledFuts, durable, expired, call>>
    BY DEF Panic, batchVars
<1>4. IF x # "none" /\ Cut # {}
      THEN /\ fut' = futs
           /\ cb' = [t \in All |-> IF t \in Cut THEN "done" ELSE cb[t]]
           /\ Commit(Cut, futs, exc)
           /\ doneSet' = doneSet \cup Cut
           /\ counter' = counter - Cardinality(Cut)
      ELSE UNCHANGED <<fut, cb, commitVars, doneSet, counter>>
    BY DEF Panic, Cut, Left
<1>5. CASE x # "none" /\ Cut # {}
    <2>1. Cut \in SUBSET All /\ exc \in [All -> Ids \cup {NoExc}]
          /\ \A t \in Cut : futs[t] \in DoneState
        BY <1>1 DEF TInv, DoneState
    <2>2. Commit(Cut, futs, exc)
        BY <1>4, <1>5
    <2>3. Mode = "threads"
        BY <1>5 DEF Cut
    <2> HIDE DEF futs
    <2>4. /\ saved' \in [All -> {"none", "ok", "error", "marked", "interrupt"}]
          /\ handledIds \subseteq handledIds' /\ handledIds' \subseteq Ids \cup {NoExc}
          /\ errFuts' \subseteq All
        BY <2>1, <2>2, CommitFacts
    <2> QED
        BY <1>1, <1>2, <1>3, <1>4, <1>5, <2>3, <2>4 DEF futs
<1>6. CASE ~(x # "none" /\ Cut # {})
    BY <1>1, <1>2, <1>3, <1>4, <1>6 DEF commitVars
<1> QED
    BY <1>5, <1>6

LEMMA PopFacts ==
    ASSUME NEW t \in All, Pop(t)
    PROVE  /\ pc = "batch" /\ t \in batch /\ batch' = batch \ {t} /\ live' = live \ {t}
           /\ Routed(t) =>
                /\ handledIds' = handledIds \cup {exc[t]}
                /\ handledFuts' = handledFuts \cup {t} /\ handling' = {t}
                /\ drained' = errFuts /\ errFuts' = {} /\ pc' = "handler"
                /\ forStop' = forStop
           /\ ~Routed(t) =>
                /\ forStop' = forStop \cup {t}
                /\ UNCHANGED <<pc, handledIds, handledFuts, handling, drained, errFuts>>
           /\ UNCHANGED <<raised, fut, exc, cb, cancelReq, counter, event, doneSet, inflight,
                          saved, waiter, durable, expired, call>>
BY DEF Pop, PopFuture, execVars

\* A handler's task is submitted.
LEMMA ScheduleFacts ==
    ASSUME NEW t \in Handled, ScheduleHandler(t)
    PROVE  /\ pc = "handler" /\ pc' = "batch" /\ t \in handling /\ handling' = {}
           /\ drained' = {} /\ HandlerOf[t] \in All /\ HandlerOf[t] \notin Tasks
           /\ HandlerOf[t] \in HandlerTasks
           /\ fut' = [fut EXCEPT ![HandlerOf[t]] = "queued"]
           /\ live' = live \cup {HandlerOf[t]} /\ event' = FALSE /\ counter' = counter + 1
           /\ UNCHANGED <<raised, exc, cb, cancelReq, doneSet, batch, inflight, forStop,
                          handledIds, saved, errFuts, waiter, handledFuts, durable, expired,
                          call>>
BY TaskSets DEF ScheduleHandler, SetItem, commitVars

-----------------------------------------------------------------------------
(* Types are kept.                                                         *)

LEMMA TypeInit ==
    ASSUME Init
    PROVE  TInv
BY RunnerAssumption DEF Init, TInv, FastPath, Ids

LEMMA TypeNext ==
    ASSUME TInv, LifeInv, [Next]_vars
    PROVE  TInv'
<1> USE DEF execVars, dictVars, batchVars, commitVars
<1>1. ASSUME NEW t \in All, Start(t) \/ FinishCancelled(t) \/ MarkerStored(t)
      PROVE  TInv'
    BY <1>1 DEF Start, FinishCancelled, MarkerStored, TInv, DoneState
<1>2. ASSUME NEW t \in All, NEW o \in Outcomes, NEW e \in Ids \cup {NoExc}, Finish(t, o, e)
      PROVE  TInv'
    BY <1>2 DEF Finish, TInv, DoneState
<1>3. ASSUME NEW t \in All, OnDone(t)
      PROVE  TInv'
    <2>1. doneSet' \subseteq All /\ event' \in BOOLEAN
        <3>1. CASE Mode = "asyncio"
            <4>1. Tally(t, handledIds')
                BY <1>3, <3>1, OnDoneFacts
            <4> QED
                BY <4>1 DEF Tally, TInv
        <3> QED
            BY <1>3, <3>1, OnDoneFacts DEF TInv
    <2>2. cb' \in [All -> {"none", "pending", "committed", "done"}]
        BY <1>3, OnDoneFacts DEF TInv
    <2> QED
        BY <1>3, <2>1, <2>2, OnDoneFacts DEF Committed, TInv
<1>4. ASSUME NEW t \in All, OnDoneFinally(t)
      PROVE  TInv'
    BY <1>4 DEF OnDoneFinally, Tally, TInv
<1>5. ASSUME NEW t \in Tasks, NEW o \in Outcomes, NEW e \in Ids \cup {NoExc}, Fast(t, o, e)
      PROVE  TInv'
    <2>1. /\ fut' \in [All -> {"none", "queued", "running"} \cup DoneState]
          /\ exc' \in [All -> Ids \cup {NoExc}]
          /\ cb' \in [All -> {"none", "pending", "committed", "done"}]
        BY <1>5, FastFacts DEF TInv, DoneState
    <2>2. /\ pc' \in {"batch", "returned", "raised"} /\ batch' \subseteq All
          /\ raised' \in Raised \cup {"timeout", "none"}
        BY <1>5, FastFacts DEF TInv, Outcomes
    <2> QED
        BY <1>5, <2>1, <2>2, FastFacts DEF Committed, TInv
<1>6. ASSUME NEW t \in All, Submit(t)
      PROVE  TInv'
    BY <1>6 DEF Submit, SetItem, TInv
<1>7. ASSUME NEW t \in All, Pop(t)
      PROVE  TInv'
    <2>1. (Routed(t) => t \in Handled) /\ exc[t] \in Ids \cup {NoExc}
        BY DEF Routed, ShouldRoute, TInv
    <2> QED
        BY <1>7, <2>1, PopFacts DEF TInv
<1>8. ASSUME NEW t \in Handled, ScheduleHandler(t)
      PROVE  TInv'
    <2>1. /\ fut' \in [All -> {"none", "queued", "running"} \cup DoneState]
          /\ live' \subseteq All
        <3>1. PICK h \in All : fut' = [fut EXCEPT ![h] = "queued"] /\ live' = live \cup {h}
            BY <1>8, ScheduleFacts
        <3> QED
            BY <3>1 DEF TInv
    <2>2. /\ pc' = "batch" /\ handling' = {} /\ drained' = {} /\ event' = FALSE
          /\ UNCHANGED <<raised, exc, cb, cancelReq, doneSet, batch, inflight, forStop,
                         handledIds, saved, errFuts, waiter, handledFuts, durable, expired,
                         call>>
        BY <1>8, ScheduleFacts
    <2> QED
        BY <2>1, <2>2 DEF TInv
<1>9. CASE Wait \/ LeaveLoop \/ EndBatch \/ AwaitEvent \/ AwaitTimesOut
    BY <1>9 DEF Wait, LeaveLoop, EndBatch, AwaitEvent, AwaitTimesOut, TInv
<1>10. ASSUME NEW x \in Raised \cup {"timeout", "none"}, Panic(x)
       PROVE  TInv'
    <2>1. /\ cancelReq' \subseteq All /\ raised' \in Raised \cup {"timeout", "none"}
          /\ pc' \in {"returned", "raised"} /\ doneSet' \subseteq All
        BY <1>10, PanicFacts DEF TInv
    <2>2. /\ fut' \in [All -> {"none", "queued", "running"} \cup DoneState]
          /\ cb' \in [All -> {"none", "pending", "committed", "done"}]
        BY <1>10, PanicFacts DEF TInv, DoneState
    <2>3. /\ saved' \in [All -> {"none", "ok", "error", "marked", "interrupt"}]
          /\ handledIds' \subseteq Ids \cup {NoExc} /\ errFuts' \subseteq All
        BY <1>10, PanicFacts DEF TInv
    <2> QED
        BY <1>10, <2>1, <2>2, <2>3, PanicFacts DEF TInv
<1>11. CASE WaiterReady \/ Expire \/ Over \/ UNCHANGED vars
    BY <1>11 DEF WaiterReady, Expire, Over, vars, TInv
<1> QED
    BY <1>1, <1>2, <1>3, <1>4, <1>5, <1>6, <1>7, <1>8, <1>9, <1>10, <1>11
       DEF Next, Executor, Main

-----------------------------------------------------------------------------
(* Futures.                                                                *)

LEMMA FreshFacts ==
    ASSUME NEW t \in All, NEW o, NEW e, FreshId(t, o, e)
    PROVE  /\ o = "ok" => e = NoExc
           /\ o # "ok" => e # NoExc /\ \A u \in All : exc[u] # e
BY TaskSets DEF FreshId, Ids

\* A future that ends.
LEMMA EndsLife ==
    ASSUME TInv, LifeInv, NEW t \in All, NEW o \in Outcomes, NEW e, NEW c \in {"pending", "done"},
           FreshId(t, o, e), t \notin cancelReq,
           fut' = [fut EXCEPT ![t] = o], exc' = [exc EXCEPT ![t] = e],
           cb' = [cb EXCEPT ![t] = c], UNCHANGED cancelReq, Going' => Going
    PROVE  LifeInv'
<1>1. /\ fut'[t] = o /\ exc'[t] = e /\ cb'[t] = c
      /\ \A u \in All : u # t => fut'[u] = fut[u] /\ exc'[u] = exc[u] /\ cb'[u] = cb[u]
    BY DEF TInv
<1>2. /\ o = "ok" => e = NoExc
      /\ o # "ok" => e # NoExc /\ \A u \in All : exc[u] # e
    BY FreshFacts
<1>3. o \in DoneState /\ (o \in Raised <=> o # "ok") /\ o # "cancelled" /\ c # "none"
    BY DEF DoneState, Outcomes, Raised
<1>4. \A u \in All : cb'[u] = "none" <=> ~IsDone(u)'
    BY <1>1, <1>3 DEF LifeInv, IsDone
<1>5. \A u \in All : fut'[u] \in Raised <=> exc'[u] # NoExc
    BY <1>1, <1>2, <1>3 DEF LifeInv
<1>6. \A u, v \in All : (exc'[u] = exc'[v] /\ exc'[u] # NoExc) => u = v
    BY <1>1, <1>2 DEF LifeInv
<1>7. /\ \A u \in cancelReq' : fut'[u] \in {"queued", "running"}
      /\ Going' => cancelReq' = {} /\ \A u \in All : fut'[u] # "cancelled"
    BY <1>1, <1>3 DEF LifeInv, TInv
<1> QED
    BY <1>4, <1>5, <1>6, <1>7 DEF LifeInv

\* A step that ends no future.
LEMMA SameLife ==
    ASSUME TInv, LifeInv, UNCHANGED <<exc, cancelReq>>, Going' => Going,
           \A u \in All : fut'[u] = fut[u] \/ (~IsDone(u) /\ fut'[u] \in {"queued", "running"}),
           \A u \in All : cb'[u] = cb[u] \/ (cb[u] # "none" /\ cb'[u] # "none")
    PROVE  LifeInv'
<1>1. \A u \in All : IsDone(u)' = IsDone(u) /\ (fut'[u] \in Raised <=> fut[u] \in Raised)
    BY DEF IsDone, DoneState, Outcomes, Raised
<1>2. \A u \in All : cb'[u] = "none" <=> cb[u] = "none"
    OBVIOUS
<1>3. \A u \in All : fut'[u] = "cancelled" <=> fut[u] = "cancelled"
    BY DEF IsDone, DoneState, Outcomes, Raised
<1>4. \A u \in cancelReq' : fut'[u] \in {"queued", "running"}
    BY DEF LifeInv, TInv
<1> QED
    BY <1>1, <1>2, <1>3, <1>4 DEF LifeInv

LEMMA LifeInit ==
    ASSUME Init
    PROVE  LifeInv
BY DEF Init, LifeInv, IsDone, DoneState, Outcomes, Raised

LEMMA LifeNext ==
    ASSUME TInv, LifeInv, HandlerInv, LoopInv, [Next]_vars
    PROVE  LifeInv'
<1> USE DEF execVars, dictVars, batchVars, commitVars
<1>1. ASSUME NEW t \in All, Start(t) \/ Submit(t)
      PROVE  LifeInv'
    <2>1. UNCHANGED <<exc, cb, cancelReq>> /\ (Going' => Going)
        BY <1>1 DEF Start, Submit, Going
    <2>2. ~IsDone(t)
        BY <1>1 DEF Start, Submit, IsDone, DoneState, Outcomes, Raised
    <2>3. \A u \in All : fut'[u] = fut[u] \/ (u = t /\ fut'[u] \in {"queued", "running"})
        BY <1>1 DEF Start, Submit, SetItem, TInv
    <2> QED
        BY <2>1, <2>2, <2>3, SameLife
<1>2. ASSUME NEW t \in All, NEW o \in Outcomes, NEW e \in Ids \cup {NoExc}, Finish(t, o, e)
      PROVE  LifeInv'
    BY <1>2, EndsLife DEF Finish, Going
<1>3. ASSUME NEW t \in All, FinishCancelled(t)
      PROVE  LifeInv'
    <2>1. /\ t \in cancelReq /\ fut' = [fut EXCEPT ![t] = "cancelled"]
          /\ cb' = [cb EXCEPT ![t] = "pending"] /\ cancelReq' = cancelReq \ {t}
          /\ UNCHANGED <<pc, exc>>
        BY <1>3 DEF FinishCancelled
    <2>2. ~Going /\ ~Going' /\ fut[t] \in {"queued", "running"}
        BY <2>1 DEF LifeInv, Going
    <2>3. /\ fut'[t] = "cancelled" /\ cb'[t] = "pending"
          /\ \A u \in All : u # t => fut'[u] = fut[u] /\ cb'[u] = cb[u]
        BY <2>1 DEF TInv
    <2>4. "cancelled" \in DoneState /\ "cancelled" \notin Raised /\ fut[t] \notin Raised
        BY <2>2 DEF DoneState, Raised
    <2>5. \A u \in All : cb'[u] = "none" <=> ~IsDone(u)'
        BY <2>3, <2>4 DEF LifeInv, IsDone
    <2>6. \A u \in All : fut'[u] \in Raised <=> exc'[u] # NoExc
        BY <2>1, <2>3, <2>4 DEF LifeInv
    <2>7. \A u \in cancelReq' : fut'[u] \in {"queued", "running"}
        BY <2>1, <2>3 DEF LifeInv, TInv
    <2> QED
        BY <2>1, <2>2, <2>5, <2>6, <2>7 DEF LifeInv
<1>4. ASSUME NEW t \in All, OnDone(t)
      PROVE  LifeInv'
    <2>1. \A u \in All : cb'[u] = cb[u] \/ (cb[u] # "none" /\ cb'[u] # "none")
        BY <1>4, OnDoneFacts DEF TInv
    <2> QED
        BY <1>4, <2>1, OnDoneFacts, SameLife DEF Going
<1>5. ASSUME NEW t \in All, OnDoneFinally(t)
      PROVE  LifeInv'
    <2>1. \A u \in All : cb'[u] = cb[u] \/ (cb[u] # "none" /\ cb'[u] # "none")
        BY <1>5 DEF OnDoneFinally, TInv
    <2>2. UNCHANGED <<fut, exc, cancelReq, pc>>
        BY <1>5 DEF OnDoneFinally
    <2> QED
        BY <2>1, <2>2, SameLife DEF Going
<1>6. ASSUME NEW t \in Tasks, NEW o \in Outcomes, NEW e \in Ids \cup {NoExc}, Fast(t, o, e)
      PROVE  LifeInv'
    <2>1. Going /\ cancelReq = {}
        BY <1>6, FastFacts DEF Going, LifeInv
    <2> QED
        BY <1>6, <2>1, FastFacts, EndsLife
<1>7. ASSUME NEW t \in All, Pop(t)
      PROVE  LifeInv'
    <2>1. UNCHANGED <<fut, exc, cb, cancelReq>> /\ Going
        BY <1>7, PopFacts DEF Going
    <2> QED
        BY <2>1, SameLife
<1>8. ASSUME NEW t \in Handled, ScheduleHandler(t)
      PROVE  LifeInv'
    <2>1. PICK h \in All : fut' = [fut EXCEPT ![h] = "queued"] /\ h = HandlerOf[t]
        BY <1>8, ScheduleFacts
    <2>2. UNCHANGED <<exc, cb, cancelReq>> /\ Going /\ t \in handling
        BY <1>8, ScheduleFacts DEF Going
    <2>3. ~IsDone(h)
        BY <2>1, <2>2 DEF HandlerInv, IsDone, DoneState, Outcomes, Raised
    <2>4. \A u \in All : fut'[u] = fut[u] \/ (u = h /\ fut'[u] = "queued")
        BY <2>1 DEF TInv
    <2> QED
        BY <2>2, <2>3, <2>4, SameLife
<1>9. CASE Wait \/ LeaveLoop \/ EndBatch \/ AwaitEvent \/ AwaitTimesOut
    <2>1. UNCHANGED <<fut, exc, cb, cancelReq>> /\ Going
        BY <1>9 DEF Wait, LeaveLoop, EndBatch, AwaitEvent, AwaitTimesOut, Going
    <2> QED
        BY <2>1, SameLife
<1>10. ASSUME NEW x \in Raised \cup {"timeout", "none"}, Panic(x)
       PROVE  LifeInv'
    <2>1. ~Going' /\ Left \subseteq All /\ Cut \subseteq Left /\ UNCHANGED exc
        BY <1>10, PanicFacts DEF Going
    <2>2. \A u \in Left : fut[u] \in {"queued", "running"}
        <3>1. \A u \in Left : fut[u] # "none"
            BY <1>10, PanicFacts DEF LoopInv, PoppedInv, WaiterInv, Left, Going
        <3> QED
            BY <2>1, <3>1 DEF Left, IsDone, TInv
    <2>3. cancelReq' = {} \/ cancelReq' = Left
        BY <1>10, PanicFacts
    <2>4. CASE UNCHANGED <<fut, cb>>
        BY <2>1, <2>2, <2>3, <2>4 DEF LifeInv, IsDone
    <2>5. CASE /\ fut' = [u \in All |-> IF u \in Cut THEN "cancelled" ELSE fut[u]]
               /\ cb' = [u \in All |-> IF u \in Cut THEN "done" ELSE cb[u]]
               /\ Mode = "threads"
        <3>1. \A u \in All : /\ fut'[u] = IF u \in Cut THEN "cancelled" ELSE fut[u]
                             /\ cb'[u] = IF u \in Cut THEN "done" ELSE cb[u]
            BY <2>5
        <3>2. cancelReq' = {}
            BY <1>10, <2>5, PanicFacts
        <3>3. "cancelled" \in DoneState /\ "cancelled" \notin Raised
              /\ \A u \in Cut : fut[u] \notin Raised
            BY <2>1, <2>2 DEF DoneState, Raised
        <3>4. \A u \in All : cb'[u] = "none" <=> ~IsDone(u)'
            BY <3>1, <3>3 DEF LifeInv, IsDone
        <3>5. \A u \in All : fut'[u] \in Raised <=> exc'[u] # NoExc
            BY <2>1, <3>1, <3>3 DEF LifeInv
        <3> QED
            BY <2>1, <3>2, <3>4, <3>5 DEF LifeInv
    <2> QED
        BY <1>10, <2>4, <2>5, PanicFacts
<1>11. CASE WaiterReady \/ Expire \/ Over \/ UNCHANGED vars \/ \E t \in All : MarkerStored(t)
    <2>1. UNCHANGED <<fut, exc, cb, cancelReq, pc>>
        BY <1>11 DEF WaiterReady, Expire, Over, MarkerStored, vars
    <2> QED
        BY <2>1, SameLife DEF Going
<1> QED
    BY <1>1, <1>2, <1>3, <1>4, <1>5, <1>6, <1>7, <1>8, <1>9, <1>10, <1>11
       DEF Next, Executor, Main

-----------------------------------------------------------------------------
(* What no step takes back.                                                *)

\* A future that is done stays as it is; callbacks and records only advance;
\* while tick is under way only failures that have a handler become handled.
Advance ==
    /\ \A t \in All : IsDone(t) => fut'[t] = fut[t] /\ exc'[t] = exc[t]
    /\ \A t \in All : cb[t] = "done" => cb'[t] = "done"
    /\ \A t \in All : cb[t] = "committed" => cb'[t] \in {"committed", "done"}
    /\ doneSet \subseteq doneSet' /\ handledIds \subseteq handledIds' /\ call' = call
    /\ Going' => /\ Going
                 /\ \A i \in handledIds' \ handledIds :
                        \E u \in Handled : fut'[u] = "error" /\ exc'[u] = i

LEMMA Advances ==
    ASSUME TInv, LifeInv, HandlerInv, LoopInv, [Next]_vars
    PROVE  Advance
<1> USE DEF execVars, dictVars, batchVars, commitVars
<1>0. /\ \A t \in All : IsDone(t) => fut[t] \notin {"none", "queued", "running"}
      /\ \A t \in All : IsDone(t) => cb[t] # "none"
    BY DEF IsDone, DoneState, Outcomes, Raised, LifeInv
<1>1. ASSUME NEW t \in All, Start(t) \/ Submit(t)
      PROVE  Advance
    <2>1. \A u \in All : fut'[u] = fut[u] \/ (u = t /\ fut[u] \in {"none", "queued"})
        BY <1>1 DEF Start, Submit, SetItem, TInv
    <2>2. UNCHANGED <<exc, cb, doneSet, handledIds, call>> /\ (Going' => Going)
        BY <1>1 DEF Start, Submit, Going
    <2> QED
        BY <1>0, <2>1, <2>2 DEF Advance
<1>2. ASSUME NEW t \in All, NEW o \in Outcomes, NEW e \in Ids \cup {NoExc}, Finish(t, o, e)
      PROVE  Advance
    <2>1. /\ fut[t] = "running" /\ cb[t] = "none"
          /\ \A u \in All : u # t => fut'[u] = fut[u] /\ exc'[u] = exc[u] /\ cb'[u] = cb[u]
          /\ UNCHANGED <<doneSet, handledIds, call, pc>>
        BY <1>2 DEF Finish, LifeInv, IsDone, DoneState, Outcomes, Raised, TInv
    <2> QED
        BY <1>0, <2>1 DEF Advance, Going
<1>3. ASSUME NEW t \in All, FinishCancelled(t)
      PROVE  Advance
    <2>1. /\ fut[t] \in {"queued", "running"} /\ cb[t] = "none"
          /\ \A u \in All : u # t => fut'[u] = fut[u] /\ cb'[u] = cb[u]
          /\ UNCHANGED <<exc, doneSet, handledIds, call, pc>>
        BY <1>3 DEF FinishCancelled, LifeInv, IsDone, DoneState, Outcomes, Raised, TInv
    <2> QED
        BY <1>0, <2>1 DEF Advance, Going
<1>4. ASSUME NEW t \in All, OnDone(t)
      PROVE  Advance
    <2>1. \A u \in All : cb'[u] = cb[u] \/ (u = t /\ cb[u] = "pending")
        BY <1>4, OnDoneFacts DEF TInv
    <2>2. UNCHANGED <<fut, exc, call, pc>>
        BY <1>4, OnDoneFacts
    <2>3. doneSet \subseteq doneSet'
        BY <1>4, OnDoneFacts DEF Tally
    <2>4. /\ handledIds \subseteq handledIds'
          /\ \A i \in handledIds' \ handledIds : Marks(t, fut[t]) /\ i = exc[t]
        BY <1>4, OnDoneFacts DEF Committed
    <2>5. (Going /\ Marks(t, fut[t])) => t \in Handled /\ fut[t] = "error"
        BY DEF Marks, ShouldRoute, LifeInv
    <2> QED
        BY <2>1, <2>2, <2>3, <2>4, <2>5 DEF Advance, Going
<1>5. ASSUME NEW t \in All, OnDoneFinally(t)
      PROVE  Advance
    <2>1. \A u \in All : cb'[u] = cb[u] \/ (u = t /\ cb[u] = "committed" /\ cb'[u] = "done")
        BY <1>5 DEF OnDoneFinally, TInv
    <2>2. UNCHANGED <<fut, exc, call, pc, handledIds>> /\ doneSet \subseteq doneSet'
        BY <1>5 DEF OnDoneFinally, Tally
    <2> QED
        BY <2>1, <2>2 DEF Advance, Going
<1>6. ASSUME NEW t \in Tasks, NEW o \in Outcomes, NEW e \in Ids \cup {NoExc}, Fast(t, o, e)
      PROVE  Advance
    <2>1. /\ \A u \in All : ~IsDone(u) /\ cb[u] = "none"
          /\ Going
        BY <1>0, <1>6, FastFacts DEF LoopInv, PoppedInv, WaiterInv, LifeInv, Going
    <2>2. /\ handledIds \subseteq handledIds'
          /\ \A i \in handledIds' \ handledIds : Marks(t, o) /\ i = e
          /\ UNCHANGED <<doneSet, call>>
        BY <1>6, FastFacts DEF Committed
    <2>3. Marks(t, o) => t \in Handled /\ o = "error"
        BY DEF Marks, ShouldRoute, Outcomes, Raised
    <2>4. fut'[t] = o /\ exc'[t] = e
        BY <1>6, FastFacts DEF TInv
    <2> QED
        BY <2>1, <2>2, <2>3, <2>4 DEF Advance
<1>7. ASSUME NEW t \in All, Pop(t)
      PROVE  Advance
    <2>1. UNCHANGED <<fut, exc, cb, doneSet, call>> /\ Going
        BY <1>7, PopFacts DEF Going
    <2>2. Routed(t) => t \in Handled /\ fut[t] = "error"
        BY <2>1 DEF Routed, ShouldRoute, LifeInv
    <2>3. /\ handledIds \subseteq handledIds'
          /\ \A i \in handledIds' \ handledIds : Routed(t) /\ i = exc[t]
        BY <1>7, PopFacts
    <2> QED
        BY <2>1, <2>2, <2>3 DEF Advance
<1>8. ASSUME NEW t \in Handled, ScheduleHandler(t)
      PROVE  Advance
    <2>1. PICK h \in All : fut' = [fut EXCEPT ![h] = "queued"] /\ h = HandlerOf[t]
        BY <1>8, ScheduleFacts
    <2>2. UNCHANGED <<exc, cb, doneSet, handledIds, call>> /\ Going /\ fut[h] = "none"
        BY <1>8, <2>1, ScheduleFacts DEF Going, HandlerInv
    <2>3. \A u \in All : u # h => fut'[u] = fut[u]
        BY <2>1 DEF TInv
    <2> QED
        BY <1>0, <2>2, <2>3 DEF Advance
<1>9. CASE Wait \/ LeaveLoop \/ EndBatch \/ AwaitEvent \/ AwaitTimesOut
    <2>1. UNCHANGED <<fut, exc, cb, doneSet, handledIds, call>> /\ Going
        BY <1>9 DEF Wait, LeaveLoop, EndBatch, AwaitEvent, AwaitTimesOut, Going
    <2> QED
        BY <2>1 DEF Advance
<1>10. ASSUME NEW x \in Raised \cup {"timeout", "none"}, Panic(x)
       PROVE  Advance
    <2>1. ~Going' /\ UNCHANGED <<exc, call>> /\ \A u \in Cut : fut[u] = "queued"
        BY <1>10, PanicFacts DEF Going
    <2>2. handledIds \subseteq handledIds' /\ doneSet \subseteq doneSet'
        BY <1>10, PanicFacts
    <2>3. \A u \in All : /\ fut'[u] = fut[u] \/ u \in Cut
                         /\ cb'[u] = cb[u] \/ cb'[u] = "done"
        BY <1>10, PanicFacts
    <2> QED
        BY <1>0, <2>1, <2>2, <2>3 DEF Advance
<1>11. CASE WaiterReady \/ Expire \/ Over \/ UNCHANGED vars \/ \E t \in All : MarkerStored(t)
    <2>1. UNCHANGED <<fut, exc, cb, doneSet, handledIds, call, pc>>
        BY <1>11 DEF WaiterReady, Expire, Over, MarkerStored, vars
    <2> QED
        BY <2>1 DEF Advance, Going
<1> QED
    BY <1>1, <1>2, <1>3, <1>4, <1>5, <1>6, <1>7, <1>8, <1>9, <1>10, <1>11
       DEF Next, Executor, Main

\* What is fatal stays fatal: no two exceptions have the same id.
LEMMA FatalStays ==
    ASSUME TInv, LifeInv, LifeInv', Advance, Going', NEW t \in All, Fatal(t)
    PROVE  Fatal(t)'
<1>1. fut'[t] = "error" /\ exc'[t] = exc[t] /\ exc'[t] # NoExc
    BY DEF Advance, Fatal, IsDone, DoneState, Outcomes, Raised, LifeInv
<1>2. exc'[t] \notin handledIds'
    <2>1. ASSUME exc'[t] \in handledIds'
          PROVE  FALSE
        <3>1. PICK u \in Handled : exc'[u] = exc'[t]
            BY <1>1, <2>1 DEF Advance, Fatal
        <3>2. u = t
            BY <1>1, <3>1, TaskSets DEF LifeInv
        <3> QED
            BY <3>2 DEF Fatal
    <2> QED
        BY <2>1
<1> QED
    BY <1>1, <1>2 DEF Fatal

-----------------------------------------------------------------------------
(* Commit.                                                                 *)

LEMMA CommitInit ==
    ASSUME Init
    PROVE  CommitInv
BY DEF Init, CommitInv

\* A step without callbacks, in which no task with a handler fails.
LEMMA SameCommit ==
    ASSUME TInv, LifeInv, CommitInv, Advance, UNCHANGED <<doneSet, saved>>,
           \A t \in All : cb'[t] = cb[t] \/ cb'[t] = "pending"
    PROVE  CommitInv'
<1>1. ASSUME Going'
      PROVE  handledIds' \subseteq
                EarlierIds \cup {exc'[t] : t \in {u \in Handled : fut'[u] = "error"}}
    BY <1>1, TaskSets DEF CommitInv, Advance, IsDone, DoneState, Outcomes, Raised
<1>2. \A t \in All : cb[t] # "none" => fut'[t] = fut[t] /\ exc'[t] = exc[t]
    BY DEF LifeInv, Advance
<1>3. ASSUME NEW t \in Handled, fut'[t] = "error", cb'[t] \in {"committed", "done"}
      PROVE  exc'[t] \in handledIds'
    BY <1>2, <1>3, TaskSets DEF CommitInv, Advance
<1>4. \A t \in doneSet' : cb'[t] = "done"
    BY DEF CommitInv, Advance, TInv
<1>5. Going' => \A t \in All : (cb'[t] = "done" /\ t \notin doneSet') =>
                    t \in Handled /\ fut'[t] = "error"
    BY <1>2 DEF CommitInv, Advance
<1>6. Mode' = "asyncio" => \A t \in All : saved'[t] = "marked" => fut'[t] = "error"
    BY DEF CommitInv, Advance, Mode, IsDone, DoneState, Outcomes, Raised
<1> QED
    BY <1>1, <1>3, <1>4, <1>5, <1>6 DEF CommitInv

\* Ids that count as handled are of failures with a handler.
LEMMA IdsKept ==
    ASSUME CommitInv, Advance, Going'
    PROVE  handledIds' \subseteq
                EarlierIds \cup {exc'[t] : t \in {u \in Handled : fut'[u] = "error"}}
BY TaskSets DEF CommitInv, Advance, IsDone, DoneState, Outcomes, Raised

LEMMA MarkedFailed ==
    ASSUME NEW t, NEW o \in DoneState, SavedAs(t, o) = "marked"
    PROVE  Marks(t, o)
BY DEF SavedAs, DoneState, Outcomes, Raised

LEMMA CommitNext ==
    ASSUME TInv, LifeInv, CommitInv, HandlerInv, LoopInv, [Next]_vars
    PROVE  CommitInv'
<1> USE DEF execVars, dictVars, batchVars, commitVars
<1>0. Advance
    BY Advances
<1>1. ASSUME NEW t \in All,
             Start(t) \/ Submit(t) \/ FinishCancelled(t) \/ Pop(t) \/ MarkerStored(t)
             \/ \E o \in Outcomes, e \in Ids \cup {NoExc} : Finish(t, o, e)
      PROVE  CommitInv'
    <2>1. UNCHANGED <<doneSet, saved>> /\ \A u \in All : cb'[u] = cb[u] \/ cb'[u] = "pending"
        BY <1>1, PopFacts DEF Start, Submit, FinishCancelled, MarkerStored, Finish, TInv
    <2> QED
        BY <1>0, <2>1, SameCommit
<1>2. ASSUME NEW t \in All, OnDone(t)
      PROVE  CommitInv'
    <2>1. /\ fut[t] \in DoneState /\ Committed(t, fut[t], exc[t])
          /\ \A u \in All : cb'[u] = IF u = t THEN IF Mode = "asyncio" THEN "done"
                                                   ELSE "committed"
                                     ELSE cb[u]
          /\ doneSet' = IF Mode = "asyncio" THEN doneSet \cup {t} ELSE doneSet
          /\ UNCHANGED <<fut, exc, pc, call>>
        BY <1>2, OnDoneFacts DEF TInv, Tally
    <2>2. ASSUME NEW u \in Handled, fut'[u] = "error", cb'[u] \in {"committed", "done"}
          PROVE  exc'[u] \in handledIds'
        <3>1. CASE u = t
            BY <2>1, <2>2, <3>1 DEF Committed, Marks, ShouldRoute
        <3>2. CASE u # t
            BY <1>0, <2>1, <2>2, <3>2, TaskSets DEF CommitInv, Advance
        <3> QED
            BY <3>1, <3>2
    <2>3. \A u \in doneSet' : cb'[u] = "done"
        <3>1. \A u \in doneSet : u \in All /\ cb[u] = "done"
            BY DEF CommitInv, TInv
        <3>2. \A u \in doneSet' : u \in doneSet \/ (u = t /\ Mode = "asyncio")
            BY <2>1
        <3>3. \A u \in All : (cb[u] = "done" \/ (u = t /\ Mode = "asyncio")) => cb'[u] = "done"
            BY <1>0, <2>1 DEF Advance
        <3> QED
            BY <3>1, <3>2, <3>3
    <2>4. Going' => \A u \in All : (cb'[u] = "done" /\ u \notin doneSet') =>
                        u \in Handled /\ fut'[u] = "error"
        BY <2>1 DEF CommitInv, Going
    <2>5. ASSUME Mode' = "asyncio", NEW u \in All, saved'[u] = "marked"
          PROVE  fut'[u] = "error"
        <3>1. Mode = "asyncio"
            BY <2>1, <2>5 DEF Mode
        <3>2. CASE u = t
            <4>1. Marks(t, fut[t])
                BY <2>1, <2>5, <3>2, MarkedFailed DEF Committed
            <4> QED
                BY <2>1, <3>1, <3>2, <4>1 DEF Marks
        <3>3. CASE u # t
            BY <2>1, <2>5, <3>1, <3>3 DEF Committed, CommitInv
        <3> QED
            BY <3>2, <3>3
    <2> QED
        BY <1>0, <2>2, <2>3, <2>4, <2>5, IdsKept DEF CommitInv
<1>3. ASSUME NEW t \in All, OnDoneFinally(t)
      PROVE  CommitInv'
    <2>1. /\ cb[t] = "committed" /\ \A u \in All : cb'[u] = IF u = t THEN "done" ELSE cb[u]
          /\ doneSet' = doneSet \cup {t}
          /\ UNCHANGED <<fut, exc, pc, call, saved, handledIds>>
        BY <1>3 DEF OnDoneFinally, Tally, TInv
    <2>2. ASSUME NEW u \in Handled, fut'[u] = "error", cb'[u] \in {"committed", "done"}
          PROVE  exc'[u] \in handledIds'
        BY <2>1, <2>2, TaskSets DEF CommitInv
    <2>3. \A u \in doneSet' : cb'[u] = "done"
        BY <2>1 DEF CommitInv, TInv
    <2>4. Going' => \A u \in All : (cb'[u] = "done" /\ u \notin doneSet') =>
                        u \in Handled /\ fut'[u] = "error"
        BY <2>1 DEF CommitInv, Going
    <2>5. Mode' = "asyncio" => \A u \in All : saved'[u] = "marked" => fut'[u] = "error"
        BY <2>1 DEF CommitInv, Mode
    <2> QED
        BY <1>0, <2>2, <2>3, <2>4, <2>5, IdsKept DEF CommitInv
<1>4. ASSUME NEW t \in Tasks, NEW o \in Outcomes, NEW e \in Ids \cup {NoExc}, Fast(t, o, e)
      PROVE  CommitInv'
    <2>1. /\ t \in All /\ pc = "fast" /\ o \in DoneState /\ o # "cancelled"
          /\ Committed(t, o, e) /\ UNCHANGED <<doneSet, call>>
          /\ \A u \in All : /\ fut'[u] = IF u = t THEN o ELSE fut[u]
                            /\ exc'[u] = IF u = t THEN e ELSE exc[u]
                            /\ cb'[u] = IF u = t THEN "done" ELSE cb[u]
          /\ (Going' => o = "error" /\ t \in Handled)
        BY <1>4, FastFacts DEF TInv, DoneState, Outcomes, Raised, Going
    <2>2. \A u \in All : fut[u] = "none" /\ cb[u] = "none"
        BY <2>1 DEF LoopInv, PoppedInv, WaiterInv, LifeInv, IsDone, DoneState, Outcomes, Raised
    <2>3. ASSUME NEW u \in Handled, fut'[u] = "error", cb'[u] \in {"committed", "done"}
          PROVE  exc'[u] \in handledIds'
        BY <2>1, <2>2, <2>3, TaskSets DEF Committed, Marks, ShouldRoute
    <2>4. \A u \in doneSet' : cb'[u] = "done"
        BY <2>1 DEF CommitInv, TInv
    <2>5. Going' => \A u \in All : (cb'[u] = "done" /\ u \notin doneSet') =>
                        u \in Handled /\ fut'[u] = "error"
        BY <2>1, <2>2
    <2>6. ASSUME Mode' = "asyncio", NEW u \in All, saved'[u] = "marked"
          PROVE  fut'[u] = "error"
        <3>1. CASE u = t
            <4>1. Marks(t, o)
                BY <2>1, <2>6, <3>1, MarkedFailed DEF Committed
            <4> QED
                BY <2>1, <3>1, <4>1 DEF Marks
        <3>2. CASE u # t
            BY <2>1, <2>2, <2>6, <3>2 DEF Committed, CommitInv, Mode
        <3> QED
            BY <3>1, <3>2
    <2> QED
        BY <1>0, <2>3, <2>4, <2>5, <2>6, IdsKept DEF CommitInv
<1>5. ASSUME NEW t \in Handled, ScheduleHandler(t)
      PROVE  CommitInv'
    BY <1>0, <1>5, ScheduleFacts, SameCommit
<1>6. CASE Wait \/ LeaveLoop \/ EndBatch \/ AwaitEvent \/ AwaitTimesOut
           \/ WaiterReady \/ Expire \/ Over \/ UNCHANGED vars
    <2>1. UNCHANGED <<doneSet, saved, cb>>
        BY <1>6 DEF Wait, LeaveLoop, EndBatch, AwaitEvent, AwaitTimesOut, WaiterReady, Expire,
                    Over, vars
    <2> QED
        BY <1>0, <2>1, SameCommit
<1>7. ASSUME NEW x \in Raised \cup {"timeout", "none"}, Panic(x)
      PROVE  CommitInv'
    <2>1. CASE UNCHANGED <<fut, cb, handledIds, saved, errFuts, doneSet, counter>>
        BY <1>0, <2>1, SameCommit
    <2>2. CASE /\ fut' = [t \in All |-> IF t \in Cut THEN "cancelled" ELSE fut[t]]
               /\ cb' = [t \in All |-> IF t \in Cut THEN "done" ELSE cb[t]]
               /\ doneSet' = doneSet \cup Cut /\ Mode = "threads"
               /\ handledIds \subseteq handledIds'
        <3>1. ~Going' /\ UNCHANGED <<exc, call>> /\ Cut \subseteq All
            BY <1>7, PanicFacts DEF Going
        <3>2. ASSUME NEW u \in Handled, fut'[u] = "error", cb'[u] \in {"committed", "done"}
              PROVE  exc'[u] \in handledIds'
            BY <2>2, <3>1, <3>2, TaskSets DEF CommitInv
        <3>3. \A u \in doneSet' : cb'[u] = "done"
            BY <2>2, <3>1 DEF CommitInv, TInv
        <3> QED
            BY <2>2, <3>1, <3>2, <3>3 DEF CommitInv, Mode
    <2> QED
        BY <1>7, <2>1, <2>2, PanicFacts
<1> QED
    BY <1>1, <1>2, <1>3, <1>4, <1>5, <1>6, <1>7 DEF Next, Executor, Main

-----------------------------------------------------------------------------
(* The counter.                                                            *)

LEMMA CountInit ==
    ASSUME Init
    PROVE  CountInv
<1>1. Open = {} /\ live = {} /\ counter = 0
    BY DEF Init, Open
<1> QED
    BY <1>1, FS_EmptySet DEF CountInv

LEMMA SameCount ==
    ASSUME CountInv, UNCHANGED <<counter, live>>,
           \A t \in All : (fut'[t] # "none" /\ cb'[t] # "done")
                            <=> (fut[t] # "none" /\ cb[t] # "done")
    PROVE  CountInv'
<1>1. Open' = Open
    BY DEF Open
<1> QED
    BY <1>1 DEF CountInv

\* A task is submitted.
LEMMA SubmitCount ==
    ASSUME TInv, LifeInv, CountInv, NEW t \in All, fut[t] = "none",
           fut' = [fut EXCEPT ![t] = "queued"], live' = live \cup {t},
           counter' = counter + 1, UNCHANGED cb
    PROVE  CountInv'
<1>1. cb[t] = "none" /\ t \notin Open
    BY DEF LifeInv, Open, IsDone, DoneState, Outcomes, Raised
<1>2. Open' = Open \cup {t}
    BY <1>1 DEF Open, TInv
<1>3. IsFiniteSet(live') /\ IsFiniteSet(Open') /\ Cardinality(Open') = Cardinality(Open) + 1
    BY <1>1, <1>2, FS_AddElement DEF CountInv
<1> QED
    BY <1>3 DEF CountInv

\* A callback counts its future down.
LEMMA TallyCount ==
    ASSUME TInv, CountInv, NEW t \in All, fut[t] # "none", cb[t] # "done",
           cb' = [cb EXCEPT ![t] = "done"], counter' = counter - 1, UNCHANGED <<fut, live>>
    PROVE  CountInv'
<1>1. t \in Open /\ Open' = Open \ {t}
    BY DEF Open, TInv
<1>2. IsFiniteSet(Open') /\ Cardinality(Open') = Cardinality(Open) - 1
    BY <1>1, FS_RemoveElement DEF CountInv
<1> QED
    BY <1>2 DEF CountInv

LEMMA CountNext ==
    ASSUME TInv, LifeInv, CountInv, HandlerInv, LoopInv, [Next]_vars
    PROVE  CountInv'
<1> USE DEF execVars, dictVars, batchVars, commitVars
<1>0. \A t \in All : fut[t] \in {"none", "queued", "running"} <=> cb[t] = "none"
    BY DEF LifeInv, IsDone, DoneState, Outcomes, Raised, TInv
<1>1. ASSUME NEW t \in All, Start(t)
      PROVE  CountInv'
    BY <1>1, SameCount DEF Start, TInv
<1>2. ASSUME NEW t \in All, FinishCancelled(t)
             \/ \E o \in Outcomes, e \in Ids \cup {NoExc} : Finish(t, o, e)
      PROVE  CountInv'
    <2>1. fut[t] \in {"queued", "running"} /\ fut'[t] # "none" /\ cb'[t] = "pending"
        BY <1>2 DEF Finish, FinishCancelled, LifeInv, TInv, Outcomes, Raised
    <2>2. /\ \A u \in All : u # t => fut'[u] = fut[u] /\ cb'[u] = cb[u]
          /\ UNCHANGED <<counter, live>>
        BY <1>2 DEF Finish, FinishCancelled, TInv
    <2> QED
        BY <1>0, <2>1, <2>2, SameCount
<1>3. ASSUME NEW t \in All, OnDone(t)
      PROVE  CountInv'
    <2>1. cb[t] = "pending" /\ fut[t] # "none" /\ UNCHANGED <<fut, live>>
        BY <1>3, OnDoneFacts DEF DoneState, Outcomes, Raised
    <2>2. CASE Mode = "asyncio"
        <3>1. cb' = [cb EXCEPT ![t] = "done"] /\ counter' = counter - 1
            BY <1>3, <2>2, OnDoneFacts DEF Tally
        <3> QED
            BY <2>1, <3>1, TallyCount
    <2>3. CASE Mode # "asyncio"
        <3>1. cb' = [cb EXCEPT ![t] = "committed"] /\ counter' = counter
            BY <1>3, <2>3, OnDoneFacts
        <3> QED
            BY <2>1, <3>1, SameCount DEF TInv
    <2> QED
        BY <2>2, <2>3
<1>4. ASSUME NEW t \in All, OnDoneFinally(t)
      PROVE  CountInv'
    BY <1>0, <1>4, TallyCount DEF OnDoneFinally, Tally
<1>5. ASSUME NEW t \in Tasks, NEW o \in Outcomes, NEW e \in Ids \cup {NoExc}, Fast(t, o, e)
      PROVE  CountInv'
    <2>1. /\ pc = "fast" /\ t \in All /\ UNCHANGED <<counter, live>>
          /\ \A u \in All : u # t => fut'[u] = fut[u] /\ cb'[u] = cb[u]
          /\ cb'[t] = "done"
        BY <1>5, FastFacts DEF TInv
    <2>2. fut[t] = "none"
        BY <2>1 DEF LoopInv, PoppedInv, WaiterInv
    <2> QED
        BY <2>1, <2>2, SameCount
<1>6. ASSUME NEW t \in All, Submit(t)
      PROVE  CountInv'
    BY <1>6, SubmitCount DEF Submit, SetItem
<1>7. ASSUME NEW t \in Handled, ScheduleHandler(t)
      PROVE  CountInv'
    <2>1. PICK h \in All : h = HandlerOf[t]
        BY <1>7, ScheduleFacts
    <2>2. fut[h] = "none"
        BY <1>7, <2>1, ScheduleFacts DEF HandlerInv
    <2> QED
        BY <1>7, <2>1, <2>2, ScheduleFacts, SubmitCount
<1>8. ASSUME NEW t \in All, Pop(t)
      PROVE  CountInv'
    <2>1. IsFiniteSet(live')
        BY <1>8, PopFacts, FS_RemoveElement DEF CountInv
    <2>2. Open' = Open /\ counter' = counter
        BY <1>8, PopFacts DEF Open
    <2> QED
        BY <2>1, <2>2 DEF CountInv
<1>9. CASE Wait \/ LeaveLoop \/ EndBatch \/ AwaitEvent \/ AwaitTimesOut \/ WaiterReady
           \/ Expire \/ Over \/ UNCHANGED vars \/ \E t \in All : MarkerStored(t)
    <2>1. UNCHANGED <<fut, cb, counter, live>>
        BY <1>9 DEF Wait, LeaveLoop, EndBatch, AwaitEvent, AwaitTimesOut, WaiterReady, Expire,
                    Over, MarkerStored, vars
    <2> QED
        BY <2>1, SameCount
<1>10. ASSUME NEW x \in Raised \cup {"timeout", "none"}, Panic(x)
       PROVE  CountInv'
    <2>1. CASE UNCHANGED <<fut, cb, handledIds, saved, errFuts, doneSet, counter>>
        BY <1>10, <2>1, PanicFacts, SameCount
    <2>2. CASE /\ fut' = [t \in All |-> IF t \in Cut THEN "cancelled" ELSE fut[t]]
               /\ cb' = [t \in All |-> IF t \in Cut THEN "done" ELSE cb[t]]
               /\ counter' = counter - Cardinality(Cut)
        <3>1. live' = live /\ Cut \subseteq All /\ \A t \in Cut : fut[t] = "queued"
            BY <1>10, PanicFacts
        <3>2. Cut \subseteq Open /\ Open' = Open \ Cut
            BY <1>0, <2>2, <3>1 DEF Open
        <3>3. Open \cap Cut = Cut
            BY <3>2
        <3>4. IsFiniteSet(Open') /\ Cardinality(Open') = Cardinality(Open) - Cardinality(Cut)
            BY <3>2, <3>3, FS_Difference DEF CountInv
        <3> QED
            BY <2>2, <3>1, <3>4 DEF CountInv
    <2> QED
        BY <1>10, <2>1, <2>2, PanicFacts
<1> QED
    BY <1>1, <1>2, <1>3, <1>4, <1>5, <1>6, <1>7, <1>8, <1>9, <1>10 DEF Next, Executor, Main

-----------------------------------------------------------------------------
(* The event.                                                              *)

\* Nothing is counted when the counter is zero.
LEMMA ZeroOpen ==
    ASSUME CountInv, counter = 0
    PROVE  \A t \in All : fut[t] # "none" => cb[t] = "done"
<1>1. Open = {}
    BY FS_EmptySet DEF CountInv
<1> QED
    BY <1>1 DEF Open

\* A callback that sets the event is the last, or has seen a fatal failure.
LEMMA TallyEvent ==
    ASSUME TInv, TInv', LifeInv, LifeInv', CommitInv', CountInv, EventInv, Advance,
           NEW t \in All, fut[t] # "none", cb[t] # "done", Tally(t, handledIds'),
           UNCHANGED <<fut, exc, handledFuts>>
    PROVE  EventInv'
<1>1. ASSUME Going', event
      PROVE  \E u \in doneSet' : Fatal(u)'
    <2>1. counter # 0
        BY ZeroOpen
    <2>2. PICK u \in doneSet : Fatal(u)
        BY <1>1, <2>1 DEF EventInv, Advance
    <2>3. u \in All /\ u \in doneSet'
        BY DEF TInv, Advance
    <2> QED
        BY <1>1, <2>2, <2>3, FatalStays
<1>2. ASSUME ShouldStop(doneSet', handledIds')
      PROVE  \E u \in doneSet' : Fatal(u)'
    <2>1. PICK u \in doneSet' : fut[u] = "error" /\ exc[u] \notin handledIds'
        BY <1>2 DEF ShouldStop
    <2>2. fut'[u] = "error" /\ exc'[u] \notin handledIds' /\ cb'[u] = "done"
        BY <2>1 DEF CommitInv
    <2>3. u \notin Handled
        BY <2>2 DEF CommitInv
    <2> QED
        BY <2>2, <2>3 DEF Fatal
<1>3. event' => event \/ counter' = 0 \/ ShouldStop(doneSet', handledIds')
    BY DEF Tally
<1> QED
    BY <1>1, <1>2, <1>3 DEF EventInv

LEMMA SameEvent ==
    ASSUME TInv, LifeInv, LifeInv', EventInv, Advance,
           ~event' \/ UNCHANGED <<event, counter>>
    PROVE  EventInv'
<1>1. ASSUME Going', event, event', counter' = counter
      PROVE  counter' = 0 \/ \E t \in doneSet' : Fatal(t)'
    <2>1. counter = 0 \/ \E t \in doneSet : Fatal(t)
        BY <1>1 DEF EventInv, Advance
    <2>2. ASSUME NEW t \in doneSet, Fatal(t)
          PROVE  t \in doneSet' /\ Fatal(t)'
        <3>1. t \in All /\ t \in doneSet'
            BY DEF TInv, Advance
        <3> QED
            BY <1>1, <2>2, <3>1, FatalStays
    <2> QED
        BY <1>1, <2>1, <2>2
<1> QED
    BY <1>1 DEF EventInv

LEMMA EventInit ==
    ASSUME Init
    PROVE  EventInv
BY DEF Init, EventInv

LEMMA EventNext ==
    ASSUME TInv, TInv', LifeInv, LifeInv', CommitInv', CountInv, EventInv, HandlerInv, LoopInv,
           [Next]_vars
    PROVE  EventInv'
<1> USE DEF execVars, dictVars, batchVars, commitVars
<1>0. Advance
    BY Advances
<1>1. ASSUME NEW t \in All, Submit(t)
      PROVE  EventInv'
    BY <1>0, <1>1, SameEvent DEF Submit, SetItem
<1>2. ASSUME NEW t \in Handled, ScheduleHandler(t)
      PROVE  EventInv'
    BY <1>0, <1>2, ScheduleFacts, SameEvent
<1>3. ASSUME NEW t \in All, OnDone(t)
      PROVE  EventInv'
    <2>1. CASE Mode = "asyncio"
        <3>1. /\ cb[t] # "done" /\ fut[t] # "none" /\ Tally(t, handledIds')
              /\ UNCHANGED <<fut, exc, handledFuts>>
            BY <1>3, <2>1, OnDoneFacts DEF DoneState, Outcomes, Raised
        <3> QED
            BY <1>0, <3>1, TallyEvent
    <2>2. CASE Mode # "asyncio"
        BY <1>0, <1>3, <2>2, OnDoneFacts, SameEvent
    <2> QED
        BY <2>1, <2>2
<1>4. ASSUME NEW t \in All, OnDoneFinally(t)
      PROVE  EventInv'
    <2>1. /\ cb[t] # "done" /\ fut[t] # "none" /\ Tally(t, handledIds')
          /\ UNCHANGED <<fut, exc, handledFuts>>
        BY <1>4 DEF OnDoneFinally, LifeInv, IsDone, DoneState, Outcomes, Raised
    <2> QED
        BY <1>0, <2>1, TallyEvent
<1>5. ASSUME NEW t \in All,
             Start(t) \/ FinishCancelled(t) \/ Pop(t) \/ MarkerStored(t)
             \/ \E o \in Outcomes, e \in Ids \cup {NoExc} : Finish(t, o, e)
      PROVE  EventInv'
    <2>1. UNCHANGED <<event, counter>>
        BY <1>5, PopFacts DEF Start, FinishCancelled, MarkerStored, Finish
    <2> QED
        BY <1>0, <2>1, SameEvent
<1>6. ASSUME NEW t \in Tasks, NEW o \in Outcomes, NEW e \in Ids \cup {NoExc}, Fast(t, o, e)
      PROVE  EventInv'
    BY <1>0, <1>6, FastFacts, SameEvent
<1>7. CASE Wait \/ LeaveLoop \/ EndBatch \/ AwaitEvent \/ AwaitTimesOut
           \/ WaiterReady \/ Expire \/ Over \/ UNCHANGED vars
    <2>1. UNCHANGED <<event, counter>>
        BY <1>7 DEF Wait, LeaveLoop, EndBatch, AwaitEvent, AwaitTimesOut, WaiterReady, Expire,
                    Over, vars
    <2> QED
        BY <1>0, <2>1, SameEvent
<1>8. ASSUME NEW x \in Raised \cup {"timeout", "none"}, Panic(x)
      PROVE  EventInv'
    BY <1>8, PanicFacts DEF EventInv, Going
<1> QED
    BY <1>1, <1>2, <1>3, <1>4, <1>5, <1>6, <1>7, <1>8 DEF Next, Executor, Main

-----------------------------------------------------------------------------
(* Handlers.                                                               *)

\* Submitted futures stay submitted; who submits is known.
Submitting ==
    /\ \A u \in All : fut[u] # "none" => fut'[u] # "none"
    /\ \A u \in All : (fut[u] = "none" /\ fut'[u] # "none") =>
            \/ Submit(u) /\ u \in Tasks
            \/ pc = "fast" /\ u \in Tasks
            \/ \E t \in Handled : ScheduleHandler(t) /\ u = HandlerOf[t]

LEMMA Submits ==
    ASSUME TInv, LifeInv, [Next]_vars
    PROVE  Submitting
<1> USE DEF execVars, dictVars, batchVars, commitVars
<1>1. ASSUME NEW t \in All, Start(t) \/ FinishCancelled(t)
             \/ \E o \in Outcomes, e \in Ids \cup {NoExc} : Finish(t, o, e)
      PROVE  Submitting
    <2>1. /\ fut[t] # "none" /\ fut'[t] # "none"
          /\ \A u \in All : u # t => fut'[u] = fut[u]
        BY <1>1 DEF Start, FinishCancelled, Finish, LifeInv, TInv, Outcomes, Raised
    <2> QED
        BY <2>1 DEF Submitting
<1>2. ASSUME NEW t \in All, Submit(t)
      PROVE  Submitting
    <2>1. /\ fut'[t] # "none" /\ t \in Tasks
          /\ \A u \in All : u # t => fut'[u] = fut[u]
        BY <1>2 DEF Submit, SetItem, TInv
    <2> QED
        BY <1>2, <2>1 DEF Submitting
<1>3. ASSUME NEW t \in Handled, ScheduleHandler(t)
      PROVE  Submitting
    <2>1. PICK h \in All : fut' = [fut EXCEPT ![h] = "queued"] /\ h = HandlerOf[t]
        BY <1>3, ScheduleFacts
    <2>2. fut'[h] # "none" /\ \A u \in All : u # h => fut'[u] = fut[u]
        BY <2>1 DEF TInv
    <2> QED
        BY <1>3, <2>1, <2>2 DEF Submitting
<1>4. ASSUME NEW t \in Tasks, NEW o \in Outcomes, NEW e \in Ids \cup {NoExc}, Fast(t, o, e)
      PROVE  Submitting
    <2>1. /\ fut'[t] # "none" /\ t \in Tasks /\ pc = "fast"
          /\ \A u \in All : u # t => fut'[u] = fut[u]
        BY <1>4, FastFacts DEF TInv, Outcomes, Raised
    <2> QED
        BY <2>1 DEF Submitting
<1>5. ASSUME NEW x \in Raised \cup {"timeout", "none"}, Panic(x)
      PROVE  Submitting
    <2>1. \A u \in All : fut'[u] = fut[u] \/ (u \in Cut /\ fut'[u] = "cancelled")
        BY <1>5, PanicFacts
    <2>2. \A u \in Cut : fut[u] # "none"
        BY <1>5, PanicFacts
    <2> QED
        BY <2>1, <2>2 DEF Submitting
<1>6. ASSUME NEW t \in All, OnDone(t) \/ OnDoneFinally(t) \/ Pop(t) \/ MarkerStored(t)
      PROVE  Submitting
    <2>1. fut' = fut
        BY <1>6, OnDoneFacts, PopFacts DEF OnDoneFinally, MarkerStored
    <2> QED
        BY <2>1 DEF Submitting
<1>7. CASE Wait \/ LeaveLoop \/ EndBatch \/ AwaitEvent \/ AwaitTimesOut
           \/ WaiterReady \/ Expire \/ Over \/ UNCHANGED vars
    <2>1. fut' = fut
        BY <1>7 DEF Wait, LeaveLoop, EndBatch, AwaitEvent, AwaitTimesOut, WaiterReady, Expire,
                    Over, vars
    <2> QED
        BY <2>1 DEF Submitting
<1> QED
    BY <1>1, <1>2, <1>3, <1>4, <1>5, <1>6, <1>7 DEF Next, Executor, Main

\* The futures of handlers are unchanged but for what the executor does.
LEMMA SameHandlers ==
    ASSUME TInv, LifeInv, HandlerInv, Advance, UNCHANGED <<handling, handledFuts>>,
           pc # "handler" => pc' # "handler", handling # {} => pc' = pc,
           \A t \in Handled : fut'[HandlerOf[t]] = "none" <=> fut[HandlerOf[t]] = "none",
           (live' \cup batch') \cap handledFuts = {}
    PROVE  HandlerInv'
<1>1. \A t \in handledFuts : fut'[t] = "error"
    BY TaskSets DEF HandlerInv, Advance, IsDone, DoneState, Outcomes, Raised
<1> QED
    BY <1>1 DEF HandlerInv

LEMMA HandlerInit ==
    ASSUME Init
    PROVE  HandlerInv
BY TaskSets DEF Init, HandlerInv

LEMMA HandlerNext ==
    ASSUME TInv, LifeInv, HandlerInv, LoopInv, [Next]_vars
    PROVE  HandlerInv'
<1> USE DEF execVars, dictVars, batchVars, commitVars
<1>0. Advance /\ Submitting
    BY Advances, Submits
<1>1. \A t \in handledFuts : fut[t] = "error" /\ t \in Handled /\ t \in Tasks
    BY TaskSets DEF HandlerInv
<1>2. \A t \in Handled : HandlerOf[t] \in All /\ HandlerOf[t] \notin Tasks
    BY TaskSets
<1>3. ASSUME NEW t \in All, Submit(t)
      PROVE  HandlerInv'
    <2>1. /\ t \in Tasks /\ pc = "submit" /\ pc' # "handler" /\ fut[t] = "none"
          /\ fut' = [fut EXCEPT ![t] = "queued"] /\ live' = live \cup {t} /\ batch' = batch
          /\ UNCHANGED <<handling, handledFuts>>
        BY <1>3 DEF Submit, SetItem, TInv
    <2>2. t \notin handledFuts
        BY <1>1, <2>1
    <2>3. \A u \in Handled : fut'[HandlerOf[u]] = fut[HandlerOf[u]]
        BY <1>2, <2>1 DEF TInv
    <2>4. handling = {} /\ (live' \cup batch') \cap handledFuts = {}
        BY <2>1, <2>2 DEF HandlerInv
    <2> QED
        BY <1>0, <2>1, <2>3, <2>4, SameHandlers
<1>4. ASSUME NEW t \in Tasks, NEW o \in Outcomes, NEW e \in Ids \cup {NoExc}, Fast(t, o, e)
      PROVE  HandlerInv'
    <2>1. /\ pc = "fast" /\ pc' # "handler" /\ t \in All
          /\ fut' = [fut EXCEPT ![t] = o] /\ live' = live /\ (batch' = batch \/ batch' = {t})
          /\ UNCHANGED <<handling, handledFuts>>
        BY <1>4, FastFacts
    <2>2. fut[t] = "none"
        BY <2>1 DEF LoopInv, PoppedInv, WaiterInv
    <2>3. t \notin handledFuts
        BY <1>1, <2>2
    <2>4. \A u \in Handled : fut'[HandlerOf[u]] = fut[HandlerOf[u]]
        BY <1>2, <2>1 DEF TInv
    <2>5. handling = {} /\ (live' \cup batch') \cap handledFuts = {}
        BY <2>1, <2>3 DEF HandlerInv
    <2> QED
        BY <1>0, <2>1, <2>4, <2>5, SameHandlers
<1>5. ASSUME NEW t \in All, Pop(t)
      PROVE  HandlerInv'
    <2>1. /\ pc = "batch" /\ t \in batch /\ batch' = batch \ {t} /\ live' = live \ {t}
          /\ fut' = fut
        BY <1>5, PopFacts
    <2>2. CASE Routed(t)
        <3>1. /\ handledFuts' = handledFuts \cup {t} /\ handling' = {t} /\ pc' = "handler"
            BY <1>5, <2>2, PopFacts
        <3>2. t \in Handled /\ fut[t] = "error"
            BY <2>1, <2>2 DEF Routed, ShouldRoute, LifeInv, Going
        <3>3. handling = {} /\ t \notin handledFuts
            BY <2>1 DEF HandlerInv
        <3>4. fut[HandlerOf[t]] = "none"
            BY <3>2, <3>3 DEF HandlerInv
        <3>5. \A u \in handledFuts' : /\ u \in Handled /\ fut'[u] = "error"
                                      /\ u \in handling' <=> fut'[HandlerOf[u]] = "none"
            BY <2>1, <3>1, <3>2, <3>3, <3>4 DEF HandlerInv
        <3>6. \A u \in Handled : fut'[HandlerOf[u]] # "none" => u \in handledFuts'
            BY <2>1, <3>1 DEF HandlerInv
        <3>7. (live' \cup batch') \cap handledFuts' = {}
            BY <2>1, <3>1 DEF HandlerInv
        <3>8. /\ pc' # "handler" => handling' = {}
              /\ \A u, v \in handling' : u = v
              /\ handling' \subseteq handledFuts'
            BY <3>1
        <3> QED
            BY <3>5, <3>6, <3>7, <3>8 DEF HandlerInv
    <2>3. CASE ~Routed(t)
        <3>1. UNCHANGED <<pc, handling, handledFuts>>
            BY <1>5, <2>3, PopFacts
        <3>2. (live' \cup batch') \cap handledFuts = {}
            BY <2>1 DEF HandlerInv
        <3> QED
            BY <1>0, <2>1, <3>1, <3>2, SameHandlers
    <2> QED
        BY <2>2, <2>3
<1>6. ASSUME NEW t \in Handled, ScheduleHandler(t)
      PROVE  HandlerInv'
    <2>1. PICK h \in All : /\ fut' = [fut EXCEPT ![h] = "queued"] /\ h = HandlerOf[t]
                           /\ h \notin Tasks /\ live' = live \cup {h}
        BY <1>6, ScheduleFacts
    <2>2. /\ t \in handling /\ handling' = {} /\ UNCHANGED <<handledFuts, batch>>
          /\ pc' = "batch"
        BY <1>6, ScheduleFacts
    <2>3. \A u \in handling : u = t
        BY <2>2 DEF HandlerInv
    <2>4. \A u \in Handled : fut'[HandlerOf[u]] = IF u = t THEN "queued" ELSE fut[HandlerOf[u]]
        BY <1>2, <2>1, TaskSets DEF TInv
    <2>5. \A u \in handledFuts : fut'[u] = "error"
        BY <1>1, <2>1, TaskSets DEF TInv
    <2>6. \A u \in handledFuts : fut'[HandlerOf[u]] # "none"
        BY <1>1, <2>3, <2>4 DEF HandlerInv
    <2>7. \A u \in Handled : fut'[HandlerOf[u]] # "none" => u \in handledFuts
        BY <2>2, <2>4 DEF HandlerInv
    <2>8. (live' \cup batch') \cap handledFuts = {}
        BY <1>1, <2>1, <2>2 DEF HandlerInv
    <2> QED
        BY <1>1, <2>2, <2>5, <2>6, <2>7, <2>8 DEF HandlerInv
<1>8. ASSUME NEW t \in All,
             Start(t) \/ FinishCancelled(t) \/ OnDone(t) \/ OnDoneFinally(t) \/ MarkerStored(t)
             \/ \E o \in Outcomes, e \in Ids \cup {NoExc} : Finish(t, o, e)
      PROVE  HandlerInv'
    <2>1. UNCHANGED <<handling, handledFuts, pc, live, batch>>
        BY <1>8, OnDoneFacts DEF Start, FinishCancelled, OnDoneFinally, MarkerStored, Finish
    <2>2. \A u \in All : fut'[u] = "none" <=> fut[u] = "none"
        <3>1. fut[t] = "none" => fut'[t] = "none"
            BY <1>8, OnDoneFacts DEF Start, FinishCancelled, OnDoneFinally, MarkerStored, Finish,
                    LifeInv
        <3>2. \A u \in All : u # t => fut'[u] = fut[u]
            BY <1>8, OnDoneFacts DEF Start, FinishCancelled, OnDoneFinally, MarkerStored, Finish,
                    TInv
        <3> QED
            BY <1>0, <3>1, <3>2 DEF Submitting
    <2>3. (live' \cup batch') \cap handledFuts = {}
        BY <2>1 DEF HandlerInv
    <2> QED
        BY <1>0, <1>2, <2>1, <2>2, <2>3, SameHandlers
<1>9. CASE Wait \/ LeaveLoop \/ EndBatch \/ AwaitEvent \/ AwaitTimesOut
           \/ WaiterReady \/ Expire \/ Over \/ UNCHANGED vars
    <2>1. /\ UNCHANGED <<handling, handledFuts, live, fut>>
          /\ pc' = pc \/ (pc # "handler" /\ pc' # "handler")
        BY <1>9 DEF Wait, LeaveLoop, EndBatch, AwaitEvent, AwaitTimesOut, WaiterReady, Expire,
                    Over, vars
    <2>2. batch' = batch \/ batch' \subseteq live
        BY <1>9 DEF Wait, LeaveLoop, EndBatch, AwaitEvent, AwaitTimesOut, WaiterReady, Expire,
                    Over, vars
    <2>3. (live' \cup batch') \cap handledFuts = {}
        BY <2>1, <2>2 DEF HandlerInv
    <2>4. handling # {} => pc = "handler"
        BY DEF HandlerInv
    <2> QED
        BY <1>0, <2>1, <2>3, <2>4, SameHandlers
<1>10. ASSUME NEW x \in Raised \cup {"timeout", "none"}, Panic(x)
       PROVE  HandlerInv'
    <2>1. /\ pc = "panic" /\ pc' # "handler" /\ UNCHANGED <<handling, handledFuts, live, batch>>
          /\ \A u \in All : fut'[u] = fut[u] \/ (fut[u] = "queued" /\ fut'[u] = "cancelled")
        BY <1>10, PanicFacts
    <2>2. handling = {} /\ (live' \cup batch') \cap handledFuts = {}
        BY <2>1 DEF HandlerInv
    <2>3. \A t \in Handled : fut'[HandlerOf[t]] = "none" <=> fut[HandlerOf[t]] = "none"
        BY <1>2, <2>1
    <2> QED
        BY <1>0, <2>1, <2>2, <2>3, SameHandlers
<1> QED
    BY <1>3, <1>4, <1>5, <1>6, <1>8, <1>9, <1>10 DEF Next, Executor, Main

-----------------------------------------------------------------------------
(* The loop.                                                               *)

LEMMA LoopInit ==
    ASSUME Init
    PROVE  LoopInv
<1>1. /\ pc \in {"fast", "submit"} /\ live = {} /\ batch = {} /\ forStop = {} /\ ~expired
      /\ call.waiter => waiter # "none"
      /\ \A t \in All : fut[t] = "none"
    BY DEF Init
<1> QED
    BY <1>1, TaskSets DEF LoopInv, PoppedInv, WaiterInv, LeaveInv

\* The executor and the callbacks leave the dictionary and the batch alone.
Outside ==
    /\ UNCHANGED <<pc, live, batch, forStop, waiter, handledFuts, expired, call>>
    /\ \A u \in All : fut'[u] = "none" <=> fut[u] = "none"
    /\ \A u \in All : fut'[u] = "queued" => fut[u] = "queued"
    /\ \A u \in All : fut'[u] = "running" => fut[u] \in {"queued", "running"}
    /\ \A u \in All : fut[u] \in {"none", "queued", "running"} \/ fut'[u] = fut[u]

LEMMA ExecutorOutside ==
    ASSUME TInv, LifeInv, NEW t \in All,
           Start(t) \/ FinishCancelled(t) \/ OnDone(t) \/ OnDoneFinally(t) \/ MarkerStored(t)
           \/ \E o \in Outcomes, e \in Ids \cup {NoExc} : Finish(t, o, e)
    PROVE  Outside
<1> USE DEF execVars, dictVars, batchVars, commitVars
<1>1. UNCHANGED <<pc, live, batch, forStop, waiter, handledFuts, expired, call>>
    BY OnDoneFacts DEF Start, FinishCancelled, OnDoneFinally, MarkerStored, Finish
<1>2. CASE fut' = fut
    BY <1>1, <1>2 DEF Outside
<1>3. CASE Start(t) \/ FinishCancelled(t)
           \/ \E o \in Outcomes, e \in Ids \cup {NoExc} : Finish(t, o, e)
    <2>1. /\ fut[t] \in {"queued", "running"} /\ fut'[t] \notin {"none", "queued"}
          /\ \A u \in All : u # t => fut'[u] = fut[u]
        BY <1>3 DEF Start, FinishCancelled, Finish, LifeInv, TInv, Outcomes, Raised
    <2> QED
        BY <1>1, <2>1 DEF Outside
<1> QED
    BY <1>2, <1>3, OnDoneFacts DEF OnDoneFinally, MarkerStored

LEMMA ExecutorLoop ==
    ASSUME TInv, LifeInv, LifeInv', LoopInv, Advance, Outside, event => event' \/ ~Going'
    PROVE  LoopInv'
<1>1. PoppedInv'
    <2>0. \A u \in All : IsDone(u) <=> fut[u] \notin {"none", "queued", "running"}
        BY DEF IsDone, DoneState, Outcomes, Raised, TInv
    <2>1. \A u \in All : IsDone(u) => IsDone(u)' /\ fut'[u] = fut[u]
        BY DEF Advance, IsDone
    <2>2. SUFFICES ASSUME Going'
                   PROVE  /\ pc \notin {"batch", "handler"} => batch = {}
                          /\ \A t \in batch : IsDone(t)'
                          /\ \A t \in live : fut'[t] # "none"
                          /\ \A t \in forStop :
                                IsDone(t)' /\ (t \notin Handled \/ fut'[t] # "error")
                          /\ \A t \in Tasks \ (live \cup batch) :
                                (t \in Handled /\ fut'[t] = "error") => t \in handledFuts
                          /\ \A t \in Tasks \ (live \cup batch) :
                                fut'[t] = "none" \/ IsDone(t)'
        BY DEF PoppedInv, Outside
    <2>3. Going /\ PoppedInv
        BY <2>2 DEF LoopInv, Advance
    <2>4. ASSUME NEW t \in Tasks \ (live \cup batch)
          PROVE  fut'[t] = fut[t]
        BY <2>0, <2>3, TaskSets DEF PoppedInv, Outside, TInv
    <2> QED
        BY <2>1, <2>3, <2>4, TaskSets DEF PoppedInv, Outside, TInv, IsDone
<1>2. WaiterInv'
    BY DEF LoopInv, WaiterInv, Outside, Going, HasTimeout
<1>3. LeaveInv'
    <2>1. ASSUME Going', Settled
          PROVE  Settled'
        BY <2>1, FatalStays DEF Settled, Outside
    <2> QED
        BY <2>1 DEF LoopInv, LeaveInv, Outside, Going
<1> QED
    BY <1>1, <1>2, <1>3 DEF LoopInv

\* What is settled stays so if no task is submitted.
LEMMA SettledStays ==
    ASSUME TInv, LifeInv, LifeInv', Advance, Going', Settled, live' \subseteq live
    PROVE  Settled'
BY FatalStays DEF Settled

\* Nothing of the loop is left when it is over.
LEMMA LoopOver ==
    ASSUME pc' \in {"returned", "raised"}, WaiterInv, UNCHANGED <<expired, call>>
    PROVE  LoopInv'
BY DEF LoopInv, PoppedInv, WaiterInv, LeaveInv, Going, HasTimeout

LEMMA SubmitLoop ==
    ASSUME TInv, LoopInv, NEW t \in All, Submit(t)
    PROVE  LoopInv'
<1>1. /\ pc = "submit" /\ pc' \in {"submit", "loop"} /\ t \in Tasks
      /\ fut' = [fut EXCEPT ![t] = "queued"] /\ live' = live \cup {t}
      /\ UNCHANGED <<batch, forStop, waiter, handledFuts, expired, call>> /\ fut[t] = "none"
    BY DEF Submit, SetItem, TInv, batchVars
<1>2. fut'[t] = "queued" /\ \A u \in All : u # t => fut'[u] = fut[u]
    BY <1>1 DEF TInv
<1>3. PoppedInv
    BY DEF LoopInv
<1>4. \A u \in All : IsDone(u) => IsDone(u)' /\ fut'[u] = fut[u]
    BY <1>1, <1>2 DEF IsDone, DoneState, Outcomes, Raised
<1>5. \A u \in Tasks \ (live' \cup batch') : u \in Tasks \ (live \cup batch) /\ u # t /\ u \in All
    BY <1>1, TaskSets
<1>6. PoppedInv'
    BY <1>1, <1>2, <1>3, <1>4, <1>5 DEF PoppedInv, Going, TInv, IsDone
<1>7. WaiterInv' /\ LeaveInv'
    BY <1>1 DEF LoopInv, WaiterInv, LeaveInv, HasTimeout
<1> QED
    BY <1>6, <1>7 DEF LoopInv

LEMMA FastLoop ==
    ASSUME TInv, LoopInv, NEW t \in Tasks, NEW o \in Outcomes, NEW e \in Ids \cup {NoExc},
           Fast(t, o, e)
    PROVE  LoopInv'
<1>1. /\ pc = "fast" /\ t \in All /\ fut' = [fut EXCEPT ![t] = o]
      /\ UNCHANGED <<live, forStop, waiter, handledFuts, expired, call>>
    BY FastFacts
<1>2. fut'[t] = o /\ \A u \in All : u # t => fut'[u] = "none"
    BY <1>1 DEF LoopInv, WaiterInv, TInv
<1>3. CASE pc' \in {"returned", "raised"}
    BY <1>1, <1>3, LoopOver DEF LoopInv
<1>4. CASE pc' = "batch" /\ batch' = {t}
    <2>1. IsDone(t)'
        BY <1>2 DEF IsDone, DoneState
    <2>2. live = {} /\ forStop = {}
        <3>1. \A u \in All : ~IsDone(u) /\ fut[u] = "none"
            BY <1>1 DEF LoopInv, WaiterInv, IsDone, DoneState, Outcomes, Raised
        <3> QED
            BY <1>1, <3>1 DEF LoopInv, PoppedInv, Going, TInv
    <2>3. PoppedInv'
        BY <1>1, <1>2, <1>4, <2>1, <2>2, TaskSets DEF PoppedInv
    <2>4. WaiterInv' /\ LeaveInv'
        BY <1>1, <1>4, <2>2 DEF LoopInv, WaiterInv, LeaveInv, HasTimeout
    <2> QED
        BY <2>3, <2>4 DEF LoopInv
<1> QED
    BY <1>3, <1>4, FastFacts

LEMMA PopLoop ==
    ASSUME TInv, LifeInv, LoopInv, NEW t \in All, Pop(t)
    PROVE  LoopInv'
<1>1. /\ pc = "batch" /\ pc' \in {"batch", "handler"} /\ t \in batch
      /\ batch' = batch \ {t} /\ live' = live \ {t}
      /\ UNCHANGED <<fut, waiter, expired, call>>
    BY PopFacts
<1>2. PoppedInv /\ IsDone(t) /\ Going
    BY <1>1 DEF LoopInv, PoppedInv, Going
<1>3. Routed(t) <=> fut[t] = "error" /\ t \in Handled
    BY <1>2 DEF Routed, ShouldRoute, LifeInv
<1>4. \A u \in forStop' : u \in forStop \/ (u = t /\ ~Routed(t))
    BY PopFacts
<1>5. handledFuts \subseteq handledFuts' /\ (Routed(t) => t \in handledFuts')
    BY PopFacts
<1>6. \A u \in Tasks \ (live' \cup batch') : u \in Tasks \ (live \cup batch) \/ u = t
    BY <1>1
<1>7. \A u \in All : IsDone(u)' <=> IsDone(u)
    BY <1>1 DEF IsDone
<1>8. PoppedInv'
    <2>1. \A u \in forStop' : IsDone(u) /\ (u \notin Handled \/ fut[u] # "error")
        BY <1>2, <1>3, <1>4 DEF PoppedInv
    <2>2. \A u \in Tasks \ (live' \cup batch') :
              /\ (u \in Handled /\ fut[u] = "error") => u \in handledFuts'
              /\ fut[u] = "none" \/ IsDone(u)
        BY <1>2, <1>3, <1>5, <1>6 DEF PoppedInv
    <2> QED
        BY <1>1, <1>2, <2>1, <2>2 DEF PoppedInv, IsDone
<1>9. WaiterInv' /\ LeaveInv'
    BY <1>1, <1>2 DEF LoopInv, WaiterInv, LeaveInv, HasTimeout
<1> QED
    BY <1>8, <1>9 DEF LoopInv

LEMMA ScheduleLoop ==
    ASSUME TInv, HandlerInv, LoopInv, NEW t \in Handled, ScheduleHandler(t)
    PROVE  LoopInv'
<1>1. PICK h \in All : /\ h \notin Tasks /\ h \in HandlerTasks /\ h = HandlerOf[t]
                       /\ fut' = [fut EXCEPT ![h] = "queued"] /\ live' = live \cup {h}
    BY ScheduleFacts
<1>2. /\ pc = "handler" /\ pc' = "batch" /\ t \in handling
      /\ UNCHANGED <<batch, forStop, waiter, handledFuts, expired, call>>
    BY ScheduleFacts
<1>3. PoppedInv /\ Going /\ fut[h] = "none"
    BY <1>1, <1>2 DEF LoopInv, Going, HandlerInv
<1>4. fut'[h] = "queued" /\ \A u \in All : u # h => fut'[u] = fut[u]
    BY <1>1 DEF TInv
<1>5. \A u \in All : IsDone(u) => u # h /\ IsDone(u)' /\ fut'[u] = fut[u]
    BY <1>3, <1>4 DEF IsDone, DoneState, Outcomes, Raised
<1>6. \A u \in Tasks \ (live' \cup batch') :
          u \in Tasks \ (live \cup batch) /\ u \in All /\ fut'[u] = fut[u]
    BY <1>1, <1>2, <1>4, TaskSets
<1>7. PoppedInv'
    <2>1. \A u \in batch' \cup forStop' : IsDone(u)' /\ fut'[u] = fut[u]
        BY <1>2, <1>3, <1>5 DEF PoppedInv, TInv
    <2>2. \A u \in live' : fut'[u] # "none"
        BY <1>1, <1>3, <1>4 DEF PoppedInv, TInv
    <2>3. \A u \in Tasks \ (live' \cup batch') :
              /\ (u \in Handled /\ fut'[u] = "error") => u \in handledFuts'
              /\ fut'[u] = "none" \/ IsDone(u)'
        BY <1>2, <1>3, <1>5, <1>6 DEF PoppedInv
    <2>4. \A u \in forStop' : IsDone(u)' /\ (u \notin Handled \/ fut'[u] # "error")
        BY <1>2, <1>3, <2>1 DEF PoppedInv
    <2>5. (\A u \in batch' : IsDone(u)') /\ pc' = "batch"
        BY <1>2, <2>1
    <2> QED
        BY <2>2, <2>3, <2>4, <2>5 DEF PoppedInv, IsDone
<1>8. WaiterInv' /\ LeaveInv'
    BY <1>1, <1>2, <1>3 DEF LoopInv, WaiterInv, LeaveInv, HasTimeout
<1> QED
    BY <1>7, <1>8 DEF LoopInv

LEMMA WaitLoop ==
    ASSUME TInv, LoopInv, Wait
    PROVE  LoopInv'
<1>1. /\ pc = "loop" /\ pc' = "batch" /\ batch' = {t \in live : IsDone(t)} /\ forStop' = {}
      /\ waiter # "ready" => waiter' = waiter
      /\ UNCHANGED <<live, fut, handledFuts, expired, call>>
    BY DEF Wait, execVars, dictVars
<1>2. (waiter = "ready" /\ waiter' = "none") => batch' = live
    <2>1. waiter = "ready" => waiter' = IF inflight' THEN "pending" ELSE "none"
        BY DEF Wait
    <2>2. inflight' = (live # batch' \/ waiter = "pending")
        BY DEF Wait
    <2> QED
        BY <2>1, <2>2
<1>3. PoppedInv /\ Going /\ batch = {}
    BY <1>1 DEF LoopInv, PoppedInv, Going
<1>4. PoppedInv'
    <2>1. \A t \in batch' : IsDone(t)'
        BY <1>1 DEF IsDone
    <2>2. \A t \in Tasks \ (live' \cup batch') : t \in Tasks \ (live \cup batch)
        BY <1>1, <1>3
    <2> QED
        BY <1>1, <1>3, <2>1, <2>2 DEF PoppedInv, IsDone
<1>5. WaiterInv'
    <2>1. ASSUME call.waiter, waiter' = "none"
          PROVE  live \ batch' \subseteq HandlerTasks
        <3>1. CASE waiter = "ready"
            BY <1>2, <2>1, <3>1
        <3>2. CASE waiter # "ready"
            BY <1>1, <1>3, <2>1, <3>2 DEF LoopInv, WaiterInv
        <3> QED
            BY <3>1, <3>2
    <2> QED
        BY <1>1, <1>2, <2>1 DEF LoopInv, WaiterInv, HasTimeout
<1> QED
    BY <1>1, <1>4, <1>5 DEF LoopInv, LeaveInv

\* Leaving the loop in time means that only handlers are in flight.
LEMMA LeaveLoopSettled ==
    ASSUME TInv, CountInv, LoopInv, LeaveLoop
    PROVE  expired \/ live \subseteq HandlerTasks
<1>1. pc = "loop" /\ batch = {} /\ Going
    BY DEF LeaveLoop, LoopInv, PoppedInv, Going
<1>2. CASE ~MoreFutures
    <2>1. Cardinality(live) \in Nat /\ IsFiniteSet(live)
        BY FS_CardinalityType DEF CountInv
    <2>2. CASE call.waiter /\ waiter = "none"
        BY <1>1, <2>2 DEF LoopInv, WaiterInv
    <2>3. CASE ~(call.waiter /\ waiter = "none")
        <3>1. call.waiter \in BOOLEAN
            BY DEF TInv
        <3>2. Cardinality(live) = 0
            BY <1>2, <2>1, <2>3, <3>1 DEF MoreFutures
        <3> QED
            BY <2>1, <3>2, FS_EmptySet
    <2> QED
        BY <2>2, <2>3
<1> QED
    BY <1>2 DEF LeaveLoop

LEMMA SameLoop ==
    ASSUME TInv, LoopInv, Going, Going', LeaveInv', pc' \notin {"fast", "submit"},
           UNCHANGED <<batch, live, fut, handledFuts, expired, call>>,
           waiter' = waiter \/ waiter' # "none", forStop' \subseteq forStop,
           pc' \notin {"batch", "handler"} => batch = {}
    PROVE  LoopInv'
BY DEF LoopInv, PoppedInv, WaiterInv, HasTimeout, IsDone

LEMMA LoopNext ==
    ASSUME Unhurried, TInv, LifeInv, LifeInv', CountInv, EventInv', HandlerInv, LoopInv,
           [Next]_vars
    PROVE  LoopInv'
<1> USE DEF execVars, dictVars, batchVars, commitVars
<1>0. Advance
    BY Advances
<1>1. ASSUME NEW t \in All,
             Start(t) \/ FinishCancelled(t) \/ OnDone(t) \/ OnDoneFinally(t) \/ MarkerStored(t)
             \/ \E o \in Outcomes, e \in Ids \cup {NoExc} : Finish(t, o, e)
      PROVE  LoopInv'
    <2>1. Outside
        BY <1>1, ExecutorOutside
    <2>2. event => event'
        BY <1>1, OnDoneFacts
           DEF Start, FinishCancelled, OnDoneFinally, MarkerStored, Finish, Tally
    <2> QED
        BY <1>0, <2>1, <2>2, ExecutorLoop
<1>2. CASE LeaveLoop
    <2>1. expired \/ Settled
        BY <1>2, LeaveLoopSettled DEF Settled
    <2>2. /\ pc = "loop" /\ pc' = "event" /\ batch = {}
          /\ UNCHANGED <<batch, live, fut, handledFuts, expired, call, waiter, forStop, exc,
                         handledIds>>
        BY <1>2 DEF LeaveLoop, LoopInv, PoppedInv, Going
    <2>3. Going /\ Going'
        BY <2>2 DEF Going
    <2>4. LeaveInv'
        BY <1>0, <2>1, <2>2, <2>3, SettledStays DEF LeaveInv
    <2> QED
        BY <2>2, <2>3, <2>4, SameLoop
<1>3. CASE EndBatch
    <2>1. /\ pc = "batch" /\ pc' \in {"event", "loop"} /\ batch = {} /\ forStop' = {}
          /\ pc' = "event" => ShouldStop(forStop, handledIds)
          /\ UNCHANGED <<batch, live, fut, handledFuts, expired, call, waiter, exc, handledIds>>
        BY <1>3 DEF EndBatch
    <2>2. Going /\ Going'
        BY <2>1 DEF Going
    <2>3. ASSUME pc' = "event"
          PROVE  Settled
        <3>1. PICK t \in forStop : fut[t] = "error" /\ exc[t] \notin handledIds
            BY <2>1, <2>3 DEF ShouldStop
        <3>2. t \notin Handled /\ t \in All
            BY <2>2, <3>1 DEF LoopInv, PoppedInv, TInv
        <3> QED
            BY <3>1, <3>2 DEF Settled, Fatal
    <2>4. LeaveInv'
        BY <1>0, <2>1, <2>2, <2>3, SettledStays DEF LeaveInv
    <2> QED
        BY <2>1, <2>2, <2>4, SameLoop
<1>4. CASE AwaitEvent
    <2>1. /\ pc = "event" /\ pc' = "panic"
          /\ UNCHANGED <<batch, live, fut, handledFuts, expired, call, waiter, forStop, exc,
                         handledIds, event>>
        BY <1>4 DEF AwaitEvent
    <2>2. Going /\ Going' /\ batch = {}
        BY <2>1 DEF Going, LoopInv, PoppedInv
    <2>3. ~(Mode = "threads" /\ expired)
        BY DEF Unhurried, LoopInv, WaiterInv, HasTimeout, Mode, TInv
    <2>4. Mode \in {"threads", "asyncio"}
        BY RunnerAssumption DEF TInv, Mode
    <2>5. event /\ ~expired
        BY <1>4, <2>3, <2>4 DEF AwaitEvent, EventSet
    <2>6. Settled
        BY <2>1, <2>5 DEF LoopInv, LeaveInv
    <2>7. LeaveInv'
        BY <1>0, <2>1, <2>2, <2>5, <2>6, SettledStays DEF LeaveInv
    <2> QED
        BY <2>1, <2>2, <2>7, SameLoop
<1>5. CASE AwaitTimesOut
    <2>1. pc' = "raised" /\ UNCHANGED <<expired, call>>
        BY <1>5 DEF AwaitTimesOut
    <2> QED
        BY <2>1, LoopOver DEF LoopInv
<1>6. ASSUME NEW x \in Raised \cup {"timeout", "none"}, Panic(x)
      PROVE  LoopInv'
    <2>1. pc' \in {"returned", "raised"} /\ UNCHANGED <<expired, call>>
        BY <1>6, PanicFacts
    <2> QED
        BY <2>1, LoopOver DEF LoopInv
<1>7. CASE WaiterReady \/ Expire
    <2>1. /\ UNCHANGED <<pc, batch, live, fut, handledFuts, call, forStop, exc, handledIds,
                         event>>
          /\ waiter' = waiter \/ waiter' # "none"
          /\ expired' = expired \/ (HasTimeout /\ expired')
        BY <1>7 DEF WaiterReady, Expire
    <2>2. PoppedInv' /\ WaiterInv'
        BY <2>1 DEF LoopInv, PoppedInv, WaiterInv, Going, IsDone, HasTimeout
    <2>3. expired => expired'
        BY <1>7 DEF WaiterReady, Expire
    <2>4. LeaveInv'
        BY <1>0, <2>1, <2>3, SettledStays DEF LoopInv, LeaveInv, Going
    <2> QED
        BY <2>2, <2>4 DEF LoopInv
<1>8. CASE Over \/ UNCHANGED vars
    BY <1>8 DEF Over, vars, LoopInv, PoppedInv, WaiterInv, LeaveInv, Settled, Fatal, Going,
                IsDone, HasTimeout
<1> QED
    BY <1>1, <1>2, <1>3, <1>4, <1>5, <1>6, <1>7, <1>8, SubmitLoop, FastLoop, PopLoop,
       ScheduleLoop, WaitLoop DEF Next, Executor, Main

-----------------------------------------------------------------------------
(* The end.                                                                *)

LEMMA EndInit ==
    ASSUME Init
    PROVE  EndInv
BY DEF Init, EndInv, Ended

\* Nothing happens any more once tick returned.
LEMMA Quiet ==
    ASSUME TInv, LifeInv, EndInv, Ended, [Next]_vars
    PROVE  UNCHANGED <<pc, raised, fut, exc, cb, cancelReq>>
<1> USE DEF execVars, dictVars, batchVars, commitVars
<1>1. cancelReq = {} /\ pc \in {"returned", "raised"}
      /\ \A t \in All : fut[t] = "none" \/ cb[t] = "done"
    BY DEF EndInv, Ended
<1>2. \A t \in All : fut[t] \notin {"queued", "running"} /\ cb[t] \notin {"pending", "committed"}
    BY <1>1 DEF LifeInv, IsDone, DoneState, Outcomes, Raised
<1>3. ASSUME NEW t \in All, Start(t) \/ FinishCancelled(t) \/ OnDone(t) \/ OnDoneFinally(t)
             \/ Submit(t) \/ Pop(t)
             \/ \E o \in Outcomes, e \in Ids \cup {NoExc} : Finish(t, o, e)
      PROVE  FALSE
    BY <1>1, <1>2, <1>3 DEF Start, FinishCancelled, OnDone, OnDoneFinally, Submit, Pop, Finish
<1>4. CASE WaiterReady \/ Expire \/ Over \/ UNCHANGED vars \/ \E t \in All : MarkerStored(t)
    BY <1>4 DEF WaiterReady, Expire, Over, MarkerStored, vars
<1>5. CASE Main
    BY <1>1, <1>3, <1>5
       DEF Main, Fast, ScheduleHandler, Wait, LeaveLoop, EndBatch, AwaitEvent, AwaitTimesOut, Panic
<1> QED
    BY <1>3, <1>4, <1>5 DEF Next, Executor

\* What the end of tick finds when it raises no failure.
LEMMA PanicQuiet ==
    ASSUME TInv, LifeInv, CommitInv, CountInv, EventInv, HandlerInv, LoopInv,
           NEW x \in {"none", "interrupt"}, Panic(x)
    PROVE  /\ \A t \in All : fut[t] # "none" => cb[t] = "done" /\ IsDone(t)
           /\ Left = {} /\ cancelReq' = {} /\ UNCHANGED <<fut, cb>>
           /\ \A t \in All : ~Fatal(t)
<1>1. x \in Raised \cup {"timeout", "none"} /\ pc = "panic" /\ Going /\ PanicRaises(x)
    BY DEF Panic, Raised, Going
<1>2. \A t \in doneSet : ~Fatal(t)
    <2>1. ASSUME NEW t \in doneSet, Fatal(t)
          PROVE  FALSE
        <3>1. t \in PanicFailed /\ fut[t] = "error"
            BY <2>1 DEF PanicFailed, Fatal, Raised, HandlerInv
        <3>2. x \in {fut[u] : u \in {v \in PanicFailed : fut[v] # "interrupt"}}
            BY <1>1, <3>1 DEF PanicRaises
        <3>3. PICK u \in PanicFailed : fut[u] # "interrupt" /\ x = fut[u]
            BY <3>2
        <3> QED
            BY <3>3 DEF PanicFailed, Raised
    <2> QED
        BY <2>1
<1>3. counter = 0
    BY <1>1, <1>2 DEF LoopInv, LeaveInv, EventInv
<1>4. \A t \in All : fut[t] # "none" => cb[t] = "done" /\ IsDone(t)
    BY <1>3, ZeroOpen DEF LifeInv
<1>5. Left = {}
    BY <1>1, <1>4 DEF Left, LoopInv, PoppedInv, TInv
<1>6. cancelReq' = {} /\ UNCHANGED <<fut, cb>>
    BY <1>1, <1>5, PanicFacts
<1>7. \A t \in All : ~Fatal(t)
    BY <1>1, <1>2, <1>4 DEF Fatal, CommitInv
<1> QED
    BY <1>4, <1>5, <1>6, <1>7

\* A failure that is raised has no handler.
LEMMA PanicError ==
    ASSUME TInv, LifeInv, CommitInv, HandlerInv, LoopInv, Panic("error")
    PROVE  \E t \in All : fut[t] = "error" /\ t \notin Handled
<1>1. pc = "panic" /\ PanicRaises("error")
    BY DEF Panic
<1>2. CASE \E t \in All : Fatal(t)
    BY <1>2 DEF Fatal
<1>3. CASE live \subseteq HandlerTasks
    <2>1. PICK t \in PanicFailed : fut[t] = "error"
        <3>1. "error" \in {fut[t] : t \in {u \in PanicFailed : fut[u] # "interrupt"}}
            BY <1>1 DEF PanicRaises
        <3> QED
            BY <3>1
    <2>2. t \in doneSet \cup live /\ t \in All /\ exc[t] \notin handledIds
        BY DEF PanicFailed, TInv
    <2>3. t \notin Handled
        <3>1. CASE t \in live
            BY <1>3, <3>1, TaskSets, RunnerAssumption
        <3>2. CASE t \in doneSet
            BY <2>1, <2>2, <3>2 DEF CommitInv
        <3> QED
            BY <2>2, <3>1, <3>2
    <2> QED
        BY <2>1, <2>2, <2>3
<1> QED
    BY <1>1, <1>2, <1>3 DEF LoopInv, LeaveInv, Settled

LEMMA EndNext ==
    ASSUME TInv, LifeInv, CommitInv, CountInv, EventInv, HandlerInv, LoopInv, EndInv, [Next]_vars
    PROVE  EndInv'
<1> USE DEF execVars, dictVars, batchVars, commitVars
<1>0. Advance
    BY Advances
<1>1. CASE Ended
    <2>1. UNCHANGED <<pc, raised, fut, cb, cancelReq>>
        BY <1>1, Quiet
    <2> QED
        BY <2>1 DEF EndInv, Ended
<1>2. \A t \in All : fut[t] = "error" => fut'[t] = "error"
    BY <1>0 DEF Advance, IsDone, DoneState, Outcomes, Raised
<1>3. ASSUME ~Ended', raised' = raised \/ raised' # "error"
      PROVE  EndInv'
    BY <1>2, <1>3 DEF EndInv
<1>4. ASSUME NEW t \in Tasks, NEW o \in Outcomes, NEW e \in Ids \cup {NoExc}, Fast(t, o, e)
      PROVE  EndInv'
    <2>1. /\ t \in All /\ pc = "fast" /\ fut' = [fut EXCEPT ![t] = o]
          /\ cb' = [cb EXCEPT ![t] = "done"] /\ cancelReq' = cancelReq
          /\ raised' = raised \/ (raised' = o /\ ~(o = "error" /\ t \in Handled))
        BY <1>4, FastFacts
    <2>2. /\ fut'[t] = o /\ cb'[t] = "done" /\ cancelReq = {}
          /\ \A u \in All : u # t => fut'[u] = "none"
        BY <2>1 DEF LoopInv, WaiterInv, LifeInv, Going, TInv
    <2>3. \A u \in All : fut'[u] # "none" => cb'[u] = "done"
        BY <2>2
    <2> QED
        BY <1>2, <2>1, <2>2, <2>3 DEF EndInv
<1>5. ASSUME NEW x \in Raised \cup {"timeout", "none"}, Panic(x)
      PROVE  EndInv'
    <2>1. raised' = x /\ pc' = IF x = "none" THEN "returned" ELSE "raised"
        BY <1>5, PanicFacts
    <2>2. CASE x \in {"none", "interrupt"}
        BY <1>5, <2>1, <2>2, PanicQuiet DEF EndInv
    <2>3. CASE x = "error"
        <3>1. \E t \in All : fut[t] = "error" /\ t \notin Handled
            BY <1>5, <2>3, PanicError
        <3> QED
            BY <1>2, <2>1, <2>3, <3>1 DEF EndInv, Ended
    <2>4. CASE x \notin {"none", "interrupt", "error"}
        BY <1>3, <2>1, <2>4 DEF Ended
    <2> QED
        BY <2>2, <2>3, <2>4
<1>6. CASE AwaitTimesOut
    BY <1>3, <1>6 DEF AwaitTimesOut, Ended
<1>7. ASSUME NEW t \in All,
             Start(t) \/ FinishCancelled(t) \/ OnDone(t) \/ OnDoneFinally(t) \/ MarkerStored(t)
             \/ Submit(t) \/ Pop(t) \/ (\E u \in Handled : ScheduleHandler(u))
             \/ \E o \in Outcomes, e \in Ids \cup {NoExc} : Finish(t, o, e)
      PROVE  ~Ended => EndInv'
    <2>1. raised' = raised /\ (pc' = pc \/ pc' \notin {"returned", "raised"})
        BY <1>7, OnDoneFacts, PopFacts, ScheduleFacts
           DEF Start, FinishCancelled, OnDoneFinally, MarkerStored, Finish, Submit
    <2> QED
        BY <1>3, <2>1 DEF Ended
<1>8. CASE Wait \/ LeaveLoop \/ EndBatch \/ AwaitEvent \/ WaiterReady \/ Expire \/ Over
           \/ UNCHANGED vars
    <2>1. raised' = raised /\ (pc' = pc \/ pc' \notin {"returned", "raised"})
        BY <1>8 DEF Wait, LeaveLoop, EndBatch, AwaitEvent, WaiterReady, Expire, Over, vars
    <2> QED
        BY <1>1, <1>3, <2>1 DEF Ended
<1>9. All # {}
    BY RunnerAssumption DEF All
<1> QED
    BY <1>1, <1>4, <1>5, <1>6, <1>7, <1>8, <1>9 DEF Next, Executor, Main

-----------------------------------------------------------------------------
(* The theorems.                                                           *)

LEMMA RunnerInit ==
    ASSUME Init
    PROVE  TInv /\ RunnerInv
BY TypeInit, LifeInit, CommitInit, CountInit, EventInit, HandlerInit, LoopInit, EndInit
   DEF RunnerInv

LEMMA RunnerNext ==
    ASSUME Unhurried, TInv, RunnerInv, [Next]_vars
    PROVE  (TInv /\ RunnerInv)'
<1>0. LifeInv /\ CommitInv /\ CountInv /\ EventInv /\ HandlerInv /\ LoopInv /\ EndInv
    BY DEF RunnerInv
<1>1. TInv' /\ LifeInv' /\ CommitInv' /\ CountInv' /\ HandlerInv' /\ EndInv'
    BY <1>0, TypeNext, LifeNext, CommitNext, CountNext, HandlerNext, EndNext
<1>2. EventInv'
    BY <1>0, <1>1, EventNext
<1>3. LoopInv'
    BY <1>0, <1>1, <1>2, LoopNext
<1> QED
    BY <1>1, <1>2, <1>3 DEF RunnerInv

\* When tick returns or raises interrupts, every submitted task is over and its
\* outcome committed (tick, "wait for done callbacks"), unless threads have a
\* step timeout.
THEOREM CommittedBeforeEnd ==
    ASSUME Unhurried
    PROVE  Spec => []CommittedFirst
<1>1. Init => TInv /\ RunnerInv
    BY RunnerInit
<1>2. TInv /\ RunnerInv /\ [Next]_vars => (TInv /\ RunnerInv)'
    BY RunnerNext
<1>3. RunnerInv => CommittedFirst
    BY DEF RunnerInv, EndInv, Ended, CommittedFirst, Submitted
<1> QED
    BY <1>1, <1>2, <1>3, PTL DEF Spec

\* Every variable keeps its type; the counter is that of the futures in flight
\* (FuturesDict).
THEOREM RunnerTypeCorrect ==
    ASSUME Unhurried, IsFiniteSet(HandlerTasks)
    PROVE  Spec => []TypeOK
<1>1. Init => TInv /\ RunnerInv
    BY RunnerInit
<1>2. TInv /\ RunnerInv /\ [Next]_vars => (TInv /\ RunnerInv)'
    BY RunnerNext
<1>3. TInv /\ RunnerInv => TypeOK
    <2>1. IsFiniteSet(All) /\ Cardinality(All) \in Nat
        BY RunnerAssumption, FS_Union, FS_CardinalityType DEF All
    <2>2. Open \subseteq All
        BY DEF Open
    <2>3. Cardinality(Open) \in Nat /\ Cardinality(Open) <= Cardinality(All)
        BY <2>1, <2>2, FS_Subset, FS_CardinalityType
    <2>4. RunnerInv => counter \in 0 .. Cardinality(All)
        BY <2>1, <2>3 DEF RunnerInv, CountInv
    <2> QED
        BY <2>4 DEF TInv, TypeOK
<1> QED
    BY <1>1, <1>2, <1>3, PTL DEF Spec

\* A handler runs only for a task that failed, and the failure raised to the
\* caller is one that no handler takes (_should_route_to_error_handler, commit,
\* _panic_or_proceed).
THEOREM HandlersForFailures ==
    ASSUME Unhurried
    PROVE  Spec => []OnlyForFailures
<1>1. Init => TInv /\ RunnerInv
    BY RunnerInit
<1>2. TInv /\ RunnerInv /\ [Next]_vars => (TInv /\ RunnerInv)'
    BY RunnerNext
<1>3. RunnerInv => OnlyForFailures
    BY DEF RunnerInv, HandlerInv, CommitInv, EndInv, OnlyForFailures, ShouldRoute
<1> QED
    BY <1>1, <1>2, <1>3, PTL DEF Spec

\* Tick is over: when it returns nothing fails silently.
LEMMA SilentNext ==
    ASSUME EarlierIds = {}, TInv, RunnerInv, NoSilentFailure, [Next]_vars
    PROVE  NoSilentFailure'
<1> USE DEF execVars, dictVars, batchVars, commitVars
<1>0. LifeInv /\ CommitInv /\ CountInv /\ EventInv /\ HandlerInv /\ LoopInv /\ EndInv
    BY DEF RunnerInv
<1>1. CASE Ended
    <2>1. UNCHANGED <<pc, fut>>
        BY <1>0, <1>1, Quiet
    <2> QED
        BY <2>1 DEF NoSilentFailure
<1>2. ASSUME NEW t \in Tasks, NEW o \in Outcomes, NEW e \in Ids \cup {NoExc}, Fast(t, o, e)
      PROVE  NoSilentFailure'
    <2>1. /\ t \in All /\ pc = "fast" /\ fut' = [fut EXCEPT ![t] = o]
          /\ pc' = "returned" => o = "ok" \/ e \in handledIds
        BY <1>2, FastFacts
    <2>2. \A u \in All : fut[u] = "none"
        BY <1>0, <2>1 DEF LoopInv, WaiterInv
    <2>3. handledIds = {}
        BY <1>0, <2>1, <2>2, TaskSets DEF CommitInv, Going
    <2>4. pc' = "returned" => \A u \in All : fut'[u] \in {"none", "ok"}
        BY <2>1, <2>2, <2>3 DEF TInv
    <2> QED
        BY <2>4 DEF NoSilentFailure, Raised
<1>3. ASSUME NEW x \in Raised \cup {"timeout", "none"}, Panic(x)
      PROVE  NoSilentFailure'
    <2>1. CASE x # "none"
        BY <1>3, <2>1, PanicFacts DEF NoSilentFailure
    <2>2. CASE x = "none"
        <3>1. /\ \A t \in All : fut[t] # "none" => cb[t] = "done" /\ IsDone(t)
              /\ fut' = fut /\ \A t \in All : ~Fatal(t)
            BY <1>0, <1>3, <2>2, PanicQuiet
        <3>2. PanicFailed = {} /\ pc = "panic" /\ Going /\ batch = {} /\ handling = {}
            <4>1. pc = "panic" /\ PanicRaises("none")
                BY <1>3, <2>2 DEF Panic
            <4>2. "none" \notin {fut[t] : t \in {u \in PanicFailed : fut[u] # "interrupt"}}
                BY DEF PanicFailed, Raised
            <4>3. PanicFailed = {}
                BY <4>1, <4>2 DEF PanicRaises
            <4> QED
                BY <1>0, <4>1, <4>3 DEF LoopInv, PoppedInv, HandlerInv, Going
        <3>3. live \subseteq HandlerTasks
            BY <1>0, <3>1, <3>2 DEF LoopInv, LeaveInv, Settled
        <3>4. ASSUME NEW t \in All, fut[t] \in Raised
              PROVE  t \in Handled /\ fut[t] = "error"
            <4>1. cb[t] = "done"
                BY <3>1, <3>4 DEF Raised
            <4>2. CASE t \notin doneSet
                BY <1>0, <3>2, <4>1, <4>2 DEF CommitInv
            <4>3. CASE t \in doneSet
                <5>1. t \in handledFuts \/ exc[t] \in handledIds
                    BY <3>2, <3>4, <4>3 DEF PanicFailed
                <5>2. CASE t \in handledFuts
                    BY <1>0, <5>2 DEF HandlerInv
                <5>3. CASE exc[t] \in handledIds
                    <6>1. PICK u \in Handled : fut[u] = "error" /\ exc[u] = exc[t]
                        BY <1>0, <3>2, <5>3 DEF CommitInv
                    <6>2. exc[t] # NoExc /\ u \in All
                        BY <1>0, <3>4, TaskSets DEF LifeInv
                    <6>3. u = t
                        BY <1>0, <6>1, <6>2 DEF LifeInv
                    <6> QED
                        BY <6>1, <6>3
                <5> QED
                    BY <5>1, <5>2, <5>3
            <4> QED
                BY <4>2, <4>3
        <3>5. ASSUME NEW t \in All, fut[t] \in Raised
              PROVE  fut[HandlerOf[t]] = "ok"
            <4>1. t \in Handled /\ fut[t] = "error" /\ t \in Tasks
                BY <3>4, <3>5, TaskSets
            <4>2. t \notin live \cup batch
                BY <3>2, <3>3, <4>1, RunnerAssumption
            <4>3. t \in handledFuts
                BY <1>0, <3>2, <4>1, <4>2 DEF LoopInv, PoppedInv
            <4>4. PICK h \in All : h = HandlerOf[t] /\ h \notin Tasks
                BY <4>1, TaskSets
            <4>5. fut[h] # "none"
                BY <1>0, <3>2, <4>3, <4>4 DEF HandlerInv
            <4>6. IsDone(h) /\ fut[h] # "cancelled"
                BY <1>0, <3>1, <3>2, <4>5 DEF LifeInv
            <4>7. fut[h] \notin Raised
                BY <3>4, <4>4, TaskSets
            <4> QED
                BY <4>4, <4>6, <4>7 DEF IsDone, DoneState, Outcomes
        <3> QED
            BY <3>1, <3>4, <3>5 DEF NoSilentFailure
    <2> QED
        BY <2>1, <2>2
<1>4. ASSUME pc # "returned", pc' = pc \/ pc' # "returned"
      PROVE  NoSilentFailure'
    BY <1>4 DEF NoSilentFailure
<1>5. ASSUME NEW t \in All,
             Start(t) \/ FinishCancelled(t) \/ OnDone(t) \/ OnDoneFinally(t) \/ MarkerStored(t)
             \/ Submit(t) \/ Pop(t) \/ (\E u \in Handled : ScheduleHandler(u))
             \/ \E o \in Outcomes, e \in Ids \cup {NoExc} : Finish(t, o, e)
      PROVE  pc' = pc \/ pc' # "returned"
    BY <1>5, OnDoneFacts, PopFacts, ScheduleFacts, <1>0
       DEF Start, FinishCancelled, OnDoneFinally, MarkerStored, Finish, Submit
<1>6. CASE Wait \/ LeaveLoop \/ EndBatch \/ AwaitEvent \/ AwaitTimesOut \/ WaiterReady
           \/ Expire \/ Over \/ UNCHANGED vars
    <2>1. pc' = pc \/ pc' # "returned"
        BY <1>6 DEF Wait, LeaveLoop, EndBatch, AwaitEvent, AwaitTimesOut, WaiterReady, Expire,
                    Over, vars
    <2> QED
        BY <1>1, <1>4, <2>1 DEF Ended
<1>7. All # {}
    BY RunnerAssumption DEF All
<1> QED
    BY <1>1, <1>2, <1>3, <1>4, <1>5, <1>6, <1>7 DEF Next, Executor, Main, Ended

\* Tick returns only if every task that raised was routed to a handler which
\* succeeded (_panic_or_proceed), unless an exception has the id of one of an
\* earlier tick.
THEOREM FailuresAreRaised ==
    ASSUME Unhurried, EarlierIds = {}
    PROVE  Spec => []NoSilentFailure
<1>1. Init => TInv /\ RunnerInv /\ NoSilentFailure
    BY RunnerInit DEF Init, NoSilentFailure
<1>2. TInv /\ RunnerInv /\ NoSilentFailure /\ [Next]_vars
            => (TInv /\ RunnerInv /\ NoSilentFailure)'
    BY RunnerNext, SilentNext
<1> QED
    BY <1>1, <1>2, PTL DEF Spec
=============================================================================
