------------------------ MODULE SuperstepResumeProofs ------------------------
(***************************************************************************)
(* Proofs about SuperstepResume, for any tasks, handlers and number of     *)
(* runs.                                                                   *)
(***************************************************************************)
EXTENDS SuperstepResume, TLAPS

-----------------------------------------------------------------------------
(* Types.                                                                  *)

LEMMA ControlFacts ==
    /\ {"INTERRUPT"} \subseteq Kinds /\ {"ERROR"} \subseteq Kinds
    /\ Complete \subseteq Kinds /\ Complete # {}
    /\ Control \cap Complete = {}
    /\ Kinds = Complete \cup Control
    /\ \A part \in Partial : part \subseteq Kinds
    /\ \A t : Failure(t) \subseteq Kinds /\ "ERROR" \in Failure(t)
    /\ \A t : "ERROR_SOURCE_NODE" \in Failure(t) => t \in Handled
BY DEF Complete, Control, Kinds, Partial, Failure

LEMMA HandlerFacts ==
    /\ Tasks \subseteq All /\ HandlerTasks \subseteq All
    /\ \A t \in Handled : /\ t \in Tasks /\ HandlerOf[t] \in HandlerTasks
                          /\ HandlerOf[t] \in All /\ HandlerOf[t] \notin Tasks
                          /\ HandlerOf[t] \notin Handled
    /\ CacheTasks \subseteq All
BY ResumeAssumption DEF All

\* What a failure does to task.writes.
LEMMA FailWrites ==
    ASSUME NEW t \in All, NEW part, Fail(t, part)
    PROVE  /\ writes'[t] = part \cup Failure(t)
           /\ \A u \in All : u # t => writes'[u] = IF u \in Scheduled(t) THEN Reapply(stored, u)
                                                 ELSE writes[u]
<1>1. t \notin Scheduled(t)
    BY HandlerFacts DEF Scheduled
<1> QED
    BY <1>1 DEF Fail

\* put_writes keeps the types of what is in flight.
LEMMA PutWritesType ==
    ASSUME TypeOK, NEW t \in All, NEW ws \in SUBSET Kinds,
           writes' \in [All -> SUBSET Kinds], PutWrites(t, ws)
    PROVE  /\ flight' \subseteq All \X SUBSET Kinds
           /\ caching' \subseteq CacheTasks \X SUBSET Kinds
BY DEF TypeOK, PutWrites, Caches

LEMMA ResumeTypeInit == Init => TypeOK
BY ResumeAssumption DEF Init, TypeOK, Nothing, Kinds

LEMMA ResumeTypeNext == TypeOK /\ [Next]_vars => TypeOK'
<1> SUFFICES ASSUME TypeOK, [Next]_vars
             PROVE  TypeOK'
    OBVIOUS
<1>1. CASE Begin
    <2> DEFINE failed == FailedBefore(stored)
    <2> DEFINE resumed(t) == CASE t \in failed -> Reapply(stored, t) \cup {"ERROR"}
                               [] t \in Tasks \ failed -> Reapply(stored, t)
                               [] OTHER -> {}
    <2>1. failed \subseteq Handled
        BY DEF FailedBefore
    <2>2. \A t \in All : resumed(t) \subseteq Kinds
        BY ControlFacts DEF TypeOK, Reapply
    <2>3. \A t \in All : Cached(t, resumed(t)) \subseteq Kinds
        BY <2>2 DEF Cached, TypeOK
    <2>4. writes' = [t \in All |-> Cached(t, resumed(t))]
        BY <1>1 DEF Begin
    <2>5. writes' \in [All -> SUBSET Kinds]
        BY <2>3, <2>4
    <2>6. inTasks' \subseteq All
        BY <1>1, <2>1, HandlerFacts DEF Begin
    <2>7. runs' \in 0 .. LastRun
        BY <1>1, ResumeAssumption DEF Begin, TypeOK
    <2> QED
        BY <1>1, <2>5, <2>6, <2>7 DEF Begin, TypeOK
<1>2. ASSUME NEW t \in All, Start(t)
      PROVE  TypeOK'
    BY <1>2 DEF Start, TypeOK
<1>3. ASSUME NEW t \in All, Succeed(t)
      PROVE  TypeOK'
    <2>1. writes' \in [All -> SUBSET Kinds]
        BY <1>3, ControlFacts DEF Succeed, TypeOK
    <2> QED
        BY <1>3, <2>1, PutWritesType, ControlFacts DEF Succeed, TypeOK
<1>4. ASSUME NEW t \in All, Interrupt(t)
      PROVE  TypeOK'
    <2>1. writes' \in [All -> SUBSET Kinds]
        BY <1>4 DEF Interrupt, TypeOK
    <2> QED
        BY <1>4, <2>1, PutWritesType, ControlFacts DEF Interrupt, TypeOK
<1>5. ASSUME NEW t \in All, NEW part \in Partial, Fail(t, part)
      PROVE  TypeOK'
    <2>1. writes' \in [All -> SUBSET Kinds] /\ writes'[t] \in SUBSET Kinds
        <3>1. part \cup Failure(t) \subseteq Kinds
            BY ControlFacts
        <3>2. \A u \in All : Reapply(stored, u) \subseteq Kinds /\ writes[u] \subseteq Kinds
            BY DEF Reapply, TypeOK
        <3> QED
            BY <1>5, <3>1, <3>2 DEF Fail
    <2>2. inTasks' \subseteq All
        BY <1>5, HandlerFacts DEF Fail, Scheduled, TypeOK
    <2> QED
        BY <1>5, <2>1, <2>2, PutWritesType DEF Fail, TypeOK
<1>6. ASSUME NEW t \in All, NEW part \in Partial, Cancel(t, part)
      PROVE  TypeOK'
    <2>1. writes' \in [All -> SUBSET Kinds] /\ writes'[t] \in SUBSET Kinds
        BY <1>6, ControlFacts DEF Cancel, TypeOK
    <2> QED
        BY <1>6, <2>1, PutWritesType DEF Cancel, TypeOK
<1>7. ASSUME NEW w \in flight, StoreWrites(w)
      PROVE  TypeOK'
    BY <1>7 DEF StoreWrites, TypeOK
<1>8. ASSUME NEW w \in caching, StoreCache(w)
      PROVE  TypeOK'
    BY <1>8 DEF StoreCache, TypeOK
<1>9. CASE Stop \/ AfterTick \/ Persist \/ End \/ Crash \/ Rest \/ UNCHANGED vars
    BY <1>9 DEF Stop, AfterTick, Persist, End, Crash, Rest, vars, TypeOK
<1> QED
    BY <1>1, <1>2, <1>3, <1>4, <1>5, <1>6, <1>7, <1>8, <1>9 DEF Next

\* Every variable of the superstep keeps its type.
THEOREM ResumeTypeCorrect == Spec => []TypeOK
<1>1. Init => TypeOK
    BY ResumeTypeInit
<1>2. TypeOK /\ [Next]_vars => TypeOK'
    BY ResumeTypeNext
<1> QED
    BY <1>1, <1>2, PTL DEF Spec

-----------------------------------------------------------------------------
(* What is in flight belongs to tasks that ended in this run.              *)

FlightInv ==
    /\ pc = "idle" => flight = {} /\ caching = {}
    /\ \A w \in flight : state[w[1]] = "ended"
    /\ \A t \in All : state[t] = "running" => pc \in {"run", "stop"} /\ t \in inTasks
    /\ pc # "idle" => Tasks \subseteq inTasks

LEMMA FlightInit == Init => FlightInv
BY DEF Init, FlightInv

LEMMA FlightNext == TypeOK /\ FlightInv /\ [Next]_vars => FlightInv'
<1> SUFFICES ASSUME TypeOK, FlightInv, [Next]_vars
             PROVE  FlightInv'
    OBVIOUS
<1>1. CASE Begin
    BY <1>1 DEF Begin, FlightInv, TypeOK
<1>2. ASSUME NEW t \in All, Start(t)
      PROVE  FlightInv'
    BY <1>2 DEF Start, FlightInv, TypeOK
<1>3. ASSUME NEW t \in All, NEW ws, PutWrites(t, ws),
             state' = [state EXCEPT ![t] = "ended"],
             pc' = pc, pc \in {"run", "stop"}, inTasks \subseteq inTasks'
      PROVE  FlightInv'
    BY <1>3 DEF PutWrites, FlightInv, TypeOK
<1>4. ASSUME NEW t \in All, Succeed(t) \/ Interrupt(t)
      PROVE  FlightInv'
    BY <1>3, <1>4 DEF Succeed, Interrupt
<1>5. ASSUME NEW t \in All, NEW part \in Partial, Fail(t, part) \/ Cancel(t, part)
      PROVE  FlightInv'
    BY <1>3, <1>5 DEF Fail, Cancel
<1>6. ASSUME NEW w \in flight, StoreWrites(w)
      PROVE  FlightInv'
    BY <1>6 DEF StoreWrites, FlightInv
<1>7. ASSUME NEW w \in caching, StoreCache(w)
      PROVE  FlightInv'
    BY <1>7 DEF StoreCache, FlightInv
<1>8. CASE Crash
    BY <1>8 DEF Crash, FlightInv
<1>9. CASE Persist
    BY <1>9 DEF Persist, FlightInv
<1>10. CASE AfterTick
    BY <1>10 DEF AfterTick, AllEnded, FlightInv, All, TypeOK
<1>11. CASE Stop \/ End \/ Rest \/ UNCHANGED vars
    BY <1>11 DEF Stop, End, Rest, vars, FlightInv
<1> QED
    BY <1>1, <1>2, <1>4, <1>5, <1>6, <1>7, <1>8, <1>9, <1>10, <1>11 DEF Next

-----------------------------------------------------------------------------
(* Error handlers.                                                         *)

\* A marker is stored together with the error, and only for a node with a
\* handler; a task that may still be started has none.
MarkInv ==
    /\ \A t \in All : "ERROR_SOURCE_NODE" \in stored[t] =>
           t \in Handled /\ "ERROR" \in stored[t]
    /\ \A w \in flight : "ERROR_SOURCE_NODE" \in w[2] =>
           w[1] \in Handled /\ "ERROR" \in w[2]
    /\ pc = "run" => \A t \in inTasks :
           state[t] = "none" /\ writes[t] = {} => "ERROR_SOURCE_NODE" \notin stored[t]

LEMMA MarkInit == Init => MarkInv
BY DEF Init, MarkInv, Nothing

LEMMA MarkNext == TypeOK /\ FlightInv /\ MarkInv /\ [Next]_vars => MarkInv'
<1> SUFFICES ASSUME TypeOK, FlightInv, MarkInv, [Next]_vars
             PROVE  MarkInv'
    OBVIOUS
<1>1. CASE Begin
    <2>1. \A t \in All : "ERROR_SOURCE_NODE" \in stored[t] => t \in FailedBefore(stored)
        BY DEF MarkInv, FailedBefore
    <2>2. \A t \in FailedBefore(stored) : writes'[t] # {}
        BY <1>1, HandlerFacts DEF Begin, Cached, FailedBefore
    <2>3. stored' = stored /\ flight' = flight /\ inTasks' \subseteq All
        BY <1>1, HandlerFacts DEF Begin, FailedBefore
    <2> QED
        BY <2>1, <2>2, <2>3 DEF MarkInv
<1>2. ASSUME NEW t \in All, Start(t)
      PROVE  MarkInv'
    BY <1>2 DEF Start, MarkInv, TypeOK
<1>3. ASSUME NEW t \in All, NEW ws, PutWrites(t, ws),
             "ERROR_SOURCE_NODE" \in ws => t \in Handled /\ "ERROR" \in ws,
             state' = [state EXCEPT ![t] = "ended"], stored' = stored, pc' = pc,
             \A u \in inTasks : u # t => writes'[u] = writes[u],
             \A u \in inTasks' : u \in inTasks \/ u \in HandlerTasks
      PROVE  MarkInv'
    <2>1. \A u \in inTasks' : u \in inTasks \/ "ERROR_SOURCE_NODE" \notin stored[u]
        BY <1>3, HandlerFacts, ResumeAssumption DEF MarkInv
    <2>2. \A u \in inTasks' : u \in All
        BY <1>3, HandlerFacts DEF TypeOK
    <2>3. state'[t] = "ended" /\ \A u \in All : u # t => state'[u] = state[u]
        BY <1>3 DEF TypeOK
    <2>4. pc' = "run" => \A u \in inTasks' :
             state'[u] = "none" /\ writes'[u] = {} => "ERROR_SOURCE_NODE" \notin stored'[u]
        BY <1>3, <2>1, <2>2, <2>3 DEF MarkInv
    <2>5. \A w \in flight' : "ERROR_SOURCE_NODE" \in w[2] =>
             w[1] \in Handled /\ "ERROR" \in w[2]
        BY <1>3 DEF PutWrites, MarkInv
    <2> QED
        BY <1>3, <2>4, <2>5 DEF MarkInv
<1>4. ASSUME NEW t \in All, Succeed(t) \/ Interrupt(t)
      PROVE  MarkInv'
    BY <1>3, <1>4 DEF Succeed, Interrupt, Complete, TypeOK
<1>5. ASSUME NEW t \in All, NEW part \in Partial, Fail(t, part) \/ Cancel(t, part)
      PROVE  MarkInv'
    <2>1. "ERROR_SOURCE_NODE" \notin part
        BY DEF Partial
    <2>2. /\ "ERROR_SOURCE_NODE" \in writes'[t] => t \in Handled
          /\ "ERROR" \in writes'[t]
        <3>1. writes'[t] \in {part \cup Failure(t), part \cup {"ERROR"}}
            BY <1>5, FailWrites DEF Cancel, TypeOK
        <3> QED
            BY <2>1, <3>1, ControlFacts
    <2>3. \A u \in inTasks' : u \in inTasks \/ u \in HandlerTasks
        BY <1>5, HandlerFacts DEF Fail, Cancel, Scheduled
    <2>4. \A u \in inTasks : u # t => writes'[u] = writes[u]
        BY <1>5 DEF Fail, Cancel, Scheduled, TypeOK
    <2> QED
        BY <1>3, <1>5, <2>2, <2>3, <2>4 DEF Fail, Cancel
<1>6. ASSUME NEW w \in flight, StoreWrites(w)
      PROVE  MarkInv'
    <2>1. w[1] \in All /\ state[w[1]] = "ended"
        BY DEF TypeOK, FlightInv
    <2>2. \A t \in All : stored'[t] = IF t = w[1] THEN stored[t] \cup w[2] ELSE stored[t]
        BY <1>6 DEF StoreWrites, TypeOK
    <2>3. \A t \in inTasks : t \in All
        BY DEF TypeOK
    <2> QED
        BY <1>6, <2>1, <2>2, <2>3 DEF StoreWrites, MarkInv
<1>7. ASSUME NEW w \in caching, StoreCache(w)
      PROVE  MarkInv'
    BY <1>7 DEF StoreCache, MarkInv
<1>8. CASE Stop \/ AfterTick \/ Persist \/ End \/ Crash \/ Rest \/ UNCHANGED vars
    BY <1>8 DEF Stop, AfterTick, Persist, End, Crash, Rest, vars, MarkInv
<1> QED
    BY <1>1, <1>2, <1>4, <1>5, <1>6, <1>7, <1>8 DEF Next

\* Only Start makes a task running.
LEMMA OnlyStart ==
    ASSUME TypeOK, [Next]_vars, NEW t \in All, IsStarted(t)
    PROVE  pc = "run" /\ t \in inTasks /\ state[t] = "none" /\ writes[t] = {}
<1>1. ASSUME NEW u \in All, Start(u)
      PROVE  u = t
    BY <1>1 DEF Start, IsStarted, TypeOK
<1>2. \E u \in All : Start(u)
    BY DEF Next, Begin, Stop, AfterTick, Persist, End, Crash, Rest, vars, Succeed,
           Interrupt, Fail, Cancel, StoreWrites, StoreCache, IsStarted, TypeOK
<1> QED
    BY <1>1, <1>2 DEF Start

\* Whatever crashes happen and however many runs it takes, a node whose
\* failure marker is durable is never started again: its handler is.
THEOREM FailedNodeNotRerun == Spec => HandlerInstead
<1> DEFINE IInv == TypeOK /\ FlightInv /\ MarkInv
<1>1. Init => IInv
    BY ResumeTypeInit, FlightInit, MarkInit
<1>2. IInv /\ [Next]_vars => IInv'
    BY ResumeTypeNext, FlightNext, MarkNext
<1>3. IInv /\ [Next]_vars =>
          [\A t \in All : IsStarted(t) => "ERROR_SOURCE_NODE" \notin stored[t]]_vars
    BY OnlyStart DEF MarkInv
<1> QED
    BY <1>1, <1>2, <1>3, PTL DEF Spec, HandlerInstead

-----------------------------------------------------------------------------
(* Successful tasks.                                                       *)

\* A node's task that may still be started has no durable success.
RerunInv ==
    pc = "run" => \A t \in Tasks :
        state[t] = "none" /\ writes[t] = {} => ~(Complete \subseteq stored[t])

LEMMA RerunNext ==
    ASSUME TypeOK, FlightInv, RerunInv, [Next]_vars
    PROVE  RerunInv'
<1> USE DEF All
<1>1. CASE Begin
    <2>1. \A t \in Tasks : Complete \subseteq stored[t] => Reapply(stored, t) # {}
        BY ControlFacts DEF Reapply
    <2>2. ASSUME NEW t \in Tasks, Complete \subseteq stored[t]
          PROVE  writes'[t] # {}
        <3> DEFINE failed == FailedBefore(stored)
        <3>1. CASE t \in failed
            <4>1. writes'[t] = Cached(t, Reapply(stored, t) \cup {"ERROR"})
                BY <1>1, <3>1 DEF Begin
            <4> QED
                BY <4>1 DEF Cached
        <3>2. CASE t \notin failed
            <4>1. writes'[t] = Cached(t, Reapply(stored, t))
                BY <1>1, <3>2 DEF Begin
            <4> QED
                BY <4>1, <2>1, <2>2 DEF Cached
        <3> QED
            BY <3>1, <3>2
    <2> QED
        BY <1>1, <2>2 DEF Begin, RerunInv
<1>2. ASSUME NEW t \in All, Start(t)
      PROVE  RerunInv'
    BY <1>2 DEF Start, RerunInv, TypeOK
<1>3. ASSUME NEW t \in All, state' = [state EXCEPT ![t] = "ended"], stored' = stored,
             pc' = pc, \A u \in Tasks : u # t => writes'[u] = writes[u]
      PROVE  RerunInv'
    BY <1>3 DEF RerunInv, TypeOK
<1>4. ASSUME NEW t \in All, Succeed(t) \/ Interrupt(t)
      PROVE  RerunInv'
    BY <1>3, <1>4 DEF Succeed, Interrupt, TypeOK
<1>5. ASSUME NEW t \in All, NEW part \in Partial, Fail(t, part)
      PROVE  RerunInv'
    <2>1. Scheduled(t) \cap Tasks = {}
        BY ResumeAssumption DEF Scheduled
    <2>2. \A u \in Tasks : u # t => writes'[u] = writes[u]
        BY <1>5, <2>1 DEF Fail
    <2> QED
        BY <1>3, <1>5, <2>2 DEF Fail
<1>6. ASSUME NEW t \in All, NEW part \in Partial, Cancel(t, part)
      PROVE  RerunInv'
    BY <1>3, <1>6 DEF Cancel, TypeOK
<1>7. ASSUME NEW w \in flight, StoreWrites(w)
      PROVE  RerunInv'
    <2>1. w[1] \in All /\ state[w[1]] = "ended"
        BY DEF TypeOK, FlightInv
    <2>2. \A t \in All : t # w[1] => stored'[t] = stored[t]
        BY <1>7 DEF StoreWrites, TypeOK
    <2> QED
        BY <1>7, <2>1, <2>2 DEF StoreWrites, RerunInv
<1>8. ASSUME NEW w \in caching, StoreCache(w)
      PROVE  RerunInv'
    BY <1>8 DEF StoreCache, RerunInv
<1>9. CASE Stop \/ AfterTick \/ Persist \/ End \/ Crash \/ Rest \/ UNCHANGED vars
    BY <1>9 DEF Stop, AfterTick, Persist, End, Crash, Rest, vars, RerunInv
<1> QED
    BY <1>1, <1>2, <1>4, <1>5, <1>6, <1>7, <1>8, <1>9 DEF Next

\* A task whose successful writes are durable is never executed again, by any
\* later run: with or without error handlers, cached nodes, late failures.
THEOREM SuccessfulNotRerun == Spec => NoRerun
<1> DEFINE IInv == TypeOK /\ FlightInv /\ RerunInv
<1>1. Init => IInv
    <2>1. Init => RerunInv
        BY DEF Init, RerunInv
    <2> QED
        BY <2>1, ResumeTypeInit, FlightInit
<1>2. IInv /\ [Next]_vars => IInv'
    BY ResumeTypeNext, FlightNext, RerunNext
<1>3. IInv /\ [Next]_vars =>
          [\A t \in Tasks : IsStarted(t) => ~(Complete \subseteq stored[t])]_vars
    BY OnlyStart DEF RerunInv, All
<1> QED
    BY <1>1, <1>2, <1>3, PTL DEF Spec, NoRerun

-----------------------------------------------------------------------------
(* What the superstep applies.                                             *)

Whole(ws) == ws \cap Complete = {} \/ Complete \subseteq ws

\* What is durable, in flight or cached of a task is all of a success or
\* nothing of it, and a task of this run has nothing, all, or failed with its
\* handler taking over.
WholeInv ==
    /\ \A t \in All : Whole(stored[t])
    /\ \A w \in flight : Whole(w[2])
    /\ \A w \in caching : w[2] = Complete
    /\ \A t \in CacheTasks : cache[t] = {} \/ cache[t] = Complete
    /\ \A t \in inTasks :
          /\ state[t] = "running" => writes[t] = {}
          /\ state[t] = "none" /\ pc # "idle" =>
                 \/ writes[t] = {} \/ Complete \subseteq writes[t]
                 \/ /\ t \in Handled /\ "ERROR" \in writes[t]
                    /\ HandlerOf[t] \in inTasks
          /\ state[t] = "ended" /\ pc # "idle" =>
                 \/ writes[t] = {} \/ Complete \subseteq writes[t]
                 \/ /\ "ERROR" \in writes[t]
                    /\ pc = "run" /\ t \in Handled => HandlerOf[t] \in inTasks
    /\ \A t \in All : t \notin inTasks /\ pc # "idle" => writes[t] = {}
    /\ pc # "idle" => \A t \in All : t \notin inTasks => state[t] = "none"
    /\ AppliedWhole

LEMMA WholeInit == Init => WholeInv
BY DEF Init, WholeInv, Whole, Nothing, AppliedWhole

LEMMA WholeBegin ==
    ASSUME TypeOK, FlightInv, WholeInv, Begin
    PROVE  WholeInv'
<1> DEFINE failed == FailedBefore(stored)
<1> DEFINE hs == {HandlerOf[t] : t \in failed}
<1> DEFINE resumed(t) == CASE t \in failed -> Reapply(stored, t) \cup {"ERROR"}
                           [] t \in Tasks \ failed -> Reapply(stored, t)
                           [] OTHER -> {}
<1>1. failed \subseteq Handled /\ Handled \subseteq Tasks
    BY ResumeAssumption DEF FailedBefore
<1>2. /\ inTasks' = Tasks \cup hs
      /\ \A t \in All : writes'[t] = Cached(t, resumed(t)) /\ state'[t] = "none"
      /\ pc' = "run" /\ UNCHANGED <<flight, caching, stored, cache>>
    BY DEF Begin
<1>3. \A t \in Tasks : Reapply(stored, t) = {} \/ Complete \subseteq Reapply(stored, t)
    BY ControlFacts DEF WholeInv, Whole, Reapply, TypeOK, All
<1>4. \A t \in failed : "ERROR" \in writes'[t] /\ HandlerOf[t] \in inTasks' /\ t \in Handled
    BY <1>1, <1>2, HandlerFacts DEF Cached
<1>5. \A t \in Tasks \ failed : writes'[t] = {} \/ Complete \subseteq writes'[t]
    <2> SUFFICES ASSUME NEW t \in Tasks, t \notin failed
                 PROVE  writes'[t] = {} \/ Complete \subseteq writes'[t]
        OBVIOUS
    <2>1. t \in All /\ resumed(t) = Reapply(stored, t)
        BY HandlerFacts
    <2>2. writes'[t] = Cached(t, Reapply(stored, t))
        BY <1>2, <2>1
    <2>3. t \in CacheTasks => cache[t] = {} \/ cache[t] = Complete
        BY DEF WholeInv
    <2> QED
        BY <1>3, <2>2, <2>3 DEF Cached
<1>6. \A t \in All \ Tasks : writes'[t] = {}
    BY <1>1, <1>2, ResumeAssumption DEF Cached
<1>7. hs \cap Tasks = {} /\ hs \subseteq All
    BY <1>1, HandlerFacts
<1>8. \A t \in inTasks' : t \in All
    BY <1>2, <1>7, HandlerFacts
<1>9. \A t \in inTasks' : \/ writes'[t] = {} \/ Complete \subseteq writes'[t]
                           \/ /\ t \in Handled /\ "ERROR" \in writes'[t]
                              /\ HandlerOf[t] \in inTasks'
    BY <1>2, <1>4, <1>5, <1>6, <1>7
<1>10. AppliedWhole'
    BY <1>2 DEF AppliedWhole
<1>11. \A t \in All : t \notin inTasks' => writes'[t] = {} /\ state'[t] = "none"
    BY <1>2, <1>6
<1> QED
    BY <1>2, <1>8, <1>9, <1>10, <1>11 DEF WholeInv

\* The task t ends, commit saves ws and task.writes are as its outcome allows.
TaskEnds(t, ws) ==
    /\ pc \in {"run", "stop"} /\ pc' = pc /\ UNCHANGED <<stored, cache>>
    /\ PutWrites(t, ws)
    /\ Whole(ws) /\ (ws \cap Complete # {} => writes'[t] = Complete)
    /\ state' = [state EXCEPT ![t] = "ended"]
    /\ inTasks \subseteq inTasks' /\ inTasks' \subseteq All
    /\ \A u \in All : u # t => writes'[u] = IF u \in inTasks' \ inTasks THEN Reapply(stored, u)
                                          ELSE writes[u]
    /\ \/ writes'[t] = {} \/ Complete \subseteq writes'[t]
       \/ /\ "ERROR" \in writes'[t]
          /\ pc = "run" /\ t \in Handled => HandlerOf[t] \in inTasks'

\* Such an end preserves WholeInv.
LEMMA WholeEnd ==
    ASSUME TypeOK, FlightInv, WholeInv, Loop = "async",
           NEW t \in inTasks, NEW ws, TaskEnds(t, ws)
    PROVE  WholeInv'
<1> USE DEF TaskEnds
<1>1. t \in All /\ inTasks' \subseteq All /\ inTasks \subseteq inTasks'
    BY HandlerFacts DEF TypeOK
<1>2. /\ state'[t] = "ended"
      /\ \A u \in All : u # t => state'[u] = state[u]
    BY <1>1 DEF TypeOK
<1>3. \A w \in flight' : Whole(w[2])
    BY DEF PutWrites, WholeInv
<1>4. \A w \in caching' : w[2] = Complete
    BY DEF PutWrites, Caches, WholeInv
<1>5. AppliedWhole'
    BY DEF AppliedWhole
<1>6. \A u \in inTasks' \ inTasks :
          u # t /\ state'[u] = "none" /\ (writes'[u] = {} \/ Complete \subseteq writes'[u])
    <2>1. \A u \in All : Reapply(stored, u) = {} \/ Complete \subseteq Reapply(stored, u)
        BY ControlFacts DEF WholeInv, Whole, Reapply, TypeOK
    <2> QED
        BY <1>1, <1>2, <2>1 DEF WholeInv
<1>7. ASSUME NEW u \in inTasks'
      PROVE  /\ state'[u] = "running" => writes'[u] = {}
             /\ state'[u] = "none" =>
                   \/ writes'[u] = {} \/ Complete \subseteq writes'[u]
                   \/ /\ u \in Handled /\ "ERROR" \in writes'[u]
                      /\ HandlerOf[u] \in inTasks'
             /\ state'[u] = "ended" =>
                   \/ writes'[u] = {} \/ Complete \subseteq writes'[u]
                   \/ /\ "ERROR" \in writes'[u]
                      /\ pc = "run" /\ u \in Handled => HandlerOf[u] \in inTasks'
    <2>1. CASE u = t
        BY <1>2, <2>1
    <2>2. CASE u \notin inTasks
        BY <1>6, <2>2
    <2>3. CASE u # t /\ u \in inTasks
        BY <1>1, <1>2, <2>3 DEF WholeInv
    <2> QED
        BY <2>1, <2>2, <2>3
<1>8. \A u \in All : u \notin inTasks' => writes'[u] = {} /\ state'[u] = "none"
    BY <1>1, <1>2 DEF WholeInv
<1> QED
    BY <1>3, <1>4, <1>5, <1>7, <1>8 DEF WholeInv

LEMMA WholeNext ==
    ASSUME LateFailure = FALSE, Loop = "async", TypeOK, FlightInv, WholeInv,
           [Next]_vars
    PROVE  WholeInv'
<1>1. CASE Begin
    BY <1>1, WholeBegin
<1>2. ASSUME NEW t \in All, Start(t)
      PROVE  WholeInv'
    BY <1>2 DEF Start, WholeInv, AppliedWhole, TypeOK
<1>3. ASSUME NEW t \in All, Succeed(t)
      PROVE  WholeInv'
    <2>1. t \in inTasks /\ writes'[t] = Complete /\ Whole(Complete)
        BY <1>3 DEF Succeed, FlightInv, TypeOK, Whole
    <2>2. /\ pc \in {"run", "stop"} /\ pc' = pc /\ PutWrites(t, Complete)
          /\ state' = [state EXCEPT ![t] = "ended"] /\ inTasks' = inTasks
          /\ UNCHANGED <<stored, cache>>
        BY <1>3 DEF Succeed
    <2>3. \A u \in All : u # t => writes'[u] = writes[u]
        BY <1>3 DEF Succeed, TypeOK
    <2> QED
        <3>1. TaskEnds(t, Complete)
            BY <2>1, <2>2, <2>3 DEF TaskEnds, TypeOK
        <3> QED
            BY <2>1, <3>1, WholeEnd
<1>4. ASSUME NEW t \in All, Interrupt(t)
      PROVE  WholeInv'
    <2>1. t \in inTasks /\ writes'[t] = {}
        BY <1>4 DEF Interrupt, FlightInv, WholeInv
    <2>2. {"INTERRUPT"} \cap Complete = {} /\ Whole({"INTERRUPT"})
        BY DEF Whole, Complete
    <2>3. /\ pc \in {"run", "stop"} /\ pc' = pc /\ PutWrites(t, {"INTERRUPT"})
          /\ state' = [state EXCEPT ![t] = "ended"] /\ inTasks' = inTasks
          /\ UNCHANGED <<stored, cache>>
        BY <1>4 DEF Interrupt
    <2>4. \A u \in All : u # t => writes'[u] = writes[u]
        BY <1>4 DEF Interrupt
    <2> QED
        <3>1. TaskEnds(t, {"INTERRUPT"})
            BY <2>1, <2>2, <2>3, <2>4 DEF TaskEnds, TypeOK
        <3> QED
            BY <2>1, <3>1, WholeEnd
<1>5. ASSUME NEW t \in All, NEW part \in Partial, Fail(t, part)
      PROVE  WholeInv'
    <2>1. t \in inTasks /\ part = {}
        BY <1>5 DEF Fail, FlightInv, Partial
    <2>2. writes'[t] = Failure(t) /\ "ERROR" \in Failure(t)
        <3>1. writes'[t] = part \cup Failure(t)
            BY <1>5, FailWrites
        <3> QED
            BY <2>1, <3>1, ControlFacts
    <2>3. writes'[t] \cap Complete = {} /\ Whole(writes'[t])
        BY <2>2 DEF Failure, Complete, Whole
    <2>4. pc = "run" /\ t \in Handled => HandlerOf[t] \in inTasks'
        BY <1>5 DEF Fail, Scheduled
    <2>5. /\ pc \in {"run", "stop"} /\ pc' = pc /\ PutWrites(t, writes'[t])
          /\ state' = [state EXCEPT ![t] = "ended"]
          /\ UNCHANGED <<stored, cache>>
        BY <1>5 DEF Fail
    <2>6. inTasks \subseteq inTasks' /\ inTasks' \subseteq All
        BY <1>5, HandlerFacts DEF Fail, Scheduled, TypeOK
    <2>7. \A u \in All : u # t => writes'[u] = IF u \in inTasks' \ inTasks
                                            THEN Reapply(stored, u) ELSE writes[u]
        BY <1>5 DEF Fail, Scheduled
    <2>8. "ERROR" \in writes'[t]
        BY <2>2
    <2> QED
        <3>1. TaskEnds(t, Failure(t))
            BY <2>2, <2>3, <2>4, <2>5, <2>6, <2>7, <2>8 DEF TaskEnds
        <3> QED
            BY <2>1, <3>1, WholeEnd
<1>6. ASSUME NEW t \in All, NEW part \in Partial, Cancel(t, part)
      PROVE  WholeInv'
    <2>1. t \in inTasks /\ part = {}
        BY <1>6 DEF Cancel, Partial
    <2>2. writes'[t] = {"ERROR"}
        BY <1>6, <2>1 DEF Cancel, TypeOK
    <2>3. writes'[t] \cap Complete = {} /\ Whole(writes'[t])
        BY <2>2 DEF Complete, Whole
    <2>4. /\ pc = "stop" /\ pc' = pc /\ PutWrites(t, writes'[t])
          /\ state' = [state EXCEPT ![t] = "ended"] /\ inTasks' = inTasks
          /\ UNCHANGED <<stored, cache>>
        BY <1>6 DEF Cancel
    <2>5. \A u \in All : u # t => writes'[u] = writes[u]
        BY <1>6 DEF Cancel, TypeOK
    <2>6. "ERROR" \in writes'[t] /\ pc \in {"run", "stop"} /\ pc # "run"
        BY <2>2, <2>4
    <2> QED
        <3>1. TaskEnds(t, {"ERROR"})
            BY <2>2, <2>3, <2>4, <2>5, <2>6 DEF TaskEnds, TypeOK
        <3> QED
            BY <2>1, <3>1, WholeEnd
<1>7. ASSUME NEW w \in flight, StoreWrites(w)
      PROVE  WholeInv'
    <2>1. w[1] \in All /\ Whole(w[2])
        BY DEF TypeOK, WholeInv
    <2>2. /\ stored' [w[1]] = stored[w[1]] \cup w[2]
          /\ \A t \in All : t # w[1] => stored'[t] = stored[t]
        BY <1>7, <2>1 DEF StoreWrites, TypeOK
    <2>3. Whole(stored[w[1]] \cup w[2])
        BY <2>1 DEF WholeInv, Whole
    <2>4. \A t \in All : Whole(stored'[t])
        BY <2>2, <2>3 DEF WholeInv
    <2> QED
        BY <1>7, <2>4 DEF StoreWrites, WholeInv, AppliedWhole
<1>8. ASSUME NEW w \in caching, StoreCache(w)
      PROVE  WholeInv'
    <2>1. w[1] \in CacheTasks /\ w[2] = Complete
        BY DEF TypeOK, WholeInv
    <2>2. \A t \in CacheTasks : cache'[t] = {} \/ cache'[t] = Complete
        BY <1>8, <2>1 DEF StoreCache, TypeOK, WholeInv
    <2> QED
        BY <1>8, <2>2 DEF StoreCache, WholeInv, AppliedWhole
<1>9. CASE AfterTick
    <2>1. /\ pc = "run" /\ pc' = "applied"
          /\ UNCHANGED <<inTasks, writes, state, flight, caching, stored, cache>>
        BY <1>9 DEF AfterTick
    <2>2. \A t \in inTasks : /\ state[t] \in {"none", "ended"} /\ writes[t] # {}
                             /\ t \notin Handled /\ state[t] = "ended" =>
                                    "ERROR" \notin writes[t]
        BY <1>9 DEF AfterTick, AllEnded, Fatal, Interrupted, TypeOK
    <2>3. \A t \in inTasks : \/ Complete \subseteq writes[t]
                             \/ /\ t \in Handled /\ "ERROR" \in writes[t]
                                /\ HandlerOf[t] \in inTasks
        BY <2>1, <2>2 DEF WholeInv
    <2>4. AppliedWhole'
        BY <2>1, <2>3, HandlerFacts DEF AppliedWhole, FlightInv
    <2> QED
        BY <2>1, <2>4 DEF WholeInv
<1>10. CASE Crash
    BY <1>10 DEF Crash, WholeInv, AppliedWhole, TypeOK
<1>11. CASE Stop \/ End \/ Persist
    BY <1>11 DEF Stop, End, Persist, WholeInv, AppliedWhole
<1>12. CASE Rest \/ UNCHANGED vars
    BY <1>12 DEF Rest, vars, WholeInv, AppliedWhole
<1> QED
    BY <1>1, <1>2, <1>3, <1>4, <1>5, <1>6, <1>7, <1>8, <1>9, <1>10, <1>11, <1>12
    DEF Next

\* With the async loop, when no later writer of a node raises: in whatever run
\* the superstep is applied, after any crashes, every task contributes the
\* writes of a whole success, or it failed and its handler does.
THEOREM SuperstepAppliedWhole ==
    ASSUME LateFailure = FALSE, Loop = "async"
    PROVE  Spec => []AppliedWhole
<1> DEFINE IInv == TypeOK /\ FlightInv /\ WholeInv
<1>1. Init => IInv
    BY ResumeTypeInit, FlightInit, WholeInit
<1>2. IInv /\ [Next]_vars => IInv'
    BY ResumeTypeNext, FlightNext, WholeNext
<1>3. IInv => AppliedWhole
    BY DEF WholeInv
<1> QED
    BY <1>1, <1>2, <1>3, PTL DEF Spec
=============================================================================
