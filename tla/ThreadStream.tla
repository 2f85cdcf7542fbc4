---------------------------- MODULE ThreadStream ----------------------------
(***************************************************************************)
(* AsyncThreadStream of the SDK: subscriptions of one client to the events *)
(* of a thread, served from one shared connection.  A subscription that    *)
(* the connection does not cover makes it rotate: a wider stream is opened *)
(* before the old one is closed.  _fanout is the one task that reads the   *)
(* shared stream and fills the queues of the subscriptions; after a drop   *)
(* it opens the stream again from the cursor.                              *)
(*                                                                         *)
(* External: the server, whose streams carry, in order, the events that    *)
(* their filter matches and that come after their "since".  An event's id  *)
(* and its seq are its place in log.                                       *)
(***************************************************************************)
EXTENDS Subscriptions, FiniteSetsExt

CONSTANTS
    Subs,         \* the subscriptions there will be
    Params,       \* Params[s]: the filter of s
    Kinds,        \* the channels of the events a run emits
    MaxEvents,    \* bound on the events of the run, the last one included
    MaxQueue,     \* max_queue_size
    MaxAttempts,  \* _shared_max_reconnect_attempts
    MaxFaults     \* bound on connections that fail and on command responses
                  \* with applied_through_seq, together

VARIABLES
    log,       \* the events of the run so far
    streams,   \* the streams opened: filter, pos (seq read last), state
    shared,    \* _shared_stream, 0: None
    filter,    \* _shared_stream_filter
    cursor,    \* _cursor, 0: None
    seen,      \* _seen_event_ids
    fan,       \* the task _fanout: pc, cur, base, attempt, new
    state,     \* state[s]: idle, registered, opening, iterating, ended, raised
    waits,     \* waits[s]: the stream that s has opened and the one before it
    queue,     \* queue[s]
    got,       \* got[s]: the events s has yielded
    closed,    \* _closed
    faults,    \* drops and jumps so far
    start,     \* start[s]: the seq after which s is owed every event, or NoSeq
    jumped,    \* whether the cursor has passed events that were not read
    full       \* whether a queue was full

streamVars == <<streams, shared, filter>>
subVars    == <<state, waits, queue, got>>
noteVars   == <<faults, start, jumped, full>>
vars == <<log, streamVars, cursor, seen, fan, subVars, closed, noteVars>>

End      == 0             \* the None sentinel
NoSeq    == -1
Terminal == Channel("lifecycle")
Idle     == [pc |-> "none", cur |-> 0, base |-> Unscoped({}), attempt |-> 0, new |-> 0]

TypeOK ==
    /\ log \in Seq([channel : Kinds \cup {Terminal}, namespace : {<<>>}])
    /\ shared \in 0..Len(streams) /\ cursor \in 0..Len(log)
    /\ seen \subseteq DOMAIN log
    /\ fan.pc \in {"none", "reading", "stuck", "reconnecting", "awaiting", "done", "cancelled"}
    /\ state \in [Subs -> {"idle", "registered", "opening", "iterating", "ended", "raised"}]
    /\ \A s \in Subs : Len(queue[s]) <= MaxQueue /\ start[s] \in Nat \cup {NoSeq}

Init ==
    /\ log = <<>> /\ streams = <<>> /\ shared = 0 /\ filter = Unscoped({})
    /\ cursor = 0 /\ seen = {} /\ fan = Idle
    /\ state = [s \in Subs |-> "idle"]
    /\ waits = [s \in Subs |-> [new |-> 0, old |-> 0]]
    /\ queue = [s \in Subs |-> <<>>] /\ got = [s \in Subs |-> <<>>]
    /\ closed = FALSE /\ faults = 0
    /\ start = [s \in Subs |-> NoSeq] /\ jumped = FALSE /\ full = FALSE

Registered == {s \in Subs : state[s] \in {"registered", "opening", "iterating"}}

Matches(i, s) == MatchesSubscription(log[i], Params[s])
-----------------------------------------------------------------------------
(* The server and the network.                                             *)

\* The run emits an event; its last one is the terminal lifecycle event.  What
\* it emits once the client is closed is not looked at.
Emit ==
    /\ ~closed /\ Len(log) < MaxEvents /\ (log # <<>> => log[Len(log)].channel # Terminal)
    /\ \E ch \in Kinds \cup {Terminal} :
          /\ Len(log) = MaxEvents - 1 => ch = Terminal
          /\ log' = Append(log, [channel |-> ch, namespace |-> <<>>])
    /\ UNCHANGED <<streamVars, cursor, seen, fan, subVars, closed, noteVars>>

Opened(f, since) == [filter |-> f, pos |-> since, state |-> "opening"]

Accept(n) ==
    /\ streams[n].state \in {"opening", "aborting"}
    /\ streams' = [streams EXCEPT ![n].state = IF @ = "opening" THEN "ready" ELSE "closing"]
    /\ UNCHANGED <<log, shared, filter, cursor, seen, fan, subVars, closed, noteVars>>

\* A connection is refused or fails, or the server ends the response.
Drop(n) ==
    /\ streams[n].state \in {"opening", "ready"} /\ faults < MaxFaults
    /\ \E how \in IF streams[n].state = "opening" THEN {"refused"} ELSE {"dropped", "closed"} :
          streams' = [streams EXCEPT ![n].state = how]
    /\ faults' = faults + 1
    /\ UNCHANGED <<log, shared, filter, cursor, seen, fan, subVars, closed, start, jumped, full>>

\* _close_after: the task that closes the old stream of a rotation.  The pump of
\* a stream that was not answered yet is cancelled, and ready is never set.
CloseOld(n) ==
    /\ streams[n].state \in {"closing", "aborting"}
    /\ streams' = [streams EXCEPT ![n].state = IF @ = "closing" THEN "closed" ELSE "abandoned"]
    /\ UNCHANGED <<log, shared, filter, cursor, seen, fan, subVars, closed, noteVars>>

\* observe_applied_through_seq: the response to a command tells a seq.
Jump ==
    /\ ~closed /\ faults < MaxFaults /\ cursor < Len(log)
    /\ faults' = faults + 1 /\ cursor' = Len(log) /\ jumped' = TRUE
    /\ UNCHANGED <<log, streamVars, seen, fan, subVars, closed, start, full>>
-----------------------------------------------------------------------------
(* A subscription.                                                         *)

\* Everything that s asks for and that the cursor has passed was read, and the
\* stream that is read covers s.
Steady(s) ==
    /\ fan.pc = "reading" /\ FilterCovers(streams[fan.cur].filter, Params[s])
    /\ FilterCovers(filter, Params[s])
    /\ \A i \in 1..cursor : Matches(i, s) => i \in seen

\* _register_subscription; then _reconcile_stream waits for run.start.
Register(s) ==
    /\ state[s] = "idle"
    /\ state' = [state EXCEPT ![s] = IF closed THEN "ended" ELSE "registered"]
    /\ start' = [start EXCEPT ![s] = IF ~closed /\ Steady(s) THEN cursor ELSE NoSeq]
    /\ UNCHANGED <<log, streamVars, cursor, seen, fan, waits, queue, got, closed, faults,
                   jumped, full>>

\* _ensure_fanout_running
Ensured == IF fan.pc \in {"none", "done", "cancelled"} THEN [Idle EXCEPT !.pc = "reading", !.cur = shared]
           ELSE fan

Covered(s) == shared # 0 /\ FilterCovers(filter, Params[s])

ReconcileCovered(s) ==
    /\ state[s] = "registered" /\ Covered(s)
    /\ state' = [state EXCEPT ![s] = "iterating"]
    /\ fan' = Ensured
    /\ UNCHANGED <<log, streamVars, cursor, seen, waits, queue, got, closed, noteVars>>

\* _compute_current_union: "Always include lifecycle in the shared SSE".
CurrentUnion(s) ==
    ComputeUnionFilter({Params[r] : r \in Registered} \cup {Params[s], Unscoped({Terminal})})

\* Who opens the first stream is owed what it carries: all there is.
ReconcileRotates(s) ==
    /\ state[s] = "registered" /\ ~Covered(s)
    /\ filter' = CurrentUnion(s)
    /\ streams' = Append(streams, Opened(filter', cursor))
    /\ shared' = Len(streams')
    /\ waits' = [waits EXCEPT ![s] = [new |-> shared', old |-> shared]]
    /\ state' = [state EXCEPT ![s] = "opening"]
    /\ start' = IF shared = 0 THEN [start EXCEPT ![s] = cursor] ELSE start
    /\ UNCHANGED <<log, cursor, seen, fan, queue, got, closed, faults, jumped, full>>

\* new_stream.ready
Ready(s) ==
    /\ state[s] = "opening"
    /\ streams[waits[s].new].state \in {"ready", "closing", "closed", "dropped"}
    /\ state' = [state EXCEPT ![s] = "iterating"]
    /\ streams' = IF waits[s].old # 0 /\ streams[waits[s].old].state \in {"opening", "ready"}
                  THEN [streams EXCEPT ![waits[s].old].state =
                            IF @ = "ready" THEN "closing" ELSE "aborting"]
                  ELSE streams
    /\ fan' = Ensured
    /\ UNCHANGED <<log, shared, filter, cursor, seen, waits, queue, got, closed, noteVars>>

Refused(s) ==
    /\ state[s] = "opening" /\ streams[waits[s].new].state = "refused"
    /\ state' = [state EXCEPT ![s] = "raised"]
    /\ UNCHANGED <<log, streamVars, cursor, seen, fan, waits, queue, got, closed, noteVars>>

\* The iterator yields an event, or finds the sentinel and returns.
Get(s) ==
    /\ state[s] = "iterating" /\ queue[s] # <<>>
    /\ queue' = [queue EXCEPT ![s] = Tail(@)]
    /\ IF Head(queue[s]) = End
       THEN state' = [state EXCEPT ![s] = "ended"] /\ UNCHANGED got
       ELSE got' = [got EXCEPT ![s] = Append(@, Head(queue[s]))] /\ UNCHANGED state
    /\ UNCHANGED <<log, streamVars, cursor, seen, fan, waits, closed, noteVars>>

-----------------------------------------------------------------------------
(* _fanout.                                                                *)

\* The event a stream carries next, 0 if there is none yet.
NextOn(n) ==
    LET later == {i \in DOMAIN log : i > streams[n].pos
                                        /\ MatchesSubscription(log[i], streams[n].filter)}
    IN  IF later = {} THEN 0 ELSE Min(later)

Reading == fan.pc = "reading" /\ NextOn(fan.cur) # 0
               /\ streams[fan.cur].state \in {"ready", "closing"}

\* Variant: what comes again after a rotation or a reconnect is not recognised.
KnownNever(i) == FALSE

\* _dedup_iter: "if event_id in self._seen_event_ids: continue"
Known(i) == i \in seen

\* A queue with the event, and with the sentinel after the root's last one.
WithEvent(s, i) == IF Matches(i, s) THEN Append(queue[s], i) ELSE queue[s]

WithSentinel(q, i) ==
    IF log[i].channel = Terminal /\ Len(q) < MaxQueue THEN Append(q, End) ELSE q

Overflows(i) == \E s \in Registered : Matches(i, s) /\ Len(queue[s]) = MaxQueue

Deliver ==
    /\ Reading
    /\ LET i == NextOn(fan.cur)
       IN  /\ streams' = [streams EXCEPT ![fan.cur].pos = i]
           /\ seen' = seen \cup {i}
           /\ IF Known(i)
              THEN UNCHANGED <<cursor, queue, full>>
              ELSE /\ ~Overflows(i)
                   /\ cursor' = Max({cursor, i})
                   /\ queue' = [s \in Subs |-> IF s \in Registered THEN WithSentinel(WithEvent(s, i), i)
                                            ELSE queue[s]]
                   /\ full' = (full \/ (log[i].channel = Terminal
                                         /\ \E s \in Registered : Len(WithEvent(s, i)) = MaxQueue))
    /\ UNCHANGED <<log, shared, filter, fan, state, waits, got, closed, faults, start, jumped>>

\* put_nowait raises QueueFull, which is taken for a drop of the stream: the
\* task waits for the end of a stream that nobody reads any more.  Some of the
\* queues, those before the full one, have got the event.
DeliverFull ==
    /\ Reading /\ ~Known(NextOn(fan.cur)) /\ Overflows(NextOn(fan.cur))
    /\ \E before \in SUBSET {s \in Registered : Len(queue[s]) < MaxQueue} :
          queue' = [s \in Subs |-> IF s \in before THEN WithEvent(s, NextOn(fan.cur)) ELSE queue[s]]
    /\ streams' = [streams EXCEPT ![fan.cur].pos = NextOn(fan.cur)]
    /\ seen' = seen \cup {NextOn(fan.cur)} /\ cursor' = Max({cursor, NextOn(fan.cur)})
    /\ full' = TRUE
    /\ fan' = IF shared = fan.cur THEN [fan EXCEPT !.pc = "stuck"] ELSE [fan EXCEPT !.cur = shared]
    /\ UNCHANGED <<log, shared, filter, state, waits, got, closed, faults, start, jumped>>

StreamOver == fan.pc \in {"reading", "stuck"}
                  /\ streams[fan.cur].state \in {"closed", "abandoned", "dropped", "refused"}

\* "Rotation: loop again to pick up the new _shared_stream"
Rotate ==
    /\ StreamOver /\ fan.pc = "reading" /\ shared # fan.cur
    /\ fan' = [fan EXCEPT !.cur = shared]
    /\ UNCHANGED <<log, streamVars, cursor, seen, subVars, closed, noteVars>>

\* A drop: _reconnect_shared_stream reads the filter, once.
Reconnect ==
    /\ StreamOver /\ (fan.pc = "stuck" \/ shared = fan.cur)
    /\ streams[fan.cur].state \in {"dropped", "refused"}
    /\ fan' = [fan EXCEPT !.pc = "reconnecting", !.base = filter, !.attempt = 0]
    /\ UNCHANGED <<log, streamVars, cursor, seen, subVars, closed, noteVars>>

\* An attempt, with the cursor of its time as "since".
Attempt ==
    /\ fan.pc = "reconnecting" /\ fan.attempt < MaxAttempts
    /\ streams' = Append(streams, Opened(fan.base, cursor))
    /\ fan' = [fan EXCEPT !.pc = "awaiting", !.new = Len(streams'), !.attempt = @ + 1]
    /\ UNCHANGED <<log, shared, filter, cursor, seen, subVars, closed, noteVars>>

AttemptFails ==
    /\ fan.pc = "awaiting" /\ streams[fan.new].state = "refused"
    /\ fan' = [fan EXCEPT !.pc = "reconnecting"]
    /\ UNCHANGED <<log, streamVars, cursor, seen, subVars, closed, noteVars>>

Reconnected ==
    /\ fan.pc = "awaiting" /\ streams[fan.new].state \in {"ready", "closed", "dropped"}
    /\ shared' = fan.new
    /\ fan' = [fan EXCEPT !.pc = "reading", !.cur = fan.new]
    /\ UNCHANGED <<log, streams, filter, cursor, seen, subVars, closed, noteVars>>

\* Variant: the subscriptions are left waiting.
SentinelNone(q) == q

\* "Terminate consumers cleanly on shutdown / stream-end": put_nowait for each,
\* which ends at a queue that is full.
Sentinel(q) ==
    [s \in Subs |-> IF s \in Registered /\ Len(q[s]) < MaxQueue THEN Append(q[s], End) ELSE q[s]]

SomeFull == \E s \in Registered : Len(queue[s]) = MaxQueue

\* The attempts are used up, or the stream was closed and not replaced.
FanoutEnds ==
    /\ \/ fan.pc = "reconnecting" /\ fan.attempt = MaxAttempts
       \/ /\ StreamOver /\ (fan.pc = "stuck" \/ shared = fan.cur)
          /\ streams[fan.cur].state \in {"closed", "abandoned"}
    /\ fan' = [fan EXCEPT !.pc = "done"]
    /\ IF SomeFull
       THEN \E before \in SUBSET Registered :
               queue' = [s \in Subs |-> IF s \in before THEN Sentinel(queue)[s] ELSE queue[s]]
       ELSE queue' = Sentinel(queue)
    /\ full' = (full \/ SomeFull)
    /\ UNCHANGED <<log, streamVars, cursor, seen, state, waits, got, closed, faults, start, jumped>>

\* close() cancels _fanout, which then pushes no sentinel, and the transport.
Close ==
    /\ ~closed /\ closed' = TRUE
    /\ fan' = IF fan.pc \in {"none", "done"} THEN fan ELSE [fan EXCEPT !.pc = "cancelled"]
    /\ streams' = [n \in DOMAIN streams |-> [streams[n] EXCEPT !.state =
                       IF @ \in {"opening", "aborting"} THEN "abandoned"
                       ELSE IF @ \in {"ready", "closing"} THEN "closed" ELSE @]]
    /\ UNCHANGED <<log, shared, filter, cursor, seen, subVars, noteVars>>

SubStep(s) ==
    \/ ReconcileCovered(s) \/ ReconcileRotates(s) \/ Ready(s) \/ Refused(s) \/ Get(s)

FanStep ==
    \/ Deliver \/ DeliverFull \/ Rotate \/ Reconnect \/ Attempt \/ AttemptFails \/ Reconnected
    \/ FanoutEnds

Next ==
    \/ Emit \/ Jump \/ Close \/ FanStep
    \/ \E s \in Subs : Register(s) \/ SubStep(s)
    \/ \E n \in DOMAIN streams : Accept(n) \/ Drop(n) \/ CloseOld(n)

\* The run goes on to its end, connections are answered or fail, and tasks of
\* the event loop that can run do.  Nobody need subscribe, drop or close.  (Every
\* behaviour has finitely many steps, so the fairness of all is that of each.)
Progress ==
    \/ Emit \/ FanStep
    \/ \E s \in Subs : SubStep(s)
    \/ \E n \in DOMAIN streams : Accept(n) \/ CloseOld(n)

Fairness == WF_vars(Progress)

Spec == Init /\ [][Next]_vars /\ Fairness

-----------------------------------------------------------------------------
(* Properties.                                                             *)

\* The events of s, those it has yielded first, and the places of those before
\* its sentinel.
Events(s) == got[s] \o queue[s]
Given(s)  == {i \in DOMAIN Events(s) : \A j \in 1..i : Events(s)[j] # End}

\* "subscribers ... survive a brief SSE disconnect without losing buffered
\* events", "_dedup_iter drops any overlap" (_fanout, _reconcile_stream): no
\* subscription gets an event twice or one it did not ask for; one that the
\* stream covered when it was made, and the one that opened the first stream,
\* gets all of them, in order, whatever is dropped, opened again and rotated
\* for others.  Where no queue was full and
\* no command response moved the cursor.
OnceInOrder ==
    \A s \in Subs : \A i \in Given(s) :
        LET e == Events(s)[i]
        IN  /\ Matches(e, s)
            /\ \A j \in Given(s) : j # i => Events(s)[j] # e
            /\ (start[s] # NoSeq /\ ~full /\ ~jumped) =>
                  /\ e > start[s]
                  /\ \A j \in Given(s) : j > i => Events(s)[j] > e
                  /\ \A k \in start[s] + 1 .. e : Matches(k, s) => \E j \in Given(s) : Events(s)[j] = k

\* s waits for a stream that a later rotation has closed before it was answered.
Overtaken(s) == state[s] = "opening" /\ streams[waits[s].new].state = "abandoned"

\* "so projection iterators exit when the run ends naturally" (_fanout): a
\* subscription made before the end of the run was read comes to an end,
\* whatever is dropped and rotated, unless a queue was full, the cursor was
\* moved, the client was closed, or a rotation overtook that of the subscription.
IteratorsEnd ==
    \A s \in Subs :
        (state[s] = "registered" /\ \A i \in seen : log[i].channel # Terminal)
            ~> (state[s] \in {"ended", "raised"} \/ full \/ jumped \/ closed \/ Overtaken(s))

\* "If subscriptions were added or removed during the drop window, the reconnect
\* picks up the new shape" (_reconnect_shared_stream): the stream that is read
\* covers every subscription that iterates, unless it is about to be replaced.
\* It does not hold: the filter is read before the first attempt, and a stream
\* opened by a rotation meanwhile is replaced by one without its channels.
ShapeKept ==
    (fan.pc = "reading" /\ fan.cur = shared) =>
        \A s \in Subs : state[s] = "iterating" => FilterCovers(streams[shared].filter, Params[s])
=============================================================================
