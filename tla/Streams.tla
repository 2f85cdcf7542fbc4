------------------------------- MODULE Streams -------------------------------
(***************************************************************************)
(* Streams that several consumers read at once: those of a run (RunStream) *)
(* and those of an SDK client (ThreadStream), which share no state.        *)
(***************************************************************************)
CONSTANTS
    Readers, AtOnce, MaxParts,                 \* those of RunStream
    Subs, Params, Kinds, MaxEvents, MaxQueue,  \* those of ThreadStream
    MaxAttempts, MaxFaults

VARIABLES
    made, sub, gen, exhausted, pumping, pull, abort, scheduled, items, closed, open, pc, has,
    got, lost,
    log, streams, shared, filter, cursor, seen, fan, state, waits, queue, given, shut,
    faults, start, jumped, full

runVars == <<made, sub, gen, exhausted, pumping, pull, abort, scheduled, items, closed, open, pc,
             has, got, lost>>
sdkVars == <<log, streams, shared, filter, cursor, seen, fan, state, waits, queue, given, shut,
             faults, start, jumped, full>>

Run == INSTANCE RunStream WITH task <- scheduled

Sdk == INSTANCE ThreadStream WITH got <- given, closed <- shut

\* _apump_next: a consumer whose iteration ends has seen every item, in order.
StreamsComplete == Run!StreamsComplete

\* _fanout: a subscription gets the events it asked for, once and in order.
OnceInOrder == Sdk!OnceInOrder

\* _fanout: every subscription's iteration ends.
IteratorsEnd == Sdk!IteratorsEnd

\* _reconnect_shared_stream: the stream opened after a drop covers all of the
\* subscriptions.
ShapeKept == Sdk!ShapeKept
=============================================================================
