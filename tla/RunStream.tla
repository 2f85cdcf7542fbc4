------------------------------ MODULE RunStream ------------------------------
(***************************************************************************)
(* AsyncGraphRunStream: one run of a graph, read by several consumers at   *)
(* once.  There is no background task: a consumer whose channel is empty   *)
(* pulls the next part out of the graph's generator and pushes it through  *)
(* StreamMux, which fills the channels of all of them; consumers that find *)
(* a pull under way wait for its end (_apump_next).                        *)
(*                                                                         *)
(* The readers are those of run.values, of the main log ("events"), of     *)
(* run.subgraphs, which goes on to read the values of the subgraph it is   *)
(* handed ("child"), and a caller of output().  The graph has one subgraph *)
(* and the transformers are ValuesTransformer, LifecycleTransformer,       *)
(* SubgraphTransformer, one whose aprocess suspends and one that schedules *)
(* a task.  Code between two awaits is one step.                           *)
(***************************************************************************)
EXTENDS Integers, Sequences, FiniteSets, Functions

CONSTANTS
    Readers,      \* subset of {"values", "events", "child", "output"}
    AtOnce,       \* how many of them there are in a run
    MaxParts      \* bound on the parts the graph yields

Channels == {"values", "events", "subgraphs", "child"}
Results  == {"completed", "failed"}
Over     == {"absent", "ended", "raised", "cancelled"}

VARIABLES
    \* the graph's generator
    made,        \* the parts it has yielded
    sub,         \* its subgraph: none, running, over
    gen,         \* live, or how it ended: stop, error, closed
    \* the pump
    exhausted,   \* _exhausted
    pumping,     \* _pumping
    pull,        \* _anext_task: none, running, or its result
    abort,       \* abort(): none, closing, done
    task,        \* the scheduled task: none, running; done, or late if it ended
                 \* when the pump was exhausted; failed
    \* the mux
    items,       \* items[ch]: the buffer of a StreamChannel
    closed,      \* closed[ch]: no, closed, failed (_closed and _error)
    open,        \* _open of LifecycleTransformer: whether the subgraph is in it
    \* the readers
    pc,          \* where each one is
    has,         \* whether "child" has been handed the subgraph
    got,         \* the items each one has received
    lost         \* whether a consumer was cancelled

pumpVars == <<exhausted, pumping, pull>>
muxVars  == <<items, closed, open>>
genVars  == <<made, sub, gen>>
vars     == <<genVars, pumpVars, abort, task, muxVars, pc, has, got, lost>>

NoPull == [is |-> "none"]

TypeOK ==
    /\ made \in Seq([kind : {"value", "start", "inner", "result"}, n : Nat, status : Results])
    /\ sub \in {"none", "running", "over"} /\ gen \in {"live", "stop", "error", "closed"}
    /\ exhausted \in BOOLEAN /\ pumping \in BOOLEAN /\ open \in BOOLEAN
    /\ pull.is \in {"none", "running", "part", "stop", "error", "cancelled"}
    /\ abort \in {"none", "closing", "done"}
    /\ task \in {"none", "running", "done", "late", "failed"}
    /\ closed \in [Channels -> {"no", "closed", "failed"}]
    /\ pc \in [Readers -> Over \cup {"cursor", "waiting", "notified", "pulling",
                                     "pushing", "closing", "failing"}]

Init ==
    /\ made = <<>> /\ sub = "none" /\ gen = "live"
    /\ exhausted = FALSE /\ pumping = FALSE /\ pull = NoPull
    /\ abort = "none" /\ task \in {"none", "running"}
    /\ items = [ch \in Channels |-> <<>>] /\ closed = [ch \in Channels |-> "no"]
    /\ open = FALSE
    /\ pc \in [Readers -> {"absent", "cursor"}] /\ has = FALSE
    /\ Cardinality({c \in Readers : pc[c] = "cursor"}) = AtOnce
    /\ got = [c \in Readers |-> <<>>] /\ lost = FALSE

-----------------------------------------------------------------------------
(* StreamChannel and StreamMux.                                            *)

\* The channel a reader is on.  run.values and the main log are subscribed from
\* the start, the subgraph's values when "child" gets its handle.
ChannelOf(c) == IF c = "child" /\ ~has THEN "subgraphs" ELSE c

Subscribed ==
    LET present == {c \in Readers \ {"output"} : pc[c] # "absent"}
    IN  {ChannelOf(c) : c \in present} \cup (IF "child" \in present THEN {"subgraphs"} ELSE {})

\* push: without a subscriber the item is dropped.
Pushed(buf, ch, x) ==
    IF ch \in Subscribed THEN [buf EXCEPT ![ch] = Append(@, x)] ELSE buf

Lifecycle(e) == [kind |-> "lifecycle", event |-> e]

\* What the transformers and the main log make of a part.  The payloads of the
\* lifecycle channel are forwarded to the main log, tasks events are not kept.
Routed(p) ==
    CASE p.kind = "value"  -> Pushed(Pushed(items, "values", p), "events", p)
      [] p.kind = "start"  -> Pushed(Pushed(items, "events", Lifecycle("started")), "subgraphs", p)
      [] p.kind = "inner"  -> Pushed(IF closed["child"] = "no" THEN Pushed(items, "child", p)
                                     ELSE items, "events", p)
      [] p.kind = "result" -> IF open THEN Pushed(items, "events", Lifecycle(p.status)) ELSE items

\* _aon_terminal: the result of the task the subgraph runs in ends its mux.
ChildClosed(p) ==
    IF p.kind = "result" /\ open /\ closed["child"] = "no"
    THEN [closed EXCEPT !["child"] = IF p.status = "failed" THEN "failed" ELSE "closed"]
    ELSE closed

OpenAfter(p) == CASE p.kind = "start" -> TRUE [] p.kind = "result" -> FALSE [] OTHER -> open

\* afinalize / afail of the transformers: a subgraph still open gets its
\* terminal event, then every channel is closed or failed, unless it is already.
EndMux(how) ==
    /\ items' = IF open THEN Pushed(items, "events",
                                    Lifecycle(IF how = "closed" THEN "completed" ELSE "failed"))
                ELSE items
    /\ closed' = [ch \in Channels |-> IF closed[ch] = "no" THEN how ELSE closed[ch]]
    /\ open' = FALSE

\* close() of a mux that is closed already: finalize finds nothing open.
MuxOpen == closed["events"] = "no"
-----------------------------------------------------------------------------
(* The readers.                                                            *)

\* Variant: the end of the graph ends the cursor whatever is in its buffer.
StopsDrained(c) == TRUE

\* "if not self._items and not self._closed: return"
Stops(c) == items[ChannelOf(c)] = <<>> /\ closed[ChannelOf(c)] = "no"

\* What a reader does when the pump returns r.
After(c, r) ==
    CASE c = "output" -> IF r THEN "cursor" ELSE IF closed'["events"] = "failed" THEN "raised" ELSE "ended"
      [] OTHER -> IF ~r /\ Stops(c)' THEN "ended" ELSE "cursor"

Take(c) ==
    /\ pc[c] = "cursor" /\ c # "output" /\ items[ChannelOf(c)] # <<>>
    /\ items' = [items EXCEPT ![ChannelOf(c)] = Tail(@)]
    /\ IF ChannelOf(c) = "subgraphs"
       THEN has' = TRUE /\ UNCHANGED got
       ELSE got' = [got EXCEPT ![c] = Append(@, Head(items[c]))] /\ UNCHANGED has
    /\ UNCHANGED <<genVars, pumpVars, abort, task, closed, open, pc, lost>>

SeeClosed(c) ==
    /\ pc[c] = "cursor" /\ c # "output"
    /\ items[ChannelOf(c)] = <<>> /\ closed[ChannelOf(c)] # "no"
    /\ pc' = [pc EXCEPT ![c] = IF closed[ChannelOf(c)] = "failed" THEN "raised" ELSE "ended"]
    /\ UNCHANGED <<genVars, pumpVars, abort, task, muxVars, has, got, lost>>

\* A reader that has nothing to read calls the pump.
Asks(c) == pc[c] = "cursor" /\ (IF c = "output" THEN TRUE ELSE Stops(c))

PumpRefused(c) ==
    /\ Asks(c) /\ exhausted
    /\ UNCHANGED <<genVars, pumpVars, abort, task, muxVars, has, got, lost>>
    /\ pc' = [pc EXCEPT ![c] = After(c, FALSE)]

PumpWaits(c) ==
    /\ Asks(c) /\ ~exhausted /\ pumping
    /\ pc' = [pc EXCEPT ![c] = "waiting"]
    /\ UNCHANGED <<genVars, pumpVars, abort, task, muxVars, has, got, lost>>

PumpPulls(c) ==
    /\ Asks(c) /\ ~exhausted /\ ~pumping
    /\ pumping' = TRUE /\ pull' = [is |-> "running"]
    /\ pc' = [pc EXCEPT ![c] = "pulling"]
    /\ UNCHANGED <<genVars, exhausted, abort, task, muxVars, has, got, lost>>

\* _pump_cond.wait() returns.
Woken(c) ==
    /\ pc[c] = "notified"
    /\ UNCHANGED <<genVars, pumpVars, abort, task, muxVars, has, got, lost>>
    /\ pc' = [pc EXCEPT ![c] = After(c, ~exhausted)]

\* Variant: nobody is notified.
NotifyNone(p) == p

\* notify_all
NotifyAll(p) == [c \in Readers |-> IF p[c] = "waiting" THEN "notified" ELSE p[c]]

\* The finally clause of _apump_next, and what c does next.
EndPump(c, next) ==
    /\ pumping' = FALSE
    /\ pc' = NotifyAll([pc EXCEPT ![c] = next])

\* The generator ends a pull: with a part, with StopAsyncIteration or with an
\* exception.  (A subgraph in a hidden task is still open at a normal end.)
Yield ==
    /\ pull.is = "running" /\ gen = "live" /\ Len(made) < MaxParts
    /\ \E k \in {"value", "start", "inner", "result"}, s \in Results :
          /\ k = "start" => sub = "none"
          /\ k \in {"inner", "result"} => sub = "running"
          /\ k # "result" => s = "completed"
          /\ LET p == [kind |-> k, n |-> Len(made) + 1, status |-> s]
             IN  made' = Append(made, p) /\ pull' = [is |-> "part", part |-> p]
          /\ sub' = CASE k = "start" -> "running" [] k = "result" -> "over" [] OTHER -> sub
    /\ UNCHANGED <<gen, exhausted, pumping, abort, task, muxVars, pc, has, got, lost>>

Return ==
    /\ pull.is = "running"
    /\ \/ gen = "live" /\ \E e \in {"stop", "error"} : gen' = e /\ pull' = [is |-> e]
       \/ gen # "live" /\ UNCHANGED gen /\ pull' = [is |-> "stop"]
    /\ UNCHANGED <<made, sub, exhausted, pumping, abort, task, muxVars, pc, has, got, lost>>

\* The part is there; an aprocess may suspend before the other transformers.
PushStarts(c) ==
    /\ pc[c] = "pulling" /\ pull.is = "part"
    /\ pc' = [pc EXCEPT ![c] = "pushing"]
    /\ UNCHANGED <<genVars, pumpVars, abort, task, muxVars, has, got, lost>>

PushEnds(c) ==
    /\ pc[c] = "pushing" /\ MuxOpen
    /\ items' = Routed(pull.part) /\ closed' = ChildClosed(pull.part) /\ open' = OpenAfter(pull.part)
    /\ pull' = NoPull
    /\ UNCHANGED <<genVars, exhausted, abort, task, has, got, lost>>
    /\ EndPump(c, After(c, TRUE))

\* abort() has closed the channels: push raises, or nobody has subscribed.
PushLate(c) ==
    /\ pc[c] = "pushing" /\ ~MuxOpen
    /\ exhausted' = TRUE /\ pull' = NoPull
    /\ UNCHANGED <<genVars, abort, task, muxVars, has, got, lost>>
    /\ EndPump(c, After(c, FALSE))

\* except StopAsyncIteration: aclose waits for the scheduled tasks, if any,
Waits(c, how) ==
    /\ pc[c] = "pulling" /\ pull.is = how /\ task = "running"
    /\ exhausted' = TRUE /\ pull' = NoPull
    /\ pc' = [pc EXCEPT ![c] = IF how = "stop" THEN "closing" ELSE "failing"]
    /\ UNCHANGED <<genVars, pumping, abort, task, muxVars, has, got, lost>>

\* and ends the mux; without such tasks at once.
Ends(c, how, waited) ==
    /\ \/ pc[c] = "pulling" /\ pull.is = how /\ task # "running"
       \/ pc[c] = waited
    /\ exhausted' = TRUE /\ pull' = NoPull
    /\ UNCHANGED <<genVars, abort, has, got, lost>>
    /\ EndPump(c, After(c, FALSE))

CloseWaits(c) == Waits(c, "stop")

CloseEnds(c) ==
    /\ EndMux("closed") /\ Ends(c, "stop", "closing")
    /\ pc[c] = "closing" => task = "late"
    /\ UNCHANGED task

\* A scheduled task raised while aclose waited for it: the exception leaves
\* _apump_next from an except clause, and the channels stay as they are.
CloseRaises(c) ==
    /\ pc[c] = "closing" /\ task = "failed"
    /\ UNCHANGED <<genVars, exhausted, pull, abort, task, muxVars, has, got, lost>>
    /\ EndPump(c, "raised")

\* except Exception: afail cancels the scheduled tasks and waits for them.
FailWaits(c) == Waits(c, "error")

FailEnds(c) ==
    /\ EndMux("failed") /\ Ends(c, "error", "failing")
    /\ task' = IF task = "running" THEN "late" ELSE task

\* The pull was cancelled by abort().
PullAborted(c) ==
    /\ pc[c] = "pulling" /\ pull.is = "cancelled"
    /\ exhausted' = TRUE /\ pull' = NoPull
    /\ UNCHANGED <<genVars, abort, task, muxVars, has, got, lost>>
    /\ EndPump(c, After(c, FALSE))

\* The task of a reader is cancelled.  Bound: once, or abort().  A pull it is waiting for
\* is cancelled with it, which ends the generator; a gather likewise.
Cancel(c) ==
    /\ ~lost /\ abort = "none" /\ pc[c] \notin Over
    /\ lost' = TRUE
    /\ IF pc[c] \in {"pulling", "pushing", "closing", "failing"}
       THEN /\ EndPump(c, "cancelled") /\ pull' = NoPull
            /\ gen' = IF pull.is = "running" THEN "closed" ELSE gen
            /\ task' = IF pc[c] \in {"closing", "failing"} /\ task = "running" THEN "late" ELSE task
       ELSE pc' = [pc EXCEPT ![c] = "cancelled"] /\ UNCHANGED <<pumping, pull, gen, task>>
    /\ UNCHANGED <<made, sub, exhausted, abort, muxVars, has, got>>

-----------------------------------------------------------------------------
(* abort(), by a task of its own, and the scheduled task.                  *)

AbortStarts ==
    /\ abort = "none" /\ ~exhausted /\ ~lost
    /\ abort' = "closing" /\ exhausted' = TRUE
    /\ pc' = NotifyAll(pc)
    /\ IF pull.is = "running"
       THEN pull' = [is |-> "cancelled"] /\ gen' = "closed"
       ELSE UNCHANGED pull /\ gen' = IF gen = "live" THEN "closed" ELSE gen
    /\ UNCHANGED <<made, sub, pumping, task, muxVars, has, got, lost>>

\* mux.aclose(); what it raises is swallowed, and the channels stay open.  (It
\* raises if the task failed after it began to wait.)
AbortEnds ==
    /\ abort = "closing" /\ task # "running"
    /\ abort' = "done"
    /\ IF MuxOpen THEN EndMux("closed") \/ (task = "failed" /\ UNCHANGED muxVars)
       ELSE UNCHANGED muxVars
    /\ UNCHANGED <<genVars, pumpVars, task, pc, has, got, lost>>

\* The task ends, or raises under on_error="raise" while somebody waits for it;
\* what it raises before is never looked at (_collect_scheduled_tasks).
TaskEnds ==
    /\ task = "running"
    /\ \/ task' = IF exhausted THEN "late" ELSE "done"
       \/ task' = "failed" /\ (abort = "closing" \/ \E c \in Readers : pc[c] = "closing")
    /\ UNCHANGED <<genVars, pumpVars, abort, muxVars, pc, has, got, lost>>

Done ==
    /\ \A c \in Readers : pc[c] \in Over
    /\ UNCHANGED vars

ReaderStep(c) ==
    \/ Take(c) \/ SeeClosed(c) \/ PumpRefused(c) \/ PumpWaits(c) \/ PumpPulls(c) \/ Woken(c)
    \/ PushStarts(c) \/ PushEnds(c) \/ PushLate(c) \/ CloseWaits(c) \/ CloseEnds(c)
    \/ CloseRaises(c) \/ FailWaits(c) \/ FailEnds(c) \/ PullAborted(c)

Next ==
    \/ \E c \in Readers : ReaderStep(c) \/ Cancel(c)
    \/ Yield \/ Return \/ AbortStarts \/ AbortEnds \/ TaskEnds \/ Done

\* The consumers that iterate, the graph and the scheduled task: as long as one
\* of them can go on, one does.  (Every behaviour has finitely many steps, so
\* this is as good as the fairness of each.)
Progress ==
    \/ \E c \in Readers : ReaderStep(c)
    \/ Yield \/ Return \/ AbortEnds \/ TaskEnds

Fairness == WF_vars(Progress)

Spec == Init /\ [][Next]_vars /\ Fairness

-----------------------------------------------------------------------------
(* Properties.                                                             *)

\* What the main log shows of a part.
Shown(p) ==
    IF p.kind = "start" THEN Lifecycle("started")
    ELSE IF p.kind = "result" THEN Lifecycle(p.status) ELSE p

\* The main log of a whole run.
WholeLog ==
    [i \in DOMAIN made |-> Shown(made[i])]
        \o (IF sub = "running" THEN <<Lifecycle("completed")>> ELSE <<>>)

\* s is the parts of kind k from number m on, each once and in order.
Lists(s, k, m) ==
    /\ \A i, j \in DOMAIN s : i < j => s[i].n < s[j].n
    /\ Range(s) = {p \in Range(made) : p.kind = k /\ p.n >= m}

\* aclose and afail find no scheduled task to wait for.
NoneWaitedFor == task \in {"none", "done"} \/ (task = "running" /\ ~exhausted)

\* "at most one task at a time calls __anext__ ... Other callers wait on a
\* Condition" (_apump_next): a reader whose iteration ends normally has seen
\* the run to its normal end, and every item of its channel once and in order,
\* whoever pulled them; a reader of a subgraph the items from its subscription
\* on; output() returns only then.  Where nobody aborted the run or cancelled a
\* consumer, and no scheduled task was still running when the generator ended:
\* a consumer that comes while another waits for one is let go too early.
StreamsComplete ==
    (~lost /\ abort = "none" /\ NoneWaitedFor) =>
        \A c \in Readers :
            /\ (pc[c] = "ended" /\ (c = "child" => ~has)) => gen = "stop"
            /\ (pc[c] = "ended" /\ c = "values") => Lists(got[c], "value", 1)
            /\ (pc[c] = "ended" /\ c = "events") => got[c] = WholeLog
            /\ (pc[c] = "ended" /\ c = "child" /\ has) =>
                  \E m \in 1 .. Len(made) + 1 : Lists(got[c], "inner", m)
            /\ pc[c] = "raised" => gen = "error" \/ (c = "child" /\ closed[c] = "failed")

\* "wakes up as soon as its data lands" (_apump_next), "wakes any pump-waiters"
\* (abort): every consumer's iteration comes to an end, whichever of the others
\* pulls, ends, is cancelled or aborts the run.
ReadersEnd == <>(\A c \in Readers : pc[c] \in Over)
=============================================================================
