------------------------------- MODULE Stores -------------------------------
(***************************************************************************)
(* Long-term stores used from coroutines: AsyncBatchedBaseStore over the   *)
(* SQLite or the Postgres store.  A call puts its operation and a future   *)
(* into a queue; the task _run takes all that is there, merges equal reads *)
(* and puts of one key (_dedupe_ops), runs the rest as one batch in one    *)
(* transaction, reads first, and answers the futures.  Rows with a TTL     *)
(* expire, are refreshed by reads and deleted by the sweeper.              *)
(*                                                                         *)
(* One namespace; calls are numbered in the order of the queue, and the    *)
(* number of a put stands for the value it stores.  Left out: queries by   *)
(* similarity and filters, limits, and the life of the sweeper's task.     *)
(***************************************************************************)
EXTENDS Integers, SequencesExt, FiniteSetsExt

CONSTANTS
    Keys,
    Backends,   \* subset of {"sqlite", "postgres", "postgres_omit"}
    Ops,        \* operations that are called: kind, key, ttl, refresh
    MaxCalls,   \* bound on calls
    MaxFaults   \* bound on batches that raise and callers that are cancelled

VARIABLES
    backend,
    calls,      \* the calls so far: op, state, floor, answer
    waiting,    \* _aqueue
    rows,       \* the table: num (the put that made the row), live, ttl, expired
    batch,      \* the batch of _run: pc, calls, deduped, listen, results, refresh
    faults,
    lapsed      \* the puts whose rows have expired at some time

vars == <<backend, calls, waiting, rows, batch, faults, lapsed>>

None == 0
NoBatch == [pc |-> "idle", calls |-> <<>>, ops |-> <<>>, listen |-> <<>>, results |-> <<>>, refresh |-> {}]
NoRow == [num |-> 0, live |-> FALSE, ttl |-> FALSE, expired |-> FALSE]

TypeOK ==
    /\ Len(calls) <= MaxCalls
    /\ \A n \in DOMAIN calls :
          /\ calls[n].op \in Ops /\ calls[n].floor \in [Keys -> 0..MaxCalls]
          /\ calls[n].state \in {"queued", "taken", "dropped", "left", "answered", "raised"}
    /\ rows \in [Keys -> [num : 0..MaxCalls, live : BOOLEAN, ttl : BOOLEAN, expired : BOOLEAN]]
    /\ batch.pc \in {"idle", "taken", "read", "committed"}

Init ==
    /\ backend \in Backends /\ calls = <<>> /\ waiting = <<>>
    /\ rows = [k \in Keys |-> NoRow] /\ batch = NoBatch /\ faults = 0 /\ lapsed = {}

Writes(op) == op.kind \in {"put", "delete"}
ReadKeys(op) == IF op.kind = "search" THEN Keys ELSE IF op.kind = "get" THEN {op.key} ELSE {}
-----------------------------------------------------------------------------
(* The callers.                                                            *)

\* The last put of every key that has been answered.
Floors ==
    [k \in Keys |-> Max({0} \cup {n \in DOMAIN calls :
         calls[n].state = "answered" /\ Writes(calls[n].op) /\ calls[n].op.key = k})]

\* aget, asearch, aput, adelete
Call(op) ==
    /\ Len(calls) < MaxCalls
    /\ calls' = Append(calls, [op |-> op, state |-> "queued", floor |-> Floors,
                               answer |-> [k \in Keys |-> None]])
    /\ waiting' = Append(waiting, Len(calls'))
    /\ UNCHANGED <<backend, rows, batch, faults, lapsed>>

\* The caller is cancelled, and its future with it.
Cancel(n) ==
    /\ calls[n].state \in {"queued", "taken"} /\ faults < MaxFaults
    /\ faults' = faults + 1
    /\ calls' = [calls EXCEPT ![n].state = IF @ = "queued" THEN "dropped" ELSE "left"]
    /\ UNCHANGED <<backend, waiting, rows, batch, lapsed>>
-----------------------------------------------------------------------------
(* _run.                                                                   *)

SameOp(m, n) ==
    LET a == calls[m].op  b == calls[n].op
    IN  IF Writes(a) /\ Writes(b) THEN a.key = b.key ELSE a = b

\* Variant: the first put of a key is kept.
DedupeFirst(acc, n) ==
    LET same == {i \in DOMAIN acc.ops : SameOp(acc.ops[i], n)}
        ops  == IF same = {} THEN Append(acc.ops, n) ELSE acc.ops
    IN  [calls |-> Append(acc.calls, n), ops |-> ops,
         listen |-> Append(acc.listen, IF same = {} THEN Len(ops) ELSE Min(same))]

\* One round of the loop of _dedupe_ops: "Overwrite previous put".
DedupeOp(acc, n) ==
    LET same == {i \in DOMAIN acc.ops : SameOp(acc.ops[i], n)}
        at   == IF same = {} THEN Len(acc.ops) + 1 ELSE Min(same)
    IN  [calls  |-> Append(acc.calls, n),
         ops    |-> IF same = {} THEN Append(acc.ops, n)
                    ELSE IF Writes(calls[n].op) THEN [acc.ops EXCEPT ![at] = n] ELSE acc.ops,
         listen |-> Append(acc.listen, at)]

\* The first calls of the queue, merged: "don't run batch if the future is done
\* (e.g. cancelled)".
Merged[i \in 0 .. Len(waiting)] ==
    IF i = 0 THEN [calls |-> <<>>, ops |-> <<>>, listen |-> <<>>]
    ELSE IF calls[waiting[i]].state = "queued" THEN DedupeOp(Merged[i - 1], waiting[i])
    ELSE Merged[i - 1]

Take ==
    /\ batch.pc = "idle" /\ waiting # <<>>
    /\ waiting' = <<>>
    /\ LET d == Merged[Len(waiting)]
       IN  /\ batch' = IF d.calls = <<>> THEN NoBatch
                       ELSE [NoBatch EXCEPT !.pc = "taken", !.calls = d.calls, !.ops = d.ops,
                                            !.listen = d.listen]
           /\ calls' = [n \in DOMAIN calls |-> [calls[n] EXCEPT !.state =
                            IF n \in Range(d.calls) THEN "taken" ELSE @]]
    /\ UNCHANGED <<backend, rows, faults, lapsed>>

Readable(k) == rows[k].live /\ (backend = "postgres_omit" => ~rows[k].expired)

Gets == {calls[n].op : n \in {m \in Range(batch.ops) : calls[m].op.kind = "get"}}
Searches == {calls[n].op : n \in {m \in Range(batch.ops) : calls[m].op.kind = "search"}}

\* SQLite refreshes all the keys that the batch gets if one of them asks for
\* it; Postgres the keys that ask, and not the expired rows that it omits.
Refreshed ==
    LET asked == {op.key : op \in {g \in Gets : g.refresh}}
        got   == IF backend = "sqlite" /\ asked # {} THEN {op.key : op \in Gets} ELSE asked
        found == IF \E op \in Searches : op.refresh THEN Keys ELSE {}
    IN  {k \in got \cup found : Readable(k) /\ rows[k].ttl}

\* _batch_get_ops, _batch_search_ops
BatchReads ==
    /\ batch.pc = "taken"
    /\ batch' = [batch EXCEPT
          !.pc = "read", !.refresh = Refreshed,
          !.results = [i \in DOMAIN batch.ops |-> [k \in Keys |->
              IF k \in ReadKeys(calls[batch.ops[i]].op) /\ Readable(k) THEN rows[k].num ELSE None]]]
    /\ UNCHANGED <<backend, calls, waiting, rows, faults, lapsed>>

AfterRefresh == [k \in Keys |-> IF k \in batch.refresh THEN [rows[k] EXCEPT !.expired = FALSE] ELSE rows[k]]

PutOf(k) == {n \in Range(batch.ops) : Writes(calls[n].op) /\ calls[n].op.key = k}

\* The table after those puts of the batch that are of a kind.
AfterPuts(table, kinds) ==
    [k \in Keys |->
        LET ns == {n \in PutOf(k) : calls[n].op.kind \in kinds}
        IN  IF ns = {} THEN table[k]
            ELSE LET n == CHOOSE m \in ns : TRUE
                 IN  [num |-> n, live |-> calls[n].op.kind = "put",
                      ttl |-> calls[n].op.ttl, expired |-> FALSE]]

\* _batch_put_ops, and the end of the transaction
BatchPuts ==
    /\ batch.pc = "read"
    /\ rows' = AfterPuts(AfterRefresh, {"put", "delete"})
    /\ batch' = [batch EXCEPT !.pc = "committed"]
    /\ UNCHANGED <<backend, calls, waiting, faults, lapsed>>

\* "results = [results[ix] for ix in listen]"
Answer ==
    /\ batch.pc = "committed"
    /\ calls' = [n \in DOMAIN calls |->
           IF n \in Range(batch.calls) /\ calls[n].state = "taken"
           THEN LET i == CHOOSE j \in DOMAIN batch.calls : batch.calls[j] = n
                IN  [calls[n] EXCEPT !.state = "answered", !.answer = batch.results[batch.listen[i]]]
           ELSE calls[n]]
    /\ batch' = NoBatch
    /\ UNCHANGED <<backend, waiting, rows, faults, lapsed>>

\* abatch raises: every future of the batch gets the exception.  SQLite commits
\* what was executed until then, the refreshes and perhaps the deletions;
\* Postgres rolls it back.
BatchRaises ==
    /\ batch.pc \in {"taken", "read"} /\ faults < MaxFaults
    /\ faults' = faults + 1
    /\ IF backend = "sqlite" /\ batch.pc = "read"
       THEN rows' \in {AfterRefresh, AfterPuts(AfterRefresh, {"delete"})}
       ELSE UNCHANGED rows
    /\ calls' = [n \in DOMAIN calls |->
           IF calls[n].state = "taken" THEN [calls[n] EXCEPT !.state = "raised"] ELSE calls[n]]
    /\ batch' = NoBatch
    /\ UNCHANGED <<backend, waiting, lapsed>>
-----------------------------------------------------------------------------
(* Time, and sweep_ttl.                                                    *)

Expire(k) ==
    /\ rows[k].live /\ rows[k].ttl /\ ~rows[k].expired
    /\ rows' = [rows EXCEPT ![k].expired = TRUE]
    /\ lapsed' = lapsed \cup {rows[k].num}
    /\ UNCHANGED <<backend, calls, waiting, batch, faults>>

\* SQLite: under the lock that a batch holds.  Postgres: not the rows that an
\* open transaction has updated.
Sweep ==
    /\ backend = "sqlite" => batch.pc \notin {"taken", "read"}
    /\ \E k \in Keys \ batch.refresh : rows[k].live /\ rows[k].expired
    /\ rows' = [k \in Keys |-> IF rows[k].expired /\ k \notin batch.refresh
                                THEN [rows[k] EXCEPT !.live = FALSE, !.expired = FALSE] ELSE rows[k]]
    /\ UNCHANGED <<backend, calls, waiting, batch, faults, lapsed>>

\* The callers have been served.
Served ==
    /\ Len(calls) = MaxCalls /\ waiting = <<>> /\ batch.pc = "idle"
    /\ UNCHANGED vars

Run == Take \/ BatchReads \/ BatchPuts \/ Answer

Next ==
    \/ Run \/ BatchRaises \/ Sweep \/ Served
    \/ \E op \in Ops : Call(op)
    \/ \E n \in DOMAIN calls : Cancel(n)
    \/ \E k \in Keys : Expire(k)

Spec == Init /\ [][Next]_vars

-----------------------------------------------------------------------------
(* Properties.                                                             *)

\* Put n of k explains that a read found v.
Explains(n, k, v) ==
    IF n = 0 THEN v = None
    ELSE /\ Writes(calls[n].op) /\ calls[n].op.key = k /\ calls[n].state # "dropped"
         /\ \/ v = n /\ calls[n].op.kind = "put"
            \/ v = None /\ (calls[n].op.kind = "delete" \/ n \in lapsed)

\* "Last-write wins" (_prepare_batch_PUT_queries), "Overwrite previous put"
\* (_dedupe_ops), "preserving order for results": whatever is merged, cancelled
\* or fails, a read finds for each of its keys a put that was not cancelled in
\* the queue and that is not older than the last one answered before the read
\* was called; nothing, only if that put was a deletion or has expired.
FreshReads ==
    \A r \in DOMAIN calls : calls[r].state = "answered" =>
        \A k \in ReadKeys(calls[r].op) :
            \E n \in calls[r].floor[k] .. Len(calls) : Explains(n, k, calls[r].answer[k])
=============================================================================
