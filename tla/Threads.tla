------------------------------- MODULE Threads -------------------------------
(***************************************************************************)
(* One thread of a graph in its checkpoint savers: runs that take input,   *)
(* resume, time travel or crash, update_state and its special forms, and   *)
(* delete_thread.  Every saver call is made on the four savers of Savers   *)
(* at once, so that what they answer can be compared.                      *)
(*                                                                         *)
(* The graph has one node that writes the channel "obj" and, mostly, the   *)
(* DeltaChannel "delta", whose value is the sequence of its writes; "prim" *)
(* is set by the input and emptied by the next superstep.                  *)
(***************************************************************************)
EXTENDS Savers

CONSTANTS
    LastPut,      \* bound: checkpoints put
    LastWrite,    \* bound: values written
    LastFork,     \* bound: puts after a checkpoint that was not the latest
    Frequency,    \* snapshot_frequency of the DeltaChannel
    MaxSteps      \* DELTA_MAX_SUPERSTEPS_SINCE_SNAPSHOT

ASSUME MaxStepsAssumption == MaxSteps \in Nat

\* Task ids: NULL_TASK_ID, the node's task, and the ids update_state makes up.
NullTask == 0
NodeTask == 1
UpdateTask == 2
InputTask == 3

VARIABLES
    given,       \* id -> what put was called with, the value the delta channel
                 \* had then (live), and the metadata: counters, source, next
    run,         \* the loop, or the update_state, that is under way
    migrated,    \* "delta" is a DeltaChannel now
    forks,       \* how many puts had a parent that was not the latest
    mixed,       \* (checkpoint, task)s that saved a special write among others
    lossy,       \* checkpoints with writes saved that their child did not apply:
                 \* the ones used again once they had a child among them
    puts,        \* how many checkpoints were put
    writes,      \* how many values were written
    mem, sql, pg, shallow

savers == <<mem, sql, pg, shallow>>
vars   == <<given, run, puts, migrated, forks, mixed, lossy, writes, savers>>

Stored == DOMAIN given
Children(i) == {j \in Stored : given[j].parent = i}
Latest == Max(Stored \cup {NoId})
Off == [pc |-> "off", at |-> NoId, live |-> <<>>, done |-> FALSE, wrote |-> <<>>]

Init ==
    /\ given = None /\ run = Off /\ puts = 0 /\ migrated \in BOOLEAN
    /\ forks = 0 /\ mixed = {} /\ lossy = {} /\ writes = 0
    /\ mem = MemEmpty /\ sql = SqlEmpty /\ pg = PgEmpty /\ shallow = ShallowEmpty
-----------------------------------------------------------------------------
Tuple(saver, i) == CASE saver = "mem" -> MemTuple(mem, i)
                     [] saver = "sql" -> SqlTuple(sql, i)
                     [] saver = "pg"  -> PgTuple(pg, i)

DeltaHistory(saver, i) == CASE saver = "mem" -> MemHistory(mem, i)
                            [] saver = "sql" -> SqlHistory(sql, i)
                            [] saver = "pg"  -> PgHistory(pg, i)

\* channels_from_checkpoint: the stored value, or the seed and the writes since.
LoadFrom(saver, i) ==
    LET v == Tuple(saver, i).values["delta"]
        h == DeltaHistory(saver, i)
    IN  IF v # Absent \/ ~migrated THEN v.is ELSE h.seed.is \o h.writes

\* The program is followed on the saver that keeps to the contract.
Load(i) == IF i = NoId THEN <<>> ELSE LoadFrom("sql", i)

\* The writes to the delta channel saved at i by task t.
Saved(i, t) == DeltaRows([k \in {j \in DOMAIN sql.writes : j[2] = t} |-> sql.writes[k]], i)

\* What a walk finds at i; the id of a thread's empty checkpoint is never put.
SavedAt(i) == IF i = NoId THEN <<>> ELSE DeltaRows(sql.writes, i)

\* put_writes on every saver.
SaveWrites(c, t, list) ==
    LET new == NewRows(c, t, list)
    IN  /\ mem' = MemSave(mem, c, t, list)
        /\ sql' = [sql EXCEPT !.writes = SqlWrites(@, new)]
        /\ pg' = [pg EXCEPT !.writes = SqlWrites(@, new)]
        /\ shallow' = [shallow EXCEPT !.writes = SqlWrites(@, new)]
        /\ lossy' = IF Children(c) # {} THEN lossy \cup {c} ELSE lossy

Delta(v) == [ch |-> "delta", v |-> v]

Zero == [updates |-> 0, steps |-> 0]

\* Counting only the supersteps that write the channel.
CountersOfWrites(p, updated) ==
    LET old == IF p = NoId THEN Zero ELSE given[p].info.counters
        one == IF updated THEN 1 ELSE 0
    IN  [updates |-> old.updates + one, steps |-> old.steps + one]

\* The counters of the metadata of a checkpoint put after p.
Counters(p, updated) ==
    LET old == IF p = NoId THEN Zero ELSE given[p].info.counters
    IN  [updates |-> old.updates + (IF updated THEN 1 ELSE 0), steps |-> old.steps + 1]

\* delta_channels_to_snapshot
Due(c) == c.updates >= Frequency \/ c.steps >= MaxSteps

\* A snapshot is written without a new version for its channel.
ChangedOnly(snap, updated) == updated

\* create_checkpoint bumps the version of a snapshot no write has bumped.
DeltaChanged(snap, updated) == snap \/ updated

\* put of checkpoint n after p.  to: the plain channels with a new value, gone:
\* the emptied ones, live: the delta channel's value, applied: the writes it
\* got since p; snap: whether it is snapshotted.
Put(n, p, to, gone, live, applied, snap, info) ==
    LET updated == applied # <<>>
        old == IF p = NoId THEN [values |-> [ch \in Channels |-> Absent],
                                 versions |-> [ch \in Channels |-> NoVersion]] ELSE given[p]
        new == to \cup gone \cup
               (IF DeltaChanged(snap /\ migrated, updated) THEN {"delta"} ELSE {})
        value(ch) ==
            CASE ch = "delta" /\ migrated -> IF snap THEN Value("snapshot", live) ELSE Absent
              [] ch = "delta" /\ ~migrated -> IF live # <<>> THEN Value("plain", live) ELSE Absent
              [] ch \in gone -> Absent
              [] ch \in to -> Value(IF ch = "obj" THEN "object" ELSE "primitive", <<n>>)
              [] OTHER -> old.values[ch]
        cp == [values |-> [ch \in Channels |-> value(ch)],
               versions |-> [ch \in Channels |->
                   IF ch \in new THEN NextVersion(old.versions[ch], n) ELSE old.versions[ch]]]
    IN  /\ n <= LastPut
        /\ puts' = n
        /\ given' = Over(given, At(n, [values |-> cp.values, versions |-> cp.versions, parent |-> p,
                                       live |-> live, info |-> info]))
        /\ forks' = forks + (IF p # Latest THEN 1 ELSE 0)
        /\ forks' <= LastFork
        /\ mem' = MemPut(mem, n, p, cp, new)
        /\ sql' = SqlPut(sql, n, p, cp)
        /\ pg' = PgPut(pg, n, p, cp, new)
        /\ shallow' = ShallowPut(shallow, n, p, cp, new)
        /\ lossy' = IF Children(p) # {} \/ (cp.values["delta"] = Absent /\ applied # SavedAt(p))
                    THEN lossy \cup {p} ELSE lossy

\* The metadata of a checkpoint: counters, where it comes from, whether the
\* node is to run next.
Info(c, source, next) == [counters |-> c, source |-> source, next |-> next]

\* _put_checkpoint, and update_state as a node: counters and snapshots.  A
\* channel that was never written has no version and gets no snapshot.
PutCounted(p, to, gone, live, applied, source, next) ==
    LET c == Counters(p, applied # <<>>)
        due == migrated /\ (Due(c) \/ (source = "update" /\ p = NoId))
        known == applied # <<>> \/ (p # NoId /\ given[p].versions["delta"] # NoVersion)
    IN  Put(puts + 1, p, to, gone, live, applied, due /\ known,
            Info(IF due \/ ~migrated THEN Zero ELSE c, source, next))
-----------------------------------------------------------------------------
(* Runs *)

Bases == IF Stored = {} THEN {NoId} ELSE Stored

NextValue == writes + 1
Idle == run.pc = "off" /\ writes < LastWrite

\* _first with input: unfinished tasks are discarded, null writes of an earlier
\* attempt are applied, and input of a DeltaChannel (direct: a graph that takes
\* input in the channel itself) is saved as a write of the checkpoint before.
InputRun(p, direct) ==
    /\ Idle
    /\ LET nulls == Saved(p, NullTask)
           mine == IF direct THEN <<NextValue>> ELSE <<>>
       IN /\ IF direct /\ migrated
             THEN SaveWrites(p, NullTask, [i \in 1 .. Len(nulls \o mine) |-> Delta((nulls \o mine)[i])])
             ELSE UNCHANGED <<savers, lossy>>
          /\ run' = [pc |-> "input", at |-> p, live |-> Load(p), done |-> FALSE, wrote |-> nulls \o mine]
          /\ writes' = writes + Len(mine)
    /\ UNCHANGED <<given, puts, migrated, forks, mixed>>

\* The input checkpoint.
InputPut ==
    /\ run.pc = "input"
    /\ PutCounted(run.at, {"prim"}, {}, run.live \o run.wrote, run.wrote, "input", TRUE)
    /\ run' = [pc |-> "tasks", at |-> puts + 1, live |-> run.live \o run.wrote, done |-> FALSE, wrote |-> <<>>]
    /\ UNCHANGED <<migrated, mixed, writes>>

\* A run without input: from the latest checkpoint, or from a checkpoint
\* update_state made; the writes saved there are not produced again.
ResumeRun(p) ==
    /\ Idle /\ p \in Stored /\ given[p].info.next
    /\ p = Latest \/ given[p].info.source \in {"update", "fork"}
    /\ run' = [pc |-> "tasks", at |-> p, live |-> Load(p),
               done |-> \E k \in DOMAIN sql.writes : k[1] = p /\ k[2] = NodeTask /\ k[3] # Special,
               wrote |-> Saved(p, NullTask) \o Saved(p, NodeTask)]
    /\ UNCHANGED <<given, puts, migrated, forks, mixed, lossy, writes, savers>>

\* Time travel: a fork checkpoint is put after the old one first.
ForkRun(p) ==
    /\ Idle /\ p \in Stored \ {Latest} /\ given[p].info.next
    /\ given[p].info.source \notin {"update", "fork"}
    /\ LET nulls == Saved(p, NullTask)
       IN /\ PutCounted(p, {}, {}, Load(p) \o nulls, nulls, "fork", TRUE)
          /\ run' = [pc |-> "tasks", at |-> puts + 1, live |-> Load(p) \o nulls, done |-> FALSE, wrote |-> <<>>]
    /\ UNCHANGED <<migrated, mixed, writes>>

\* The node's task ends: it wrote the channels, with its resume value if it has one.
TaskDone(toDelta) ==
    /\ run.pc = "tasks" /\ ~run.done /\ writes < LastWrite
    /\ LET asked == <<run.at, NodeTask, Special>> \in DOMAIN sql.writes
           list == (IF asked THEN <<[ch |-> "special", v |-> NextValue]>> ELSE <<>>)
                   \o <<[ch |-> "obj", v |-> NextValue]>>
                   \o (IF toDelta THEN <<Delta(NextValue)>> ELSE <<>>)
       IN /\ SaveWrites(run.at, NodeTask, list)
          /\ mixed' = IF asked THEN mixed \cup {<<run.at, NodeTask>>} ELSE mixed
    /\ run' = [run EXCEPT !.done = TRUE, !.wrote = IF toDelta THEN Append(@, NextValue) ELSE @]
    /\ writes' = NextValue
    /\ UNCHANGED <<given, puts, migrated, forks>>

\* The task asks the user, for the first time or again; the run ends.
TaskInterrupts ==
    /\ run.pc = "tasks" /\ ~run.done /\ writes < LastWrite
    /\ SaveWrites(run.at, NodeTask, <<[ch |-> "special", v |-> NextValue]>>)
    /\ writes' = NextValue /\ run' = Off
    /\ UNCHANGED <<given, puts, migrated, forks, mixed>>

\* after_tick
Superstep(next) ==
    /\ run.pc = "tasks" /\ run.done
    /\ PutCounted(run.at, {"obj"}, {"prim"}, run.live \o run.wrote, run.wrote, "loop", next)
    /\ run' = IF next THEN [pc |-> "tasks", at |-> puts + 1, live |-> run.live \o run.wrote,
                            done |-> FALSE, wrote |-> <<>>]
              ELSE Off
    /\ UNCHANGED <<migrated, mixed, writes>>

\* The process dies, or the run is cancelled.
Crash ==
    /\ run.pc # "off" /\ run' = Off
    /\ UNCHANGED <<given, puts, migrated, forks, mixed, lossy, writes, savers>>
-----------------------------------------------------------------------------
(* update_state *)

\* As the node: the writes are saved at p, under the task id the node has there.
Update(p) ==
    /\ Idle /\ p \in Stored
    /\ SaveWrites(p, IF given[p].info.next THEN NodeTask ELSE UpdateTask, <<Delta(NextValue)>>)
    /\ run' = [pc |-> "update", at |-> p, live |-> Load(p), done |-> TRUE, wrote |-> <<NextValue>>]
    /\ writes' = NextValue
    /\ UNCHANGED <<given, puts, migrated, forks, mixed>>

UpdatePut ==
    /\ run.pc = "update"
    /\ PutCounted(run.at, {}, {}, run.live \o run.wrote, run.wrote, "update", TRUE)
    /\ run' = Off
    /\ UNCHANGED <<migrated, mixed, writes>>

\* The first checkpoint of a thread has no parent to save writes at.
UpdateFresh ==
    /\ Idle /\ Stored = {}
    /\ PutCounted(NoId, {"obj"}, {}, <<NextValue>>, <<NextValue>>, "update", TRUE)
    /\ writes' = NextValue
    /\ UNCHANGED <<run, migrated, mixed>>

\* As INPUT: the input's writes are saved at the new checkpoint, after its put.
UpdateInput(p) ==
    /\ Idle /\ p \in Bases
    /\ LET applied == <<NextValue>>
       IN Put(puts + 1, p, {"prim"}, {}, Load(p) \o applied, applied, FALSE, Info(Zero, "input", TRUE))
    /\ run' = [Off EXCEPT !.pc = "stored", !.at = puts + 1, !.wrote = <<NextValue>>]
    /\ writes' = NextValue
    /\ UNCHANGED <<migrated, mixed>>

UpdateInputWrites ==
    /\ run.pc = "stored"
    /\ SaveWrites(run.at, InputTask, <<Delta(run.wrote[1])>>)
    /\ run' = Off
    /\ UNCHANGED <<given, puts, migrated, forks, mixed, writes>>

\* As END: what the tasks saved is applied and nothing is left to run.
UpdateEnd(p) ==
    /\ Idle /\ p \in Stored
    /\ LET applied == Saved(p, NullTask) \o (IF given[p].info.next THEN Saved(p, NodeTask) ELSE <<>>)
       IN Put(puts + 1, p, {}, {"prim"}, Load(p) \o applied, applied, FALSE, Info(Zero, "update", FALSE))
    /\ UNCHANGED <<run, migrated, mixed, writes>>

\* As a copy: a sibling of p with the same values and versions.
UpdateCopy(p) ==
    /\ Idle /\ p \in Stored /\ puts < LastPut
    /\ LET n == puts + 1
           q == given[p].parent
           cp == [values |-> SqlTuple(sql, p).values, versions |-> given[p].versions]
       IN /\ given' = Over(given, At(n, [values |-> cp.values, versions |-> cp.versions, parent |-> q,
                              live |-> Load(p), info |-> Info(Zero, "fork", given[p].info.next)]))
          /\ mem' = MemPut(mem, n, q, cp, {})
          /\ sql' = SqlPut(sql, n, q, cp)
          /\ pg' = PgPut(pg, n, q, cp, {})
          /\ shallow' = ShallowPut(shallow, n, q, cp, {})
          /\ puts' = n
    /\ forks' = forks + 1 /\ forks' <= LastFork /\ lossy' = lossy \cup {given[p].parent}
    /\ UNCHANGED <<run, migrated, mixed, writes>>

\* The graph is deployed with a DeltaChannel in place of the plain channel (of
\* which the thread has a value).
Migrate ==
    /\ Idle /\ ~migrated /\ migrated' = TRUE
    /\ Stored # {} /\ given[Latest].values["delta"] # Absent
    /\ UNCHANGED <<given, run, puts, forks, mixed, lossy, writes, savers>>

\* InMemorySaver.delete_thread
MemDeleted(tab) == MemEmpty

\* delete_thread.  The shallow saver has none: it stands for a new thread.
DeleteThread ==
    /\ Idle /\ Stored # {}
    /\ given' = None /\ UNCHANGED forks /\ mixed' = {} /\ lossy' = {}
    /\ mem' = MemDeleted(mem) /\ sql' = SqlEmpty /\ pg' = PgEmpty /\ shallow' = ShallowEmpty
    /\ UNCHANGED <<run, puts, migrated, writes>>

Done == (writes = LastWrite \/ puts = LastPut) /\ UNCHANGED vars

Next ==
    \/ \E p \in Bases, direct \in BOOLEAN : InputRun(p, direct)
    \/ InputPut
    \/ \E p \in Stored : ResumeRun(p) \/ ForkRun(p)
    \/ \E toDelta \in BOOLEAN : TaskDone(toDelta)
    \/ TaskInterrupts
    \/ \E next \in BOOLEAN : Superstep(next)
    \/ Crash
    \/ \E p \in Stored : Update(p) \/ UpdateEnd(p) \/ UpdateCopy(p)
    \/ \E p \in Bases : UpdateInput(p)
    \/ UpdatePut \/ UpdateFresh \/ UpdateInputWrites
    \/ Migrate \/ DeleteThread \/ Done

Spec == Init /\ [][Next]_vars
-----------------------------------------------------------------------------
(* Properties *)

Past(t) == ToSet(Ancestors([i \in Stored |-> given[i].parent], t))
Path(t) == Past(t) \cup {t}

\* A value of the plain channel is on the path: the thread was migrated.
WasPlain(t) == \E i \in Path(t) : given[i].values["delta"].kind = "plain"

\* put, put_writes, get_tuple: every saver that keeps history returns a
\* checkpoint with the values and the parent it was put with, though two of them
\* store each version of a value only once (for a delta channel that was not
\* written they return the snapshot of its version).  They agree on the pending
\* writes of every checkpoint: the first regular write of a slot stands and the
\* last special one, except for the special write of a list that also has
\* regular ones.  On a thread without forks ShallowPostgresSaver answers for the
\* latest checkpoint as they do, though it keeps one value per channel and
\* deletes writes on every put.
SaversAgree ==
    LET counted(k) == k[3] # Special \/ <<k[1], k[2]>> \notin mixed
        pendingOf(tab) == [k \in {j \in DOMAIN tab.writes : counted(j)} |-> tab.writes[k]]
    IN  /\ \A saver \in {"mem", "sql", "pg"}, i \in Stored :
               LET got == Tuple(saver, i)
               IN  /\ got.parent = given[i].parent
                   /\ \A ch \in Channels : \/ got.values[ch] = given[i].values[ch]
                                           \/ ch = "delta" /\ given[i].values[ch] = Absent
        /\ pendingOf(mem) = pendingOf(sql) /\ pendingOf(sql) = pendingOf(pg)
        /\ (Stored # {} /\ forks = 0) =>
               LET got == ShallowTuple(shallow)
               IN  /\ shallow.id = Latest
                   /\ \A ch \in {"obj", "prim"} : got.values[ch] = given[Latest].values[ch]
                   /\ got.rows = Rows(sql, Latest)

\* The writes to the delta channel saved at c are of one task, which did not save
\* a special write in one list with others.
OneWriter(c) ==
    \A j, k \in DOMAIN DeltaOf(mem.writes, c) :
        j[2] = k[2] /\ <<c, j[2]>> \notin mixed

Tuples(saver) == [i \in Stored |-> Tuple(saver, i)]

\* get_delta_channel_history: the overrides of the savers return what the walk
\* of BaseCheckpointSaver returns, off-path rows and pages notwithstanding; the
\* in-memory one and the one for Postgres on threads that were not migrated, and
\* Postgres for checkpoints on its first page.  The in-memory one sorts what its
\* get_tuple does not: it returns the same writes, in the same order if those of
\* every checkpoint on the way are of one task.
SameHistory ==
    \A t \in Stored :
        /\ SqlHistory(sql, t) = BaseHistory(Tuples("sql"), t)
        /\ ~WasPlain(t) =>
               LET own == MemHistory(mem, t)
                   walk == BaseHistory(Tuples("mem"), t)
               IN  /\ own.seed = walk.seed
                   /\ Len(own.writes) = Len(walk.writes)
                   /\ ToSet(own.writes) = ToSet(walk.writes)
                   /\ (\A c \in Past(t) : OneWriter(c)) => own = walk
        /\ (~WasPlain(t) /\ t \in FirstPage(Stored)) =>
               LET h == PgHistory(pg, t)
               IN  h = BaseHistory(Tuples("pg"), t) \/ h = BaseHistory(Tuples("sql"), t)

\* create_checkpoint, channels_from_checkpoint: loading a checkpoint gives the
\* value the delta channel had when it was put, on every path that neither
\* branched nor dropped saved writes: whatever mix of runs, crashes, snapshots
\* and updates made the path, and from SQLite also across a migration.
Rebuilt ==
    \A t \in Stored :
        (\A i \in Path(t) : given[i].parent \notin lossy)
            => /\ LoadFrom("sql", t) = given[t].live
               /\ ~WasPlain(t) => LoadFrom("mem", t) = given[t].live
               /\ (~WasPlain(t) /\ t \in FirstPage(Stored)) => LoadFrom("pg", t) = given[t].live

\* get_delta_channel_history says that "for forked threads, only on-path
\* ancestors contribute": after a fork from a checkpoint that loads right, what
\* is rebuilt holds no write that the fork's own past did not.  It does not
\* hold: a fork's parent is on the path, with the writes that made its other
\* children.
ForksApart ==
    \A t \in Stored :
        LET p == given[t].parent
        IN  (p # NoId /\ Cardinality(Children(p)) > 1 /\ LoadFrom("sql", p) = given[p].live)
            => ToSet(LoadFrom("sql", t)) \subseteq ToSet(given[t].live)

\* delta_channels_to_snapshot: a value is rebuilt from less than MaxSteps
\* checkpoints as long as every checkpoint on the way carried the counters on.
ReplayBounded ==
    \A t \in Stored :
        LET held == {i \in Stored : given[i].values["delta"] # Absent}
            walk == ToSet(UpTo(Ancestors([i \in Stored |-> given[i].parent], t), held))
        IN  (t \notin held /\ \A i \in walk \cup {t} : i \in held \/ given[i].info.counters # Zero)
                => Cardinality(walk) < MaxSteps
=============================================================================
