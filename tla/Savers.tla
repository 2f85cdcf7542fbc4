------------------------------- MODULE Savers -------------------------------
(***************************************************************************)
(* The checkpoint savers: InMemorySaver, SqliteSaver, PostgresSaver and    *)
(* ShallowPostgresSaver, as operations on the tables each one keeps for    *)
(* one thread and namespace.                                               *)
(*   - Sqlite stores a checkpoint with all its values in one row;          *)
(*   - InMemory and Postgres store a value once per channel version, in    *)
(*     blobs, and a checkpoint names versions; Postgres keeps primitive    *)
(*     values inline;                                                      *)
(*   - Shallow keeps one checkpoint and one blob per channel.              *)
(* Three channels stand for the kinds a saver tells apart: "obj" (a value  *)
(* that is serialized), "prim" (str, int, ...) and "delta", a DeltaChannel *)
(* of which only the writes are stored, with a snapshot now and then       *)
(* ("plain" are its values from before the graph was migrated).            *)
(***************************************************************************)
EXTENDS Integers, Sequences, FiniteSets, SequencesExt, FiniteSetsExt

CONSTANT PageSize    \* _DELTA_PAGE_SIZE

ASSUME PageSizeAssumption == PageSize \in Nat \ {0}

Channels == {"obj", "prim", "delta"}
NoId     == 0            \* ids are uuid6: they sort by time, a parent is smaller
Value(k, x) == [kind |-> k, is |-> x]
Absent   == Value("absent", <<>>)
Special  == -4           \* WRITES_IDX_MAP[RESUME]

None       == [x \in {} |-> x]
Over(f, g) == [x \in DOMAIN f \cup DOMAIN g |-> IF x \in DOMAIN g THEN g[x] ELSE f[x]]
At(x, y)   == [z \in {x} |-> y]
-----------------------------------------------------------------------------
(* put(checkpoint id n, parent p, cp: its values and versions, new: the    *)
(* channels in new_versions).                                              *)

\* get_next_version without its random part.
NextVersionPlain(v, n) == <<v[1] + 1, 0>>

\* The count goes up by one; the random part makes a version of put n its own.
NextVersion(v, n) == <<v[1] + 1, n>>

NoVersion == <<0, 0>>

Blobs(cp, S) == [b \in {<<ch, cp.versions[ch]>> : ch \in S} |-> cp.values[b[1]]]

\* writes is a dict: order has the place of every key in it.
MemEmpty == [storage |-> None, blobs |-> None, writes |-> None, order |-> None]

MemPut(tab, n, p, cp, new) ==
    [tab EXCEPT !.blobs = Over(@, Blobs(cp, new)),
                !.storage = Over(@, At(n, [versions |-> cp.versions, parent |-> p]))]

SqlEmpty == [checkpoints |-> None, writes |-> None]

SqlPut(tab, n, p, cp) ==
    [tab EXCEPT !.checkpoints = Over(@, At(n, [values |-> cp.values, parent |-> p]))]

PgEmpty == [checkpoints |-> None, blobs |-> None, writes |-> None]

\* A snapshot leaves True in its place, so that a walk sees where it is.
PgInline(cp) ==
    [ch \in Channels |-> CASE cp.values[ch].kind = "snapshot" -> Value("true", <<>>)
                           [] cp.values[ch].kind \in {"object", "plain"} -> Absent
                           [] OTHER -> cp.values[ch]]

\* Only what is new and not inline becomes a blob.
PgMoved(cp, new) == {ch \in new : cp.values[ch].kind \in {"object", "plain", "snapshot"}}

\* A blob that exists is kept (DO NOTHING).
PgPut(tab, n, p, cp, new) ==
    [tab EXCEPT !.blobs = Over(Blobs(cp, PgMoved(cp, new)), @),
                !.checkpoints = Over(@, At(n, [inline |-> PgInline(cp), versions |-> cp.versions,
                                               parent |-> p]))]

ShallowEmpty == [id |-> NoId, versions |-> None, blobs |-> None, writes |-> None]

\* One row per channel, replaced by its value or by "empty".
ShallowBlobs(cp, new) == [ch \in new |-> cp.values[ch]]

\* The writes of all but the new checkpoint and the one before are deleted.
ShallowPut(tab, n, p, cp, new) ==
    [id |-> n, versions |-> cp.versions,
     writes |-> [k \in {j \in DOMAIN tab.writes : j[1] \in {n, p}} |-> tab.writes[k]],
     blobs |-> Over(tab.blobs, ShallowBlobs(cp, new))]
-----------------------------------------------------------------------------
(* put_writes: rows by (checkpoint, task, idx); list is a sequence of      *)
(* [ch, v] and special writes have a slot of their own.                    *)

SlotOf(list, i) == IF list[i].ch = "special" THEN Special ELSE i - 1

NewRows(c, t, list) ==
    [k \in {<<c, t, SlotOf(list, i)>> : i \in DOMAIN list} |->
        list[CHOOSE i \in DOMAIN list : SlotOf(list, i) = k[3]]]

\* A regular write that is there already stands, a special one is replaced.
MemWrites(old, new) ==
    Over(old, [k \in {j \in DOMAIN new : j[3] = Special \/ j \notin DOMAIN old} |-> new[k]])

\* A new key goes to the end of the dict, whatever its task.
MemOrder(order, c, t, list) ==
    LET end == Max({order[k] : k \in DOMAIN order} \cup {0})
        new == DOMAIN NewRows(c, t, list) \ DOMAIN order
    IN  Over(order, [k \in new |-> end + (CHOOSE i \in DOMAIN list : SlotOf(list, i) = k[3])])

MemSave(tab, c, t, list) ==
    [tab EXCEPT !.writes = MemWrites(@, NewRows(c, t, list)),
                !.order = MemOrder(@, c, t, list)]

\* INSERT OR REPLACE when every write is special, INSERT OR IGNORE otherwise.
SqlWrites(old, new) ==
    IF \A k \in DOMAIN new : k[3] = Special THEN Over(old, new) ELSE Over(new, old)
-----------------------------------------------------------------------------
(* get_tuple(config of checkpoint i); pending are the pending_writes of the *)
(* delta channel, in their order.                                          *)

\* The rows of the delta channel saved at c.
DeltaOf(writes, c) ==
    [k \in {j \in DOMAIN writes : j[1] = c /\ writes[j].ch = "delta"} |-> writes[k].v]

\* Their values in an order, a set of pairs of keys.
Listed(rows, before) ==
    LET place(k) == Cardinality({j \in DOMAIN rows : <<j, k>> \in before}) + 1
    IN  [i \in 1 .. Cardinality(DOMAIN rows) |-> rows[CHOOSE k \in DOMAIN rows : place(k) = i]]

\* ORDER BY task_id, idx
ByTask(K) ==
    {p \in K \X K : p[1][2] < p[2][2] \/ (p[1][2] = p[2][2] /\ p[1][3] < p[2][3])}

DeltaRows(writes, c) ==
    LET rows == DeltaOf(writes, c) IN Listed(rows, ByTask(DOMAIN rows))

\* The order of the dict.
AsSaved(K, order) == {p \in K \X K : order[p[1]] < order[p[2]]}

DictRows(tab, c) ==
    LET rows == DeltaOf(tab.writes, c) IN Listed(rows, AsSaved(DOMAIN rows, tab.order))

Rows(tab, i) == [k \in {j \in DOMAIN tab.writes : j[1] = i} |-> tab.writes[k]]

BlobAt(tab, ch, ver) == IF <<ch, ver>> \in DOMAIN tab.blobs THEN tab.blobs[<<ch, ver>>] ELSE Absent

MemTuple(tab, i) ==
    [values |-> [ch \in Channels |-> BlobAt(tab, ch, tab.storage[i].versions[ch])],
     parent |-> tab.storage[i].parent, pending |-> DictRows(tab, i)]

SqlTuple(tab, i) ==
    [values |-> tab.checkpoints[i].values, parent |-> tab.checkpoints[i].parent,
     pending |-> DeltaRows(tab.writes, i)]

\* Inline values, overlaid by the blobs of the versions the checkpoint names.
PgTuple(tab, i) ==
    LET row == tab.checkpoints[i]
        blob(ch) == BlobAt(tab, ch, row.versions[ch])
    IN  [values |-> [ch \in Channels |-> IF blob(ch) # Absent THEN blob(ch) ELSE row.inline[ch]],
         parent |-> row.parent, pending |-> DeltaRows(tab.writes, i)]

\* Blobs are joined by channel only.
ShallowTuple(tab) ==
    [values |-> [ch \in Channels |-> IF ch \in DOMAIN tab.blobs THEN tab.blobs[ch] ELSE Absent],
     rows |-> Rows(tab, tab.id)]
-----------------------------------------------------------------------------
(* get_delta_channel_history(config of checkpoint t, ["delta"]): the seed  *)
(* and the writes since, oldest first.                                     *)

History(seed, ws) == [seed |-> seed, writes |-> ws]

\* The lists of a newest-first chain of checkpoints, oldest first.
Joined(lists, chain) ==
    LET sum[i \in 0 .. Len(chain)] ==
            IF i = 0 THEN <<>> ELSE lists[chain[i]] \o sum[i - 1]
    IN  sum[Len(chain)]

RowsOf(writes, chain) == Joined([c \in ToSet(chain) |-> DeltaRows(writes, c)], chain)

\* From every checkpoint up to the first, newest first.
Chains(parent) ==
    LET up[i \in DOMAIN parent \cup {NoId}] ==
            IF i = NoId THEN <<>> ELSE <<i>> \o up[parent[i]]
    IN  up

\* The ancestors of t, newest first.
Ancestors(parent, t) == Chains(parent)[parent[t]]

\* The chain up to and with its first member in S; all of it when there is none.
UpTo(chain, S) ==
    LET hits == {i \in DOMAIN chain : chain[i] \in S}
    IN  IF hits = {} THEN chain ELSE SubSeq(chain, 1, Min(hits))

Parents(tuples) == [i \in DOMAIN tuples |-> tuples[i].parent]

\* BaseCheckpointSaver: from tuple to parent tuple, to the first stored value.
BaseHistory(tuples, t) ==
    LET chain == UpTo(Ancestors(Parents(tuples), t),
                      {i \in DOMAIN tuples : tuples[i].values["delta"] # Absent})
    IN  History(IF chain = <<>> THEN Absent ELSE tuples[Last(chain)].values["delta"],
                Joined([i \in DOMAIN tuples |-> tuples[i].pending], chain))

\* InMemorySaver: a plain value subsumes the writes saved with it; they are sorted.
MemHistory(tab, t) ==
    LET blob(i) == BlobAt(tab, "delta", tab.storage[i].versions["delta"])
        chain == UpTo(Ancestors(Parents(tab.storage), t),
                      {i \in DOMAIN tab.storage : blob(i) # Absent})
        seed == IF chain = <<>> THEN Absent ELSE blob(Last(chain))
    IN  History(seed, RowsOf(tab.writes, IF seed.kind = "plain" THEN Front(chain) ELSE chain))

\* step_walk_with_row: rows of other branches are skipped.
OnPath(w, c) == c = w.cur

\* One streamed row; the walk is over when it has a seed.
StepWalk(tab, t, w, c) ==
    IF ~w.started /\ c = t
    THEN [w EXCEPT !.started = TRUE, !.cur = tab.checkpoints[c].parent]
    ELSE IF w.started /\ w.seed = Absent /\ OnPath(w, c)
    THEN [started |-> TRUE, cur |-> tab.checkpoints[c].parent, chain |-> Append(w.chain, c),
          seed |-> tab.checkpoints[c].values["delta"]]
    ELSE w

Fresh == [started |-> FALSE, cur |-> NoId, chain |-> <<>>, seed |-> Absent]

\* The rows up to t stream by, newest first: after n ids.
Streamed(tab, t) ==
    LET walk[n \in 0 .. t] ==
            IF n = 0 THEN Fresh
            ELSE LET c == t + 1 - n
                 IN  IF c \in DOMAIN tab.checkpoints THEN StepWalk(tab, t, walk[n - 1], c)
                     ELSE walk[n - 1]
    IN  walk

\* SqliteSaver
SqlHistory(tab, t) ==
    LET w == Streamed(tab, t)[t]
    IN  History(w.seed, RowsOf(tab.writes, w.chain))

\* A cursor that is given up when its checkpoint is on a later page.
WaitingLost(cur, known) == NoId

\* _try_advance_walks, case (c): the next ancestor is not known yet.
Waiting(cur, known) == cur

\* The walk up from each checkpoint as far as the pages read so far reach.
Reach(tab, known) ==
    LET walk[c \in DOMAIN tab.checkpoints \cup {NoId}] ==
            IF c \notin known THEN [chain |-> <<>>, cur |-> Waiting(c, known), at |-> NoId]
            ELSE IF tab.checkpoints[c].inline["delta"] # Absent
            THEN [chain |-> <<c>>, cur |-> NoId, at |-> c]
            ELSE LET r == walk[tab.checkpoints[c].parent] IN [r EXCEPT !.chain = <<c>> \o @]
    IN  walk

\* _try_advance_walks
Advance(tab, t, known, w) ==
    LET start == IF w.begun THEN w.cur
                 ELSE IF t \in known THEN tab.checkpoints[t].parent ELSE NoId
        r == Reach(tab, known)[start]
    IN  [begun |-> TRUE, known |-> known, cur |-> r.cur, chain |-> w.chain \o r.chain, at |-> r.at]

\* The newest n checkpoints of S.
Newest(S, n) == {i \in S : Cardinality({j \in S : j > i}) < n}

\* The checkpoints of the first page.
FirstPage(S) == Newest(S, PageSize)

Unread == [begun |-> FALSE, known |-> {}, cur |-> NoId, chain |-> <<>>, at |-> NoId]

\* Pages of checkpoints, newest first, until the seed is found or none is left.
Paged(tab, t) ==
    LET S == DOMAIN tab.checkpoints
        read[n \in 0 .. Cardinality(S)] ==
            IF n = 0 THEN Unread
            ELSE LET w == read[n - 1]
                 IN  IF w.at # NoId \/ w.known = S THEN w
                     ELSE Advance(tab, t, Newest(S, n * PageSize), w)
    IN  read[Cardinality(S)]

\* PostgresSaver
PgHistory(tab, t) ==
    LET w == Paged(tab, t)
    IN  History(IF w.at = NoId THEN Absent
                ELSE BlobAt(tab, "delta", tab.checkpoints[w.at].versions["delta"]),
                RowsOf(tab.writes, w.chain))
=============================================================================
