---------------------------- MODULE StorageProofs ----------------------------
(***************************************************************************)
(* Proofs about what is stored: Threads with its Savers, for any number of *)
(* checkpoints, writes and forks, and Stores, for any keys, operations,    *)
(* backends and numbers of calls.  They share no state.                    *)
(***************************************************************************)
EXTENDS Storage, SequenceTheorems, FiniteSetTheorems, WellFoundedInduction, TLAPS

-----------------------------------------------------------------------------
(* Sets of numbers.                                                        *)

LEMMA NatMin ==
    ASSUME NEW S \in SUBSET Nat, S # {}
    PROVE  \E n \in S : \A m \in S : n <= m
<1> DEFINE R == {ss \in Nat \X Nat : ss[1] < ss[2]}
<1>1. IsWellFoundedOn(R, Nat)
    BY NatLessThanWellFounded DEF OpToRel
<1>2. \A a, b \in Nat : <<a, b>> \in R <=> a < b
    OBVIOUS
<1> HIDE DEF R
<1>3. PICK x \in S : \A y \in S : <<y, x>> \notin R
    BY <1>1, WFMin, Zenon
<1>4. \A m \in S : m \in Nat /\ x \in Nat /\ ~(m < x)
    BY <1>2, <1>3
<1>5. \A m \in S : x <= m
    BY <1>4
<1> QED
    BY <1>5

\* Min and Max return what they are to return.
LEMMA MinFact ==
    ASSUME NEW S \in SUBSET Nat, S # {}
    PROVE  Min(S) \in S
<1>1. \E x \in S : \A y \in S : x <= y
    BY NatMin
<1> QED
    BY <1>1 DEF Min

LEMMA MaxFact ==
    ASSUME NEW b \in Nat, NEW S \in SUBSET (0 .. b), S # {}
    PROVE  Max(S) \in S /\ \A y \in S : y <= Max(S)
<1> DEFINE T == {b - y : y \in S}
<1>0. \A y \in S : y \in Nat /\ y <= b /\ b - y \in Nat
    OBVIOUS
<1>1. T \in SUBSET Nat /\ T # {}
    BY <1>0, Zenon
<1>2. PICK t \in T : \A u \in T : t <= u
    BY <1>1, NatMin
<1>3. PICK x \in S : t = b - x
    OBVIOUS
<1>4. \A y \in S : b - x <= b - y
    BY <1>2, <1>3
<1>5. \A y \in S : y <= x
    BY <1>0, <1>4
<1> QED
    BY <1>5 DEF Max

-----------------------------------------------------------------------------
(* The invariant.                                                          *)

\* s is a sequence, whatever of.
IsList(s) == s \in Seq({s[i] : i \in DOMAIN s})

Ids ==
    /\ puts \in Nat /\ forks \in Nat
    /\ Stored \subseteq 1 .. puts
    /\ Stored # {} => puts \in Stored

\* A value of one of the kinds, or none.
IsOf(x, kinds) == x = Absent \/ (x.kind \in kinds /\ x = Value(x.kind, x.is))

\* What put is called with, by the n-th call at the latest.
Proper(cp, n) ==
    /\ cp.values = [ch \in Channels |-> cp.values[ch]]
    /\ cp.versions = [ch \in Channels |-> cp.versions[ch]]
    /\ \A ch \in Channels : cp.versions[ch][2] \in 0 .. n
    /\ IsOf(cp.values["obj"], {"object"})
    /\ IsOf(cp.values["prim"], {"primitive"})
    /\ IsOf(cp.values["delta"], {"plain", "snapshot"})
    /\ ~migrated =>
          /\ IsList(cp.values["delta"].is)
          /\ IF cp.values["delta"].is = <<>> THEN cp.values["delta"] = Absent
             ELSE cp.values["delta"].kind = "plain"

\* The blobs of tab have the values of cp for its versions.
MemHolds(tab, cp) ==
    \A ch \in Channels :
        \/ BlobAt(tab, ch, cp.versions[ch]) = cp.values[ch]
        \/ ch = "delta" /\ cp.values[ch] = Absent

Moved == {"object", "plain", "snapshot"}

PgHolds(tab, cp) ==
    \A ch \in Channels :
        IF cp.values[ch].kind \in Moved THEN BlobAt(tab, ch, cp.versions[ch]) = cp.values[ch]
        ELSE ch # "delta" => BlobAt(tab, ch, cp.versions[ch]) = Absent

\* No version has been used that a later put could make.
Old(blobs) == \A b \in DOMAIN blobs : b[2][2] \in 1 .. puts

GivenInv == \A i \in Stored : Proper(given[i], puts)

MemInv ==
    /\ mem = [storage |-> mem.storage, blobs |-> mem.blobs, writes |-> mem.writes,
              order |-> mem.order]
    /\ DOMAIN mem.storage = Stored /\ Old(mem.blobs)
    /\ \A i \in Stored :
          /\ mem.storage[i].versions = given[i].versions
          /\ mem.storage[i].parent = given[i].parent
          /\ MemHolds(mem, given[i])

SqlInv ==
    /\ sql = [checkpoints |-> sql.checkpoints, writes |-> sql.writes]
    /\ DOMAIN sql.checkpoints = Stored
    /\ \A i \in Stored :
          /\ sql.checkpoints[i].values = given[i].values
          /\ sql.checkpoints[i].parent = given[i].parent

PgInv ==
    /\ pg = [checkpoints |-> pg.checkpoints, blobs |-> pg.blobs, writes |-> pg.writes]
    /\ DOMAIN pg.checkpoints = Stored /\ Old(pg.blobs)
    /\ \A i \in Stored :
          /\ pg.checkpoints[i].inline = PgInline(given[i])
          /\ pg.checkpoints[i].versions = given[i].versions
          /\ pg.checkpoints[i].parent = given[i].parent
          /\ PgHolds(pg, given[i])

Counted(k) == k[3] # Special \/ <<k[1], k[2]>> \notin mixed

WritesInv ==
    /\ sql.writes = pg.writes
    /\ DOMAIN mem.writes = DOMAIN sql.writes
    /\ \A k \in DOMAIN sql.writes : Counted(k) => mem.writes[k] = sql.writes[k]
    /\ IsFiniteSet(DOMAIN sql.writes)
    /\ \A k \in DOMAIN sql.writes \cup DOMAIN shallow.writes : k[1] \in 0 .. puts

\* The values and versions that a put after p starts from.
BaseOf(p) ==
    IF p = NoId THEN [values |-> [ch \in Channels |-> Absent],
                      versions |-> [ch \in Channels |-> NoVersion]] ELSE given[p]

Head0 == IF Stored = {} THEN NoId ELSE puts

ShallowInv ==
    /\ shallow = [id |-> shallow.id, versions |-> shallow.versions, blobs |-> shallow.blobs,
                  writes |-> shallow.writes]
    /\ forks = 0 =>
          /\ \A ch \in {"obj", "prim"} :
                (IF ch \in DOMAIN shallow.blobs THEN shallow.blobs[ch] ELSE Absent)
                    = BaseOf(Head0).values[ch]
          /\ Stored # {} =>
                /\ shallow.id = puts
                /\ Rows(shallow, puts) = Rows(sql, puts)

RunInv ==
    /\ run = [pc |-> run.pc, at |-> run.at, live |-> run.live, done |-> run.done, wrote |-> run.wrote]
    /\ run.pc # "off" => run.at \in Bases
    /\ ~migrated => IsList(run.live) /\ IsList(run.wrote)
    /\ ~migrated /\ run.pc \in {"input", "tasks", "update"} =>
          run.live = BaseOf(run.at).values["delta"].is

ThreadInv ==
    /\ migrated \in BOOLEAN /\ Ids /\ GivenInv /\ MemInv /\ SqlInv /\ PgInv
    /\ WritesInv /\ ShallowInv /\ RunInv

-----------------------------------------------------------------------------
(* The invariant implies the property.                                     *)

LEMMA LatestIs == ASSUME Ids PROVE Latest = Head0
<1>1. \A x \in Stored \cup {NoId} : x \in Nat /\ x <= puts
    BY DEF Ids, NoId
<1>2. Head0 \in Stored \cup {NoId} /\ \A y \in Stored \cup {NoId} : Head0 >= y
    BY <1>1 DEF Head0, NoId, Ids
<1>3. \A x \in Stored \cup {NoId} : (\A y \in Stored \cup {NoId} : x >= y) => x = Head0
    BY <1>1, <1>2
<1>4. (CHOOSE x \in Stored \cup {NoId} : \A y \in Stored \cup {NoId} : x >= y) = Head0
    BY <1>2, <1>3
<1> QED
    BY <1>4 DEF Latest, Max

LEMMA SaverTuple ==
    ASSUME NEW i
    PROVE  /\ Tuple("mem", i) = MemTuple(mem, i)
           /\ Tuple("sql", i) = SqlTuple(sql, i)
           /\ Tuple("pg", i) = PgTuple(pg, i)
<1>1. ("mem" # "sql") /\ ("mem" # "pg") /\ ("sql" # "pg")
    OBVIOUS
<1> QED
    BY <1>1, Zenon DEF Tuple

LEMMA InlineOf ==
    ASSUME NEW cp, NEW ch \in Channels
    PROVE  /\ cp.values[ch].kind = "snapshot" => PgInline(cp)[ch] = Value("true", <<>>)
           /\ cp.values[ch].kind \in {"object", "plain"} => PgInline(cp)[ch] = Absent
           /\ cp.values[ch].kind \notin Moved => PgInline(cp)[ch] = cp.values[ch]
<1> DEFINE v == cp.values[ch]
<1>1. PgInline(cp)[ch] = CASE v.kind = "snapshot" -> Value("true", <<>>)
                           [] v.kind \in {"object", "plain"} -> Absent
                           [] OTHER -> v
    BY Zenon DEF PgInline
<1>2. /\ v.kind = "snapshot" => v.kind \notin {"object", "plain"}
      /\ v.kind \in {"object", "plain"} => v.kind # "snapshot"
    OBVIOUS
<1>3. ASSUME v.kind = "snapshot" PROVE PgInline(cp)[ch] = Value("true", <<>>)
    BY <1>1, <1>2, <1>3, Zenon
<1>4. ASSUME v.kind \in {"object", "plain"} PROVE PgInline(cp)[ch] = Absent
    BY <1>1, <1>2, <1>4, Zenon
<1>5. ASSUME v.kind \notin Moved PROVE PgInline(cp)[ch] = v
    <2>1. v.kind # "snapshot" /\ v.kind \notin {"object", "plain"}
        BY <1>5 DEF Moved
    <2> QED
        BY <1>1, <2>1, Zenon
<1> QED
    BY <1>3, <1>4, <1>5

LEMMA Kinds ==
    ASSUME NEW cp, NEW n, Proper(cp, n), NEW ch \in Channels
    PROVE  /\ cp.values[ch].kind \in Moved \cup {"primitive", "absent"}
           /\ cp.values[ch].kind = "absent" <=> cp.values[ch] = Absent
           /\ cp.values[ch].kind = "primitive" => ch = "prim"
<1>1. Absent.kind = "absent"
    BY DEF Absent, Value
<1>2. ch \in {"obj", "prim", "delta"}
    BY DEF Channels
<1> QED
    BY <1>1, <1>2 DEF Proper, IsOf, Moved

LEMMA PgValue ==
    ASSUME PgInv, GivenInv, NEW i \in Stored, NEW ch \in Channels
    PROVE  \/ PgTuple(pg, i).values[ch] = given[i].values[ch]
           \/ ch = "delta" /\ given[i].values[ch] = Absent
<1> DEFINE blob == BlobAt(pg, ch, given[i].versions[ch])
           v == given[i].values[ch]
<1>1. PgTuple(pg, i).values[ch] = IF blob # Absent THEN blob ELSE PgInline(given[i])[ch]
    BY DEF PgTuple, PgInv
<1>2. Proper(given[i], puts)
    BY DEF GivenInv
<1>3. /\ v.kind \in Moved \cup {"primitive", "absent"}
      /\ v.kind = "absent" <=> v = Absent
      /\ v.kind = "primitive" => ch = "prim"
    BY <1>2, Kinds
<1>4. PgHolds(pg, given[i])
    BY DEF PgInv
<1>5. CASE v.kind \in Moved
    BY <1>1, <1>3, <1>4, <1>5 DEF PgHolds, Moved
<1>6. CASE v.kind \notin Moved
    <2>1. PgInline(given[i])[ch] = v
        BY <1>6, InlineOf
    <2> QED
        BY <1>1, <1>3, <1>4, <1>6, <2>1 DEF PgHolds
<1> QED
    BY <1>5, <1>6

LEMMA ThreadInvImplies == ASSUME ThreadInv PROVE SaversAgree
<1>1. ASSUME NEW saver \in {"mem", "sql", "pg"}, NEW i \in Stored
      PROVE  /\ Tuple(saver, i).parent = given[i].parent
             /\ \A ch \in Channels : \/ Tuple(saver, i).values[ch] = given[i].values[ch]
                                     \/ ch = "delta" /\ given[i].values[ch] = Absent
    <2>1. CASE saver = "mem"
        <3>1. Tuple(saver, i) = MemTuple(mem, i)
            BY <2>1, SaverTuple
        <3> QED
            BY <3>1 DEF MemTuple, ThreadInv, MemInv, MemHolds
    <2>2. CASE saver = "sql"
        <3>1. Tuple(saver, i) = SqlTuple(sql, i)
            BY <2>2, SaverTuple
        <3> QED
            BY <3>1 DEF SqlTuple, ThreadInv, SqlInv
    <2>3. CASE saver = "pg"
        <3>1. Tuple(saver, i) = PgTuple(pg, i)
            BY <2>3, SaverTuple
        <3>2. PgTuple(pg, i).parent = given[i].parent
            BY DEF PgTuple, ThreadInv, PgInv
        <3> QED
            BY <3>1, <3>2, PgValue DEF ThreadInv
    <2> QED
        BY <2>1, <2>2, <2>3
<1> DEFINE pendingOf(tab) == [k \in {j \in DOMAIN tab.writes : Counted(j)} |-> tab.writes[k]]
<1>2. pendingOf(mem) = pendingOf(sql) /\ pendingOf(sql) = pendingOf(pg)
    BY DEF ThreadInv, WritesInv
<1>3. ASSUME Stored # {}, forks = 0
      PROVE  /\ shallow.id = Latest
             /\ \A ch \in {"obj", "prim"} :
                   ShallowTuple(shallow).values[ch] = given[Latest].values[ch]
             /\ ShallowTuple(shallow).rows = Rows(sql, Latest)
    <2>1. Latest = puts /\ Head0 = puts /\ puts # NoId
        BY <1>3, LatestIs DEF Head0, ThreadInv, Ids, NoId
    <2>2. BaseOf(Head0) = given[puts]
        BY <2>1 DEF BaseOf
    <2>3. \A ch \in {"obj", "prim"} : ch \in Channels
        BY DEF Channels
    <2> QED
        BY <1>3, <2>1, <2>2, <2>3 DEF ThreadInv, ShallowInv, ShallowTuple
<1> QED
    BY <1>1, <1>2, <1>3 DEF SaversAgree, Counted

-----------------------------------------------------------------------------
(* Sequences.                                                              *)

LEMMA ListOf ==
    ASSUME NEW S, NEW s \in Seq(S)
    PROVE  IsList(s)
<1>1. Len(s) \in Nat /\ DOMAIN s = 1 .. Len(s) /\ s = [i \in 1 .. Len(s) |-> s[i]]
    OBVIOUS
<1> DEFINE R == {s[i] : i \in DOMAIN s}
<1>2. \A i \in 1 .. Len(s) : s[i] \in R
    BY <1>1
<1> HIDE DEF R
<1>3. s \in Seq(R)
    BY <1>1, <1>2
<1> QED
    BY <1>3 DEF IsList, R

LEMMA SeqMap ==
    ASSUME NEW n \in Nat, NEW s, s = [i \in 1 .. n |-> s[i]]
    PROVE  IsList(s)
<1> DEFINE R == {s[i] : i \in DOMAIN s}
<1>1. DOMAIN s = 1 .. n
    OBVIOUS
<1>2. \A i \in 1 .. n : s[i] \in R
    BY <1>1
<1> HIDE DEF R
<1>3. s \in Seq(R)
    BY <1>1, <1>2
<1> QED
    BY <1>3 DEF IsList, R

LEMMA ConcatIs ==
    ASSUME NEW s, NEW t, IsList(s), IsList(t)
    PROVE  /\ IsList(s \o t) /\ s \o <<>> = s
           /\ Len(s) \in Nat /\ Len(t) \in Nat
<1> DEFINE A == {s[i] : i \in DOMAIN s}
           B == {t[i] : i \in DOMAIN t}
           C == A \cup B
<1>1. s \in Seq(A) /\ t \in Seq(B)
    BY DEF IsList
<1> HIDE DEF A, B
<1>2. s \in Seq(C) /\ t \in Seq(C)
    BY <1>1
<1> HIDE DEF C
<1>3. s \o t \in Seq(C) /\ Len(s) \in Nat /\ Len(t) \in Nat
    BY <1>2
<1>4. s \o <<>> = s
    BY <1>2, ConcatEmptySeq
<1> QED
    BY <1>2, <1>3, <1>4, ListOf, Zenon

LEMMA AppendIs ==
    ASSUME NEW s, NEW x, IsList(s)
    PROVE  IsList(Append(s, x)) /\ IsList(<<x>>) /\ IsList(<<>>)
<1> DEFINE A == {s[i] : i \in DOMAIN s} \cup {x}
<1>1. s \in Seq({s[i] : i \in DOMAIN s})
    BY DEF IsList
<1>2. s \in Seq(A) /\ x \in A
    BY <1>1
<1> HIDE DEF A
<1>3. Append(s, x) \in Seq(A) /\ <<x>> \in Seq(A) /\ <<>> \in Seq(A)
    BY <1>2
<1> QED
    BY <1>3, ListOf

\* The rows of a finite table are put in a sequence.
LEMMA RowsAreSeq ==
    ASSUME NEW tab, IsFiniteSet(DOMAIN tab), NEW c
    PROVE  IsList(DeltaRows(tab, c))
<1> DEFINE keys == DOMAIN DeltaOf(tab, c)
<1>1. IsFiniteSet(keys)
    <2>1. keys \in SUBSET DOMAIN tab
        BY DEF DeltaOf
    <2> QED
        BY <2>1, FS_Subset
<1>2. Cardinality(keys) \in Nat
    BY <1>1, FS_CardinalityType
<1> HIDE DEF keys
<1>3. \A n \in Nat : \A f : f = [i \in 1 .. n |-> f[i]] => IsList(f)
    BY SeqMap, Zenon
<1>4. PICK n \in Nat : n = Cardinality(keys)
    BY <1>2
<1>5. DeltaRows(tab, c) = [i \in 1 .. n |-> DeltaRows(tab, c)[i]]
    BY <1>4 DEF DeltaRows, Listed, keys
<1> QED
    BY <1>3, <1>5, Zenon

LEMMA SavedIsSeq ==
    ASSUME WritesInv, NEW i, NEW t
    PROVE  IsList(Saved(i, t))
<1> DEFINE tab == [k \in {j \in DOMAIN sql.writes : j[2] = t} |-> sql.writes[k]]
<1>1. DOMAIN tab \in SUBSET DOMAIN sql.writes
    OBVIOUS
<1>2. IsFiniteSet(DOMAIN tab)
    BY <1>1, FS_Subset, Zenon DEF WritesInv
<1> HIDE DEF tab
<1>3. IsList(DeltaRows(tab, i))
    BY <1>2, RowsAreSeq
<1> QED
    BY <1>3 DEF Saved, tab

-----------------------------------------------------------------------------
(* put_writes.                                                             *)

LEMMA NewRowsFacts ==
    ASSUME NEW c, NEW t, NEW list, IsList(list)
    PROVE  /\ IsFiniteSet(DOMAIN NewRows(c, t, list))
           /\ \A k \in DOMAIN NewRows(c, t, list) :
                 /\ k[1] = c /\ k[2] = t
                 /\ \E i \in DOMAIN list : k[3] = SlotOf(list, i)
<1>1. PICK n \in Nat : DOMAIN list = 1 .. n
    <2>1. list \in Seq({list[i] : i \in DOMAIN list})
        BY DEF IsList
    <2> QED
        BY <2>1
<1> DEFINE K == {<<c, t, SlotOf(list, i)>> : i \in DOMAIN list}
           f == [i \in 1 .. n |-> <<c, t, SlotOf(list, i)>>]
<1>2. DOMAIN NewRows(c, t, list) = K
    BY DEF NewRows
<1>3. f \in Surjection(1 .. n, K)
    BY <1>1 DEF Surjection
<1>4. IsFiniteSet(1 .. n)
    BY FS_Interval
<1>5. IsFiniteSet(K)
    BY <1>3, <1>4, FS_Surjection, Zenon
<1> QED
    BY <1>2, <1>5

\* The special rows of a list are its special writes.
LEMMA SpecialRows ==
    ASSUME NEW c, NEW t, NEW list, IsList(list), NEW k \in DOMAIN NewRows(c, t, list), k[3] = Special
    PROVE  NewRows(c, t, list)[k].ch # "delta"
<1>1. \A i \in DOMAIN list : i \in Nat /\ i >= 1
    <2>1. list \in Seq({list[i] : i \in DOMAIN list})
        BY DEF IsList
    <2> QED
        BY <2>1
<1>2. \A i \in DOMAIN list : SlotOf(list, i) = Special => list[i].ch = "special"
    BY <1>1 DEF SlotOf, Special
<1>3. \E i \in DOMAIN list : SlotOf(list, i) = k[3]
    BY NewRowsFacts
<1>4. PICK j : j = CHOOSE i \in DOMAIN list : SlotOf(list, i) = k[3]
    OBVIOUS
<1>5. j \in DOMAIN list /\ SlotOf(list, j) = k[3]
    BY <1>3, <1>4
<1>6. NewRows(c, t, list)[k] = list[j]
    BY <1>4 DEF NewRows
<1> QED
    BY <1>2, <1>5, <1>6

\* The rows of a list on every saver.  In a list without special writes, or
\* with nothing else, all of them agree; otherwise it is noted.
LEMMA SavedWrites ==
    ASSUME ThreadInv, NEW c \in 0 .. puts, NEW t, NEW list, IsList(list),
           SaveWrites(c, t, list), UNCHANGED puts,
           mixed \subseteq mixed',
           \/ \A i \in DOMAIN list : SlotOf(list, i) # Special
           \/ \A i \in DOMAIN list : SlotOf(list, i) = Special
           \/ <<c, t>> \in mixed'
    PROVE  WritesInv'
<1> DEFINE new == NewRows(c, t, list)
           old == sql.writes
<1>1. /\ IsFiniteSet(DOMAIN new)
      /\ \A k \in DOMAIN new : k[1] = c /\ k[2] = t /\ \E i \in DOMAIN list : k[3] = SlotOf(list, i)
    BY NewRowsFacts
<1>2. WritesInv /\ MemInv /\ SqlInv /\ PgInv /\ ShallowInv /\ puts \in Nat
    BY DEF ThreadInv, Ids
<1>3. /\ mem'.writes = MemWrites(mem.writes, new)
      /\ sql'.writes = SqlWrites(old, new)
      /\ pg'.writes = SqlWrites(pg.writes, new)
      /\ shallow'.writes = SqlWrites(shallow.writes, new)
    BY <1>2 DEF SaveWrites, MemSave, MemInv, SqlInv, PgInv, ShallowInv
<1> HIDE DEF new
<1>4. sql'.writes = pg'.writes
    BY <1>2, <1>3 DEF WritesInv
<1> DEFINE all == \A k \in DOMAIN new : k[3] = Special
           fresh == [k \in {j \in DOMAIN new : j[3] = Special \/ j \notin DOMAIN mem.writes} |-> new[k]]
<1>5. /\ all => sql'.writes = Over(old, new)
      /\ ~all => sql'.writes = Over(new, old)
    BY <1>3 DEF SqlWrites
<1>6. DOMAIN sql'.writes = DOMAIN old \cup DOMAIN new
    BY <1>5 DEF Over
<1>7. mem'.writes = Over(mem.writes, fresh)
    BY <1>3 DEF MemWrites
<1>8. DOMAIN mem.writes = DOMAIN old
    BY <1>2 DEF WritesInv
<1>9. DOMAIN mem'.writes = DOMAIN sql'.writes
    <2>1. DOMAIN mem'.writes = DOMAIN mem.writes \cup DOMAIN fresh
        BY <1>7 DEF Over
    <2>2. DOMAIN fresh \subseteq DOMAIN new /\ DOMAIN new \subseteq DOMAIN fresh \cup DOMAIN mem.writes
        OBVIOUS
    <2> QED
        BY <1>6, <1>8, <2>1, <2>2
<1>10. ASSUME NEW k \in DOMAIN sql'.writes, Counted(k)' PROVE mem'.writes[k] = sql'.writes[k]
    <2>1. k[3] # Special \/ <<k[1], k[2]>> \notin mixed'
        BY <1>10 DEF Counted
    <2>2. Counted(k)
        BY <2>1 DEF Counted
    <2>3. CASE k \notin DOMAIN new
        <3>1. k \in DOMAIN old \ DOMAIN new /\ k \in DOMAIN mem.writes \ DOMAIN fresh
            BY <1>6, <1>8, <2>3
        <3>2. mem'.writes[k] = mem.writes[k]
            BY <1>7, <3>1 DEF Over
        <3>3. sql'.writes[k] = old[k]
            BY <1>5, <3>1 DEF Over
        <3> QED
            BY <1>2, <2>2, <3>1, <3>2, <3>3 DEF WritesInv
    <2>4. CASE k \in DOMAIN new /\ k[3] = Special
        <3>1. k[1] = c /\ k[2] = t /\ <<c, t>> \notin mixed'
            BY <1>1, <2>1, <2>4
        <3>2. PICK i \in DOMAIN list : SlotOf(list, i) = Special
            BY <1>1, <2>4
        <3>3. \A j \in DOMAIN list : SlotOf(list, j) = Special
            BY <3>1, <3>2
        <3>4. all
            BY <1>1, <3>3
        <3>5. k \in DOMAIN fresh /\ fresh[k] = new[k]
            BY <2>4
        <3> HIDE DEF fresh, all
        <3>6. mem'.writes[k] = new[k] /\ sql'.writes[k] = new[k]
            BY <1>5, <1>7, <2>4, <3>4, <3>5 DEF Over
        <3> QED
            BY <3>6
    <2>5. CASE k \in DOMAIN new /\ k[3] # Special
        <3>1. ~all
            BY <2>5
        <3>2. CASE k \in DOMAIN old
            <4>1. k \in DOMAIN mem.writes \ DOMAIN fresh
                BY <1>8, <2>5, <3>2
            <4> HIDE DEF fresh, all
            <4>2. mem'.writes[k] = mem.writes[k] /\ sql'.writes[k] = old[k]
                BY <1>5, <1>7, <3>1, <3>2, <4>1 DEF Over
            <4> QED
                BY <1>2, <2>2, <3>2, <4>2 DEF WritesInv
        <3>3. CASE k \notin DOMAIN old
            <4>1. k \in DOMAIN fresh /\ fresh[k] = new[k] /\ k \in DOMAIN new \ DOMAIN old
                BY <1>8, <2>5, <3>3
            <4> HIDE DEF fresh, all
            <4>2. mem'.writes[k] = new[k] /\ sql'.writes[k] = new[k]
                BY <1>5, <1>7, <3>1, <4>1 DEF Over
            <4> QED
                BY <4>2
        <3> QED
            BY <3>2, <3>3
    <2> QED
        BY <2>3, <2>4, <2>5
<1>11. IsFiniteSet(DOMAIN sql'.writes)
    <2>1. IsFiniteSet(DOMAIN old) /\ IsFiniteSet(DOMAIN new)
        BY <1>1, <1>2 DEF WritesInv
    <2>2. IsFiniteSet(DOMAIN old \cup DOMAIN new)
        BY <2>1, FS_Union, Zenon
    <2> QED
        BY <1>6, <2>2
<1>12. DOMAIN shallow'.writes = DOMAIN shallow.writes \cup DOMAIN new
    BY <1>3 DEF Over, SqlWrites
<1>13. \A k \in DOMAIN sql'.writes \cup DOMAIN shallow'.writes : k[1] \in 0 .. puts'
    BY <1>1, <1>2, <1>6, <1>12 DEF WritesInv
<1> HIDE DEF fresh, all
<1> QED
    BY <1>4, <1>9, <1>10, <1>11, <1>13 DEF WritesInv

-----------------------------------------------------------------------------
(* put.                                                                    *)

LEMMA BaseIs ==
    ASSUME ThreadInv, NEW p \in Stored \cup {NoId}
    PROVE  /\ Proper(BaseOf(p), puts)
           /\ MemHolds(mem, BaseOf(p)) /\ PgHolds(pg, BaseOf(p))
<1>0. 0 \notin Stored /\ puts \in Nat
    BY DEF ThreadInv, Ids
<1>1. CASE p # NoId
    BY <1>1 DEF BaseOf, ThreadInv, GivenInv, MemInv, PgInv
<1>2. CASE p = NoId
    <2>1. \A ch \in Channels : BaseOf(p).values[ch] = Absent /\ BaseOf(p).versions[ch] = NoVersion
        BY <1>2 DEF BaseOf
    <2>2. NoVersion[2] = 0 /\ Absent.kind = "absent" /\ Absent.is = <<>>
        BY DEF NoVersion, Absent, Value
    <2>3. IsList(<<>>)
        <3>1. <<>> \in Seq({0})
            OBVIOUS
        <3> QED
            BY <3>1, ListOf
    <2>4. Proper(BaseOf(p), puts)
        <3>1. BaseOf(p) = [values |-> [ch \in Channels |-> Absent],
                           versions |-> [ch \in Channels |-> NoVersion]]
            BY <1>2 DEF BaseOf
        <3>2. "obj" \in Channels /\ "prim" \in Channels /\ "delta" \in Channels
            BY DEF Channels
        <3> QED
            BY <1>0, <2>1, <2>2, <2>3, <3>1, <3>2 DEF Proper, IsOf
    <2>5. \A ch : <<ch, NoVersion>> \notin DOMAIN mem.blobs /\ <<ch, NoVersion>> \notin DOMAIN pg.blobs
        <3> SUFFICES ASSUME NEW ch, <<ch, NoVersion>> \in DOMAIN mem.blobs \cup DOMAIN pg.blobs
                     PROVE  FALSE
            OBVIOUS
        <3>1. <<ch, NoVersion>>[2][2] \in 1 .. puts
            BY DEF ThreadInv, MemInv, PgInv, Old
        <3> QED
            BY <2>2, <3>1
    <2>6. \A ch \in Channels : BlobAt(mem, ch, NoVersion) = Absent /\ BlobAt(pg, ch, NoVersion) = Absent
        BY <2>5 DEF BlobAt
    <2> QED
        BY <2>1, <2>2, <2>4, <2>6 DEF MemHolds, PgHolds, Moved
<1> QED
    BY <1>1, <1>2

\* The blobs of a put: those of versions of its own are new, the others stay.
Added(tab, next, n, cp, S) ==
    /\ \A ch, ver : ver[2] # n => BlobAt(next, ch, ver) = BlobAt(tab, ch, ver)
    /\ \A ch \in S : BlobAt(next, ch, cp.versions[ch]) = cp.values[ch]
    /\ \A ch, ver : ch \notin S /\ ver[2] = n => BlobAt(next, ch, ver) = Absent
    /\ \A b \in DOMAIN next.blobs : b \in DOMAIN tab.blobs \/ b[2][2] = n

LEMMA BlobsAdded ==
    ASSUME NEW tab, NEW next, NEW n, NEW cp, NEW S,
           \A b \in DOMAIN tab.blobs : b[2][2] # n,
           \A ch \in S : cp.versions[ch][2] = n,
           \/ next.blobs = Over(tab.blobs, Blobs(cp, S))
           \/ next.blobs = Over(Blobs(cp, S), tab.blobs)
    PROVE  Added(tab, next, n, cp, S)
<1> DEFINE D == {<<ch, cp.versions[ch]>> : ch \in S}
<1>1. Blobs(cp, S) = [b \in D |-> cp.values[b[1]]]
    BY DEF Blobs
<1>2. \A b \in D : b[2][2] = n /\ b \notin DOMAIN tab.blobs
    OBVIOUS
<1>3. \A ch \in S : <<ch, cp.versions[ch]>> \in D /\ <<ch, cp.versions[ch]>>[1] = ch
    OBVIOUS
<1>4. \A ch, ver : <<ch, ver>> \in D => ch \in S /\ ver[2] = n
    OBVIOUS
<1> HIDE DEF D
<1>5. DOMAIN next.blobs = DOMAIN tab.blobs \cup D
    BY <1>1 DEF Over
<1>6. \A b \in D : next.blobs[b] = cp.values[b[1]]
    BY <1>1, <1>2 DEF Over
<1>7. \A b \in DOMAIN tab.blobs : b \notin D /\ next.blobs[b] = tab.blobs[b]
    BY <1>1, <1>2 DEF Over
<1>8. \A ch, ver : ver[2] # n => BlobAt(next, ch, ver) = BlobAt(tab, ch, ver)
    BY <1>4, <1>5, <1>7 DEF BlobAt
<1>9. \A ch \in S : BlobAt(next, ch, cp.versions[ch]) = cp.values[ch]
    BY <1>3, <1>5, <1>6 DEF BlobAt
<1>10. \A ch, ver : ch \notin S /\ ver[2] = n => BlobAt(next, ch, ver) = Absent
    <2> SUFFICES ASSUME NEW ch, NEW ver, ch \notin S, ver[2] = n
                 PROVE  <<ch, ver>> \notin DOMAIN next.blobs
        BY DEF BlobAt
    <2>1. <<ch, ver>>[2][2] = n
        OBVIOUS
    <2> QED
        BY <1>4, <1>5, <2>1
<1> QED
    BY <1>2, <1>5, <1>8, <1>9, <1>10 DEF Added

\* A put of cp, after q, on the savers with a history: cp has versions of its
\* own for the channels that are new, and the versions and values of BaseOf(p)
\* for the others.
PutStep(n, p, q, cp, new) ==
    /\ n = puts + 1 /\ p \in Stored \cup {NoId} /\ new \subseteq Channels
    /\ Proper(cp, puts)'
    /\ \A ch \in new : cp.versions[ch][2] = n
    /\ \A ch \in Channels \ new :
          /\ cp.versions[ch] = BaseOf(p).versions[ch]
          /\ cp.values[ch] = BaseOf(p).values[ch] \/ (ch = "delta" /\ cp.values[ch] = Absent)
    /\ puts' = n /\ migrated' = migrated /\ forks' \in Nat
    /\ DOMAIN given' = Stored \cup {n}
    /\ \A i \in Stored : given'[i] = given[i]
    /\ given'[n].values = cp.values /\ given'[n].versions = cp.versions /\ given'[n].parent = q
    /\ mem' = MemPut(mem, n, q, cp, new)
    /\ sql' = SqlPut(sql, n, q, cp)
    /\ pg' = PgPut(pg, n, q, cp, new)

LEMMA PutKept ==
    ASSUME ThreadInv, NEW n, NEW p, NEW q, NEW cp, NEW new, PutStep(n, p, q, cp, new)
    PROVE  Ids' /\ GivenInv' /\ MemInv' /\ SqlInv' /\ PgInv'
<1> USE DEF PutStep
<1>0. /\ puts \in Nat /\ n \notin Stored /\ Stored \subseteq 1 .. puts
      /\ Stored' = Stored \cup {n}
    BY DEF ThreadInv, Ids, Stored
<1>1. Ids'
    <2>1. Stored' \subseteq 1 .. puts' /\ puts' \in Stored' /\ puts' \in Nat
        BY <1>0
    <2> QED
        BY <2>1 DEF Ids
<1>2. \A i \in Stored : Proper(given[i], puts) /\ Proper(given[i], puts)'
    <2>1. SUFFICES ASSUME NEW i \in Stored PROVE Proper(given[i], puts) /\ Proper(given[i], puts)'
        OBVIOUS
    <2>2. Proper(given[i], puts) /\ given'[i] = given[i]
        BY DEF ThreadInv, GivenInv
    <2>3. \A ch \in Channels : given[i].versions[ch][2] \in 0 .. puts'
        <3>1. ASSUME NEW ch \in Channels PROVE given[i].versions[ch][2] \in 0 .. puts'
            <4>1. PICK v \in 0 .. puts : v = given[i].versions[ch][2]
                BY <2>2 DEF Proper
            <4>2. puts' = puts + 1
                BY <1>0
            <4>3. v \in 0 .. puts'
                BY <1>0, <4>2
            <4> QED
                BY <4>1, <4>3
        <3> QED
            BY <3>1
    <2> QED
        BY <2>2, <2>3 DEF Proper
<1>3. GivenInv'
    <2>1. \A i \in Stored' : \/ given'[i].values = cp.values /\ given'[i].versions = cp.versions
                             \/ i \in Stored
        BY <1>0
    <2>2. \A i \in Stored' : Proper(given[i], puts)'
        BY <1>2, <2>1 DEF Proper
    <2> QED
        BY <2>2 DEF GivenInv
<1>4. /\ Proper(BaseOf(p), puts) /\ MemHolds(mem, BaseOf(p)) /\ PgHolds(pg, BaseOf(p))
    BY BaseIs
<1>5. \A ch \in Channels : BaseOf(p).versions[ch][2] # n
    BY <1>0, <1>4 DEF Proper
<1>6. \A i \in Stored, ch \in Channels : given[i].versions[ch][2] # n
    <2>1. \A i \in Stored, ch \in Channels : given[i].versions[ch][2] \in 0 .. puts
        BY DEF ThreadInv, GivenInv, Proper
    <2> QED
        BY <1>0, <2>1
<1>7. MemInv'
    <2>1. /\ mem'.storage = Over(mem.storage, At(n, [versions |-> cp.versions, parent |-> q]))
          /\ mem'.blobs = Over(mem.blobs, Blobs(cp, new))
          /\ mem' = [storage |-> mem'.storage, blobs |-> mem'.blobs, writes |-> mem'.writes,
                     order |-> mem'.order]
        BY DEF ThreadInv, MemInv, MemPut
    <2>2. \A b \in DOMAIN mem.blobs : b[2][2] \in 1 .. puts /\ b[2][2] # n
        BY <1>0 DEF ThreadInv, MemInv, Old
    <2>3. /\ \A ch, ver : ver[2] # n => BlobAt(mem', ch, ver) = BlobAt(mem, ch, ver)
          /\ \A ch \in new : BlobAt(mem', ch, cp.versions[ch]) = cp.values[ch]
          /\ \A b \in DOMAIN mem'.blobs : b \in DOMAIN mem.blobs \/ b[2][2] = n
        <3>1. Added(mem, mem', n, cp, new)
            BY <2>1, <2>2, BlobsAdded, Zenon
        <3> QED
            BY <3>1 DEF Added
    <2>4. Old(mem.blobs)'
        <3>1. \A b \in DOMAIN mem'.blobs : b[2][2] \in 1 .. puts \/ b[2][2] = n
            BY <2>2, <2>3
        <3> QED
            BY <1>0, <3>1 DEF Old
    <2>5. DOMAIN mem'.storage = Stored'
        BY <1>0, <2>1 DEF Over, At, ThreadInv, MemInv
    <2>6. \A i \in Stored : MemHolds(mem', given'[i])
        BY <1>6, <2>3 DEF MemHolds, ThreadInv, MemInv
    <2>7. MemHolds(mem', given'[n])
        <3>1. SUFFICES ASSUME NEW ch \in Channels
                       PROVE  \/ BlobAt(mem', ch, cp.versions[ch]) = cp.values[ch]
                              \/ ch = "delta" /\ cp.values[ch] = Absent
            BY DEF MemHolds
        <3>2. CASE ch \in new
            BY <2>3, <3>2
        <3>3. CASE ch \notin new
            BY <1>4, <1>5, <2>3, <3>3 DEF MemHolds
        <3> QED
            BY <3>2, <3>3
    <2>8. \A i \in Stored : mem'.storage[i] = mem.storage[i]
        BY <1>0, <2>1 DEF Over, At, ThreadInv, MemInv
    <2>9. mem'.storage[n] = [versions |-> cp.versions, parent |-> q]
        BY <2>1 DEF Over, At
    <2> QED
        BY <1>0, <2>1, <2>4, <2>5, <2>6, <2>7, <2>8, <2>9 DEF MemInv, ThreadInv
<1>8. SqlInv'
    <2>1. /\ sql'.checkpoints = Over(sql.checkpoints, At(n, [values |-> cp.values, parent |-> q]))
          /\ sql' = [checkpoints |-> sql'.checkpoints, writes |-> sql'.writes]
        BY DEF ThreadInv, SqlInv, SqlPut
    <2>2. DOMAIN sql'.checkpoints = Stored'
        BY <1>0, <2>1 DEF Over, At, ThreadInv, SqlInv
    <2>3. \A i \in Stored : sql'.checkpoints[i] = sql.checkpoints[i]
        BY <1>0, <2>1 DEF Over, At, ThreadInv, SqlInv
    <2>4. sql'.checkpoints[n] = [values |-> cp.values, parent |-> q]
        BY <2>1 DEF Over, At
    <2> QED
        BY <1>0, <2>1, <2>2, <2>3, <2>4 DEF SqlInv, ThreadInv
<1>9. PgInv'
    <2> DEFINE moved == PgMoved(cp, new)
               row == [inline |-> PgInline(cp), versions |-> cp.versions, parent |-> q]
    <2>1. /\ pg'.checkpoints = Over(pg.checkpoints, At(n, row))
          /\ pg'.blobs = Over(Blobs(cp, moved), pg.blobs)
          /\ pg' = [checkpoints |-> pg'.checkpoints, blobs |-> pg'.blobs, writes |-> pg'.writes]
        BY DEF ThreadInv, PgInv, PgPut
    <2>2. \A b \in DOMAIN pg.blobs : b[2][2] \in 1 .. puts /\ b[2][2] # n
        BY <1>0 DEF ThreadInv, PgInv, Old
    <2>3. moved = {ch \in new : cp.values[ch].kind \in Moved}
        BY DEF PgMoved, Moved
    <2> HIDE DEF moved
    <2>4. /\ \A ch, ver : ver[2] # n => BlobAt(pg', ch, ver) = BlobAt(pg, ch, ver)
          /\ \A ch \in moved : BlobAt(pg', ch, cp.versions[ch]) = cp.values[ch]
          /\ \A ch, ver : ch \notin moved /\ ver[2] = n => BlobAt(pg', ch, ver) = Absent
          /\ \A b \in DOMAIN pg'.blobs : b \in DOMAIN pg.blobs \/ b[2][2] = n
        <3>1. \A ch \in moved : cp.versions[ch][2] = n
            BY <2>3
        <3>2. Added(pg, pg', n, cp, moved)
            BY <2>1, <2>2, <3>1, BlobsAdded, Zenon
        <3> QED
            BY <3>2 DEF Added
    <2>5. Old(pg.blobs)'
        <3>1. \A b \in DOMAIN pg'.blobs : b[2][2] \in 1 .. puts \/ b[2][2] = n
            BY <2>2, <2>3, <2>4
        <3> QED
            BY <1>0, <3>1 DEF Old
    <2>6. DOMAIN pg'.checkpoints = Stored'
        BY <1>0, <2>1 DEF Over, At, ThreadInv, PgInv
    <2>7. \A i \in Stored : PgHolds(pg', given'[i])
        BY <1>6, <2>4 DEF PgHolds, ThreadInv, PgInv
    <2>8. PgHolds(pg', given'[n])
        <3>1. SUFFICES ASSUME NEW ch \in Channels
                       PROVE  IF cp.values[ch].kind \in Moved
                              THEN BlobAt(pg', ch, cp.versions[ch]) = cp.values[ch]
                              ELSE ch # "delta" => BlobAt(pg', ch, cp.versions[ch]) = Absent
            BY DEF PgHolds
        <3>2. CASE ch \in new
            BY <2>3, <2>4, <3>2
        <3>3. CASE ch \notin new
            <4>1. Absent.kind \notin Moved
                BY DEF Absent, Value, Moved
            <4> QED
                BY <1>4, <1>5, <2>4, <3>3, <4>1 DEF PgHolds
        <3> QED
            BY <3>2, <3>3
    <2>9. \A i \in Stored : pg'.checkpoints[i] = pg.checkpoints[i]
        BY <1>0, <2>1 DEF Over, At, ThreadInv, PgInv
    <2>10. pg'.checkpoints[n] = row
        BY <2>1 DEF Over, At
    <2>11. PgInline(given'[n]) = PgInline(cp)
        BY Zenon DEF PgInline
    <2> QED
        BY <1>0, <2>1, <2>5, <2>6, <2>7, <2>8, <2>9, <2>10, <2>11 DEF PgInv, ThreadInv
<1> QED
    BY <1>1, <1>3, <1>7, <1>8, <1>9

\* What Put makes of its arguments.
NewOf(to, gone, applied, snap) ==
    to \cup gone \cup (IF DeltaChanged(snap /\ migrated, applied # <<>>) THEN {"delta"} ELSE {})

ValueOf(n, p, to, gone, live, snap, ch) ==
    CASE ch = "delta" /\ migrated -> IF snap THEN Value("snapshot", live) ELSE Absent
      [] ch = "delta" /\ ~migrated -> IF live # <<>> THEN Value("plain", live) ELSE Absent
      [] ch \in gone -> Absent
      [] ch \in to -> Value(IF ch = "obj" THEN "object" ELSE "primitive", <<n>>)
      [] OTHER -> BaseOf(p).values[ch]

CpOf(n, p, to, gone, live, applied, snap) ==
    [values |-> [ch \in Channels |-> ValueOf(n, p, to, gone, live, snap, ch)],
     versions |-> [ch \in Channels |->
         IF ch \in NewOf(to, gone, applied, snap) THEN NextVersion(BaseOf(p).versions[ch], n)
         ELSE BaseOf(p).versions[ch]]]

LEMMA PutSets ==
    ASSUME NEW n, NEW p, NEW to, NEW gone, NEW live, NEW applied, NEW snap, NEW info,
           Put(n, p, to, gone, live, applied, snap, info)
    PROVE  /\ puts' = n
           /\ \E cp, new :
                 /\ cp = CpOf(n, p, to, gone, live, applied, snap)
                 /\ new = NewOf(to, gone, applied, snap)
                 /\ given' = Over(given, At(n, [values |-> cp.values, versions |-> cp.versions,
                                                parent |-> p, live |-> live, info |-> info]))
                 /\ mem' = MemPut(mem, n, p, cp, new)
                 /\ sql' = SqlPut(sql, n, p, cp)
                 /\ pg' = PgPut(pg, n, p, cp, new)
                 /\ shallow' = ShallowPut(shallow, n, p, cp, new)
           /\ forks' = forks + (IF p # Latest THEN 1 ELSE 0)
<1> DEFINE cp == CpOf(n, p, to, gone, live, applied, snap)
           new == NewOf(to, gone, applied, snap)
<1>1. /\ puts' = n
      /\ given' = Over(given, At(n, [values |-> cp.values, versions |-> cp.versions,
                                     parent |-> p, live |-> live, info |-> info]))
      /\ mem' = MemPut(mem, n, p, cp, new)
      /\ sql' = SqlPut(sql, n, p, cp)
      /\ pg' = PgPut(pg, n, p, cp, new)
      /\ shallow' = ShallowPut(shallow, n, p, cp, new)
      /\ forks' = forks + (IF p # Latest THEN 1 ELSE 0)
    BY Zenon DEF Put, CpOf, NewOf, ValueOf, BaseOf
<1> HIDE DEF cp, new
<1> QED
    BY <1>1, Zenon DEF cp, new

\* to and gone are of the plain channels.
PlainSets(to, gone) == to \subseteq {"obj", "prim"} /\ gone \subseteq {"prim"} /\ to \cap gone = {}

\* The value of the DeltaChannel before and after its migration, and those of
\* the plain channels.
ValuesAre(n, p, to, gone, live, snap) ==
    /\ migrated /\ snap => ValueOf(n, p, to, gone, live, snap, "delta") = Value("snapshot", live)
    /\ migrated /\ ~snap => ValueOf(n, p, to, gone, live, snap, "delta") = Absent
    /\ ~migrated /\ live # <<>> => ValueOf(n, p, to, gone, live, snap, "delta") = Value("plain", live)
    /\ ~migrated /\ live = <<>> => ValueOf(n, p, to, gone, live, snap, "delta") = Absent
    /\ \A ch \in gone : ValueOf(n, p, to, gone, live, snap, ch) = Absent
    /\ \A ch \in to : ValueOf(n, p, to, gone, live, snap, ch)
                         = Value(IF ch = "obj" THEN "object" ELSE "primitive", <<n>>)
    /\ \A ch \in {"obj", "prim"} \ (to \cup gone) :
          ValueOf(n, p, to, gone, live, snap, ch) = BaseOf(p).values[ch]

LEMMA ValueIs ==
    ASSUME NEW n, NEW p, NEW to, NEW gone, NEW live, NEW snap, ThreadInv,
           PlainSets(to, gone)
    PROVE  ValuesAre(n, p, to, gone, live, snap)
<1> DEFINE V(ch) == ValueOf(n, p, to, gone, live, snap, ch)
<1>1. /\ "delta" \notin to /\ "delta" \notin gone
      /\ \A ch \in to \cup gone \cup {"obj", "prim"} : ch # "delta"
    BY DEF PlainSets
<1>2. ASSUME migrated
      PROVE  V("delta") = IF snap THEN Value("snapshot", live) ELSE Absent
    BY <1>1, <1>2, Zenon DEF ValueOf
<1>3. ASSUME ~migrated
      PROVE  V("delta") = IF live # <<>> THEN Value("plain", live) ELSE Absent
    BY <1>1, <1>3, Zenon DEF ValueOf
<1>4. ASSUME NEW ch \in gone PROVE V(ch) = Absent
    <2>1. ch # "delta" /\ ch \notin to
        BY <1>1 DEF PlainSets
    <2> QED
        BY <2>1, Zenon DEF ValueOf
<1>5. ASSUME NEW ch \in to
      PROVE  V(ch) = Value(IF ch = "obj" THEN "object" ELSE "primitive", <<n>>)
    <2>1. ch # "delta" /\ ch \notin gone
        BY <1>1 DEF PlainSets
    <2> QED
        BY <2>1, Zenon DEF ValueOf
<1>6. ASSUME NEW ch \in {"obj", "prim"} \ (to \cup gone) PROVE V(ch) = BaseOf(p).values[ch]
    <2>1. ch # "delta" /\ ch \notin gone /\ ch \notin to
        BY <1>1
    <2> QED
        BY <2>1, Zenon DEF ValueOf
<1> QED
    <2>1. migrated \in BOOLEAN
        BY DEF ThreadInv
    <2> QED
        BY <1>2, <1>3, <1>4, <1>5, <1>6, <2>1, Zenon DEF V, ValuesAre

\* The value of a channel that was not written is the one it had.
PutCall(p, live, applied) ==
    /\ p \in Bases /\ migrated' = migrated /\ mixed' = mixed
    /\ ~migrated =>
          /\ IsList(live)
          /\ applied = <<>> => live = BaseOf(p).values["delta"].is

\* Put keeps every part of the invariant that is not about the run.
LEMMA PutPreserves ==
    ASSUME ThreadInv, NEW n, n = puts + 1,
           NEW p, NEW to, NEW gone, NEW live, NEW applied, NEW snap, NEW info,
           Put(n, p, to, gone, live, applied, snap, info),
           PlainSets(to, gone), PutCall(p, live, applied)
    PROVE  /\ Ids' /\ GivenInv' /\ MemInv' /\ SqlInv' /\ PgInv' /\ WritesInv' /\ ShallowInv'
           /\ puts' = n /\ Stored' = Stored \cup {n}
           /\ ~migrated => given'[n].values["delta"].is = live
<1> DEFINE old == BaseOf(p)
           V(ch) == ValueOf(n, p, to, gone, live, snap, ch)
<1>1. PICK cp, new :
         /\ cp = CpOf(n, p, to, gone, live, applied, snap)
         /\ new = NewOf(to, gone, applied, snap)
         /\ given' = Over(given, At(n, [values |-> cp.values, versions |-> cp.versions,
                                        parent |-> p, live |-> live, info |-> info]))
         /\ mem' = MemPut(mem, n, p, cp, new)
         /\ sql' = SqlPut(sql, n, p, cp)
         /\ pg' = PgPut(pg, n, p, cp, new)
         /\ shallow' = ShallowPut(shallow, n, p, cp, new)
    BY PutSets
<1>2. puts' = n /\ forks' = forks + (IF p # Latest THEN 1 ELSE 0)
    BY PutSets
<1>3. /\ puts \in Nat /\ forks \in Nat /\ forks' \in Nat /\ Stored \subseteq 1 .. puts /\ n \notin Stored
      /\ n \in Nat /\ migrated \in BOOLEAN /\ p \in Stored \cup {NoId} /\ p \in 0 .. puts
    <2>1. puts \in Nat /\ forks \in Nat /\ Stored \subseteq 1 .. puts /\ migrated \in BOOLEAN
        BY DEF ThreadInv, Ids
    <2>2. p \in Stored \cup {NoId}
        BY DEF PutCall, Bases
    <2>3. n \notin Stored /\ p \in 0 .. puts
        BY <2>1, <2>2 DEF NoId
    <2>4. forks' \in Nat
        BY <1>2, <2>1
    <2> QED
        BY <2>1, <2>2, <2>3, <2>4
<1>4. Proper(old, puts)
    BY <1>3, BaseIs
<1>5. /\ Channels = {"obj", "prim", "delta"} /\ "obj" # "delta" /\ "prim" # "delta"
      /\ new \subseteq Channels
      /\ "delta" \in new <=> (snap /\ migrated) \/ applied # <<>>
      /\ \A ch \in {"obj", "prim"} : ch \in new <=> ch \in to \cup gone
    <2>1. Channels = {"obj", "prim", "delta"} /\ "obj" # "delta" /\ "prim" # "delta"
        BY DEF Channels
    <2>2. "delta" \notin to \cup gone /\ to \cup gone \subseteq Channels
        BY <2>1 DEF PlainSets
    <2> QED
        BY <1>1, <2>1, <2>2 DEF NewOf, DeltaChanged
<1>6. /\ cp.values = [ch \in Channels |-> V(ch)]
      /\ cp.versions = [ch \in Channels |-> IF ch \in new THEN NextVersion(old.versions[ch], n)
                                            ELSE old.versions[ch]]
    BY <1>1, Zenon DEF CpOf
<1>7. /\ \A ch \in new : cp.versions[ch][2] = n
      /\ \A ch \in Channels \ new : cp.versions[ch] = old.versions[ch]
    BY <1>5, <1>6 DEF NextVersion
<1>8. /\ migrated /\ snap => V("delta") = Value("snapshot", live)
      /\ migrated /\ ~snap => V("delta") = Absent
      /\ ~migrated /\ live # <<>> => V("delta") = Value("plain", live)
      /\ ~migrated /\ live = <<>> => V("delta") = Absent
      /\ \A ch \in gone : V(ch) = Absent
      /\ \A ch \in to : V(ch) = Value(IF ch = "obj" THEN "object" ELSE "primitive", <<n>>)
      /\ \A ch \in {"obj", "prim"} \ (to \cup gone) : V(ch) = old.values[ch]
    <2>1. ValuesAre(n, p, to, gone, live, snap)
        BY ValueIs, Zenon
    <2> QED
        BY <2>1, Zenon DEF V, ValuesAre
<1> HIDE DEF V
<1>9. /\ cp.values["delta"] = V("delta") /\ cp.values["obj"] = V("obj") /\ cp.values["prim"] = V("prim")
      /\ cp.values = [ch \in Channels |-> cp.values[ch]]
      /\ cp.versions = [ch \in Channels |-> cp.versions[ch]]
    BY <1>5, <1>6
<1>10. IsOf(cp.values["obj"], {"object"}) /\ IsOf(cp.values["prim"], {"primitive"})
    <2>1. IsOf(V("obj"), {"object"})
        <3>1. CASE "obj" \in to
            BY <1>8, <3>1 DEF IsOf, Value
        <3>2. CASE "obj" \notin to
            <4>1. V("obj") = old.values["obj"]
                BY <1>8, <3>2 DEF PlainSets
            <4> QED
                BY <1>4, <4>1 DEF Proper
        <3> QED
            BY <3>1, <3>2
    <2>2. IsOf(V("prim"), {"primitive"})
        <3>1. CASE "prim" \in to
            BY <1>8, <3>1 DEF IsOf, Value
        <3>2. CASE "prim" \in gone
            BY <1>8, <3>2 DEF IsOf
        <3>3. CASE "prim" \notin to \cup gone
            <4>1. V("prim") = old.values["prim"]
                BY <1>8, <3>3
            <4> QED
                BY <1>4, <4>1 DEF Proper
        <3> QED
            BY <3>1, <3>2, <3>3
    <2> QED
        BY <1>9, <2>1, <2>2
<1>11. IsOf(cp.values["delta"], {"plain", "snapshot"})
    BY <1>3, <1>8, <1>9 DEF IsOf, Value
<1>12. ASSUME ~migrated
       PROVE  /\ cp.values["delta"].is = live /\ IsList(cp.values["delta"].is)
              /\ IF cp.values["delta"].is = <<>> THEN cp.values["delta"] = Absent
                 ELSE cp.values["delta"].kind = "plain"
    BY <1>8, <1>9, <1>12 DEF Value, Absent, PutCall
<1>13. Proper(cp, puts)'
    <2>1. \A ch \in Channels : cp.versions[ch][2] \in 0 .. puts'
        BY <1>2, <1>3, <1>4, <1>7 DEF Proper
    <2> QED
        BY <1>9, <1>10, <1>11, <1>12, <2>1 DEF Proper, PutCall
<1>14. \A ch \in Channels \ new :
          cp.values[ch] = old.values[ch] \/ (ch = "delta" /\ cp.values[ch] = Absent)
    <2>1. \A ch \in {"obj", "prim"} \ new : V(ch) = old.values[ch]
        BY <1>5, <1>8
    <2>2. ASSUME "delta" \notin new PROVE V("delta") = old.values["delta"] \/ V("delta") = Absent
        <3>1. applied = <<>> /\ ~(snap /\ migrated)
            BY <1>5, <2>2
        <3>2. CASE migrated
            BY <1>8, <3>1, <3>2
        <3>3. CASE ~migrated
            <4>1. live = old.values["delta"].is
                BY <3>1, <3>3 DEF PutCall
            <4>2. live # <<>> => old.values["delta"] = Value("plain", live)
                <5>1. /\ IsOf(old.values["delta"], {"plain", "snapshot"})
                      /\ live # <<>> => old.values["delta"].kind = "plain"
                    BY <1>4, <3>3, <4>1, Zenon DEF Proper
                <5> QED
                    BY <4>1, <5>1 DEF IsOf, Value, Absent
            <4> QED
                BY <1>8, <3>3, <4>2
        <3> QED
            BY <1>3, <3>2, <3>3
    <2> QED
        BY <1>5, <1>9, <2>1, <2>2
<1>15. /\ DOMAIN given' = Stored \cup {n}
       /\ \A i \in Stored : given'[i] = given[i]
       /\ given'[n] = [values |-> cp.values, versions |-> cp.versions,
                       parent |-> p, live |-> live, info |-> info]
    <2>1. n \in {n} /\ Stored = DOMAIN given
        BY DEF Stored
    <2> QED
        BY <1>1, <1>3, <2>1 DEF Over, At
<1>16. Ids' /\ GivenInv' /\ MemInv' /\ SqlInv' /\ PgInv'
    <2>1. PutStep(n, p, p, cp, new)
        <3>1. /\ given'[n].values = cp.values /\ given'[n].versions = cp.versions /\ given'[n].parent = p
              /\ migrated' = migrated
            BY <1>15 DEF PutCall
        <3> QED
            BY <1>1, <1>2, <1>3, <1>5, <1>7, <1>13, <1>14, <1>15, <3>1 DEF PutStep
    <2> QED
        BY <2>1, PutKept
<1>17. /\ mem'.writes = mem.writes /\ sql'.writes = sql.writes /\ pg'.writes = pg.writes
       /\ shallow' = [id |-> n, versions |-> cp.versions,
                      writes |-> [k \in {j \in DOMAIN shallow.writes : j[1] \in {n, p}} |-> shallow.writes[k]],
                      blobs |-> Over(shallow.blobs, [ch \in new |-> cp.values[ch]])]
    BY <1>1 DEF MemPut, SqlPut, PgPut, ShallowPut, ShallowBlobs, ThreadInv, MemInv, SqlInv, PgInv
<1>18. WritesInv'
    <2>1. WritesInv
        BY DEF ThreadInv
    <2>2. DOMAIN shallow'.writes \subseteq DOMAIN shallow.writes
        BY <1>17
    <2>3. \A k : Counted(k)' <=> Counted(k)
        BY DEF Counted, PutCall
    <2>4. \A k \in DOMAIN sql'.writes \cup DOMAIN shallow'.writes : k[1] \in 0 .. puts'
        BY <1>2, <1>3, <1>17, <2>1, <2>2 DEF WritesInv
    <2> QED
        BY <1>17, <2>1, <2>3, <2>4 DEF WritesInv
<1>19. ShallowInv'
    <2>1. SUFFICES ASSUME forks' = 0
                   PROVE  /\ \A ch \in {"obj", "prim"} :
                                (IF ch \in DOMAIN shallow'.blobs THEN shallow'.blobs[ch] ELSE Absent)
                                    = BaseOf(Head0)'.values[ch]
                          /\ shallow'.id = puts' /\ Rows(shallow, puts)' = Rows(sql, puts)'
        BY <1>17 DEF ShallowInv
    <2>2. forks = 0 /\ p = Latest
        BY <1>2, <1>3, <2>1
    <2>3. p = Head0
        BY <2>2, LatestIs DEF ThreadInv
    <2>4. /\ Stored' = Stored \cup {n} /\ Head0' = n /\ n # NoId
        BY <1>2, <1>3, <1>15 DEF Head0, Stored, NoId
    <2>5. BaseOf(Head0)'.values = cp.values
        BY <1>15, <2>4 DEF BaseOf
    <2>6. \A ch \in {"obj", "prim"} :
             (IF ch \in DOMAIN shallow.blobs THEN shallow.blobs[ch] ELSE Absent) = old.values[ch]
        BY <2>2, <2>3 DEF ThreadInv, ShallowInv
    <2>7. ASSUME NEW ch \in {"obj", "prim"}
          PROVE  (IF ch \in DOMAIN shallow'.blobs THEN shallow'.blobs[ch] ELSE Absent) = cp.values[ch]
        <3>1. shallow'.blobs = Over(shallow.blobs, [c \in new |-> cp.values[c]])
            BY <1>17
        <3>2. CASE ch \in new
            BY <3>1, <3>2 DEF Over
        <3>3. CASE ch \notin new
            <4>1. cp.values[ch] = old.values[ch]
                BY <1>5, <1>14, <3>3
            <4>2. /\ ch \in DOMAIN shallow'.blobs <=> ch \in DOMAIN shallow.blobs
                  /\ ch \in DOMAIN shallow.blobs => shallow'.blobs[ch] = shallow.blobs[ch]
                BY <3>1, <3>3 DEF Over
            <4> QED
                BY <2>6, <4>1, <4>2
        <3> QED
            BY <3>2, <3>3
    <2>8. \A k \in DOMAIN sql'.writes \cup DOMAIN shallow'.writes : k[1] # n
        <3>1. DOMAIN shallow'.writes \subseteq DOMAIN shallow.writes
            BY <1>17
        <3> QED
            BY <1>3, <1>17, <3>1 DEF ThreadInv, WritesInv
    <2>9. Rows(shallow, puts)' = Rows(sql, puts)'
        <3>1. /\ {j \in DOMAIN sql'.writes : j[1] = puts'} = {}
              /\ {j \in DOMAIN shallow'.writes : j[1] = puts'} = {}
            BY <1>2, <2>8
        <3> QED
            BY <3>1 DEF Rows
    <2> QED
        BY <1>2, <1>17, <2>5, <2>7, <2>9
<1> QED
    BY <1>2, <1>9, <1>12, <1>15, <1>16, <1>18, <1>19 DEF Stored, PutCall

-----------------------------------------------------------------------------
(* The steps.                                                              *)

\* Everything but the run.
SavedInv ==
    Ids /\ GivenInv /\ MemInv /\ SqlInv /\ PgInv /\ WritesInv /\ ShallowInv

\* Before the migration a value is in every checkpoint.
LEMMA LoadIs ==
    ASSUME ThreadInv, ~migrated, NEW p \in Bases
    PROVE  IsList(Load(p)) /\ Load(p) = BaseOf(p).values["delta"].is
<1>0. p \in Stored \cup {NoId} /\ "delta" \in Channels
    BY DEF Bases, Channels
<1>1. Proper(BaseOf(p), puts)
    BY <1>0, BaseIs
<1>2. Load(p) = BaseOf(p).values["delta"].is
    <2>1. CASE p = NoId
        BY <1>0, <2>1 DEF Load, BaseOf, Absent, Value
    <2>2. CASE p # NoId
        <3>1. Load(p) = Tuple("sql", p).values["delta"].is
            BY <2>2 DEF Load, LoadFrom
        <3>2. Tuple("sql", p) = SqlTuple(sql, p)
            BY SaverTuple
        <3>3. SqlTuple(sql, p).values = given[p].values
            BY <1>0, <2>2 DEF SqlTuple, ThreadInv, SqlInv
        <3> QED
            BY <2>2, <3>1, <3>2, <3>3 DEF BaseOf
    <2> QED
        BY <2>1, <2>2
<1> QED
    BY <1>1, <1>2 DEF Proper

LEMMA RowsOver ==
    ASSUME NEW f, NEW g, NEW h, NEW i,
           Rows([writes |-> f], i) = Rows([writes |-> g], i)
    PROVE  /\ Rows([writes |-> Over(f, h)], i) = Rows([writes |-> Over(g, h)], i)
           /\ Rows([writes |-> Over(h, f)], i) = Rows([writes |-> Over(h, g)], i)
<1> DEFINE R(x) == [k \in {j \in DOMAIN x : j[1] = i} |-> x[k]]
<1>1. \A x : Rows([writes |-> x], i) = R(x)
    BY DEF Rows
<1>2. R(f) = R(g)
    BY <1>1
<1>3. \A k : k[1] = i => /\ k \in DOMAIN f <=> k \in DOMAIN g
                         /\ k \in DOMAIN f => f[k] = g[k]
    <2> SUFFICES ASSUME NEW k, k[1] = i
                 PROVE  /\ k \in DOMAIN f <=> k \in DOMAIN g
                        /\ k \in DOMAIN f => f[k] = g[k]
        OBVIOUS
    <2>1. DOMAIN R(f) = DOMAIN R(g) /\ \A j \in DOMAIN R(f) : R(f)[j] = R(g)[j]
        BY <1>2
    <2> QED
        BY <2>1
<1>4. R(Over(f, h)) = R(Over(g, h))
    BY <1>3 DEF Over
<1>5. R(Over(h, f)) = R(Over(h, g))
    BY <1>3 DEF Over
<1> QED
    BY <1>1, <1>4, <1>5

LEMMA ShortLists == IsList(<<>>) /\ \A x : IsList(<<x>>)
<1>1. IsList(<<>>)
    <2>1. <<>> \in Seq({0})
        OBVIOUS
    <2> QED
        BY <2>1, ListOf
<1> QED
    BY <1>1, AppendIs

\* What put_writes is called with, and what a step that calls it leaves alone.
SaveCall(c, t, list) ==
    /\ c \in Bases /\ t \in Nat /\ IsList(list) /\ SaveWrites(c, t, list)
    /\ UNCHANGED <<given, puts, migrated, forks>> /\ mixed \subseteq mixed'
    /\ \/ \A i \in DOMAIN list : SlotOf(list, i) # Special
       \/ \A i \in DOMAIN list : SlotOf(list, i) = Special
       \/ <<c, t>> \in mixed'

LEMMA SaveKeeps ==
    ASSUME ThreadInv, NEW c, NEW t, NEW list, SaveCall(c, t, list)
    PROVE  SavedInv'
<1> DEFINE new == NewRows(c, t, list)
<1>1. c \in 0 .. puts
    BY DEF SaveCall, Bases, ThreadInv, Ids, NoId
<1>2. WritesInv'
    BY <1>1, SavedWrites DEF SaveCall
<1>3. /\ mem' = MemSave(mem, c, t, list)
      /\ sql' = [sql EXCEPT !.writes = SqlWrites(@, new)]
      /\ pg' = [pg EXCEPT !.writes = SqlWrites(@, new)]
      /\ shallow' = [shallow EXCEPT !.writes = SqlWrites(@, new)]
      /\ given' = given /\ puts' = puts /\ migrated' = migrated /\ forks' = forks
    BY DEF SaveCall, SaveWrites
<1> HIDE DEF new
<1>4. /\ mem'.storage = mem.storage /\ mem'.blobs = mem.blobs
      /\ mem' = [storage |-> mem'.storage, blobs |-> mem'.blobs, writes |-> mem'.writes,
                 order |-> mem'.order]
    BY <1>3 DEF MemSave, ThreadInv, MemInv
<1>5. /\ pg'.checkpoints = pg.checkpoints /\ pg'.blobs = pg.blobs
      /\ pg' = [checkpoints |-> pg'.checkpoints, blobs |-> pg'.blobs, writes |-> pg'.writes]
    BY <1>3 DEF ThreadInv, PgInv
<1>6. /\ sql'.checkpoints = sql.checkpoints
      /\ sql' = [checkpoints |-> sql'.checkpoints, writes |-> sql'.writes]
      /\ sql'.writes = SqlWrites(sql.writes, new)
    BY <1>3 DEF ThreadInv, SqlInv
<1>7. /\ shallow'.id = shallow.id /\ shallow'.blobs = shallow.blobs
      /\ shallow' = [id |-> shallow'.id, versions |-> shallow'.versions, blobs |-> shallow'.blobs,
                     writes |-> shallow'.writes]
      /\ shallow'.writes = SqlWrites(shallow.writes, new)
    BY <1>3 DEF ThreadInv, ShallowInv
<1>8. Stored' = Stored
    BY <1>3 DEF Stored
<1>9. Ids'
    BY <1>3, <1>8 DEF ThreadInv, Ids
<1>10. GivenInv'
    BY <1>3, <1>8 DEF ThreadInv, GivenInv, Proper
<1>11. MemInv'
    BY <1>3, <1>4, <1>8 DEF ThreadInv, MemInv, MemHolds, BlobAt, Old
<1>12. SqlInv'
    BY <1>3, <1>6, <1>8 DEF ThreadInv, SqlInv
<1>13. PgInv'
    BY <1>3, <1>5, <1>8 DEF ThreadInv, PgInv, PgHolds, BlobAt, Old
<1>14. ShallowInv'
    <2>1. Head0' = Head0 /\ \A p : BaseOf(p)' = BaseOf(p)
        BY <1>3, <1>8 DEF Head0, BaseOf
    <2>2. ASSUME Rows(shallow, puts) = Rows(sql, puts) PROVE Rows(shallow, puts)' = Rows(sql, puts)'
        <3> DEFINE R(x) == Rows([writes |-> x], puts)
        <3>1. R(shallow.writes) = R(sql.writes)
            BY <2>2 DEF Rows
        <3>2. /\ R(Over(shallow.writes, new)) = R(Over(sql.writes, new))
              /\ R(Over(new, shallow.writes)) = R(Over(new, sql.writes))
            BY <3>1, RowsOver
        <3> HIDE DEF R
        <3>3. R(shallow'.writes) = R(sql'.writes)
            BY <1>6, <1>7, <3>2 DEF SqlWrites
        <3> QED
            BY <1>3, <3>3 DEF R, Rows
    <2>3. ShallowInv
        BY DEF ThreadInv
    <2> QED
        BY <1>3, <1>7, <1>8, <2>1, <2>2, <2>3 DEF ShallowInv
<1> QED
    BY <1>2, <1>9, <1>10, <1>11, <1>12, <1>13, <1>14 DEF SavedInv

\* A step of which the run is Off or left alone while it is.
LEMMA RunOff ==
    ASSUME run' = Off
    PROVE  RunInv'
<1>1. run'.pc = "off" /\ run'.live = <<>> /\ run'.wrote = <<>> /\
      run' = [pc |-> run'.pc, at |-> run'.at, live |-> run'.live, done |-> run'.done, wrote |-> run'.wrote]
    BY DEF Off
<1>2. IsList(<<>>)
    BY ShortLists
<1> QED
    BY <1>1, <1>2 DEF RunInv

LEMMA RunIdle ==
    ASSUME RunInv, run.pc = "off", run' = run, migrated => migrated'
    PROVE  RunInv'
<1> QED
    BY DEF RunInv

\* The run that a put starts or goes on with.
LEMMA RunAfter ==
    ASSUME puts \in Nat, NEW live, NEW n, n = puts + 1, n \in Stored',
           ~migrated' => IsList(live) /\ given'[n].values["delta"].is = live,
           run' = [pc |-> "tasks", at |-> n, live |-> live, done |-> FALSE, wrote |-> <<>>]
    PROVE  RunInv'
<1>1. IsList(<<>>)
    BY ShortLists
<1>2. n \in Bases'
    BY DEF Bases
<1>3. BaseOf(n)' = given'[n]
    BY DEF BaseOf, NoId
<1> QED
    BY <1>1, <1>2, <1>3 DEF RunInv

\* The run of a step that puts nothing: at p, with the value it loads.
LEMMA RunAt ==
    ASSUME ThreadInv, NEW p \in Bases, NEW pc, NEW done, NEW wrote,
           ~migrated => IsList(wrote),
           run' = [pc |-> pc, at |-> p, live |-> Load(p), done |-> done, wrote |-> wrote],
           given' = given, migrated' = migrated
    PROVE  RunInv'
<1>1. p \in Bases'
    BY DEF Bases, Stored
<1>2. BaseOf(p)' = BaseOf(p)
    BY DEF BaseOf
<1>3. ~migrated => IsList(Load(p)) /\ Load(p) = BaseOf(p).values["delta"].is
    BY LoadIs
<1> QED
    BY <1>1, <1>2, <1>3 DEF RunInv

\* _put_checkpoint keeps every part of the invariant that is not about the run.
LEMMA PutCountedKeeps ==
    ASSUME ThreadInv, NEW p, NEW to, NEW gone, NEW live, NEW applied, NEW source, NEW next,
           PutCounted(p, to, gone, live, applied, source, next),
           PlainSets(to, gone), PutCall(p, live, applied)
    PROVE  /\ SavedInv' /\ puts \in Nat /\ puts + 1 \in Stored' /\ migrated' = migrated
           /\ ~migrated => given'[puts + 1].values["delta"].is = live
<1>1. PICK snap, info, n : n = puts + 1 /\ Put(n, p, to, gone, live, applied, snap, info)
    BY Zenon DEF PutCounted
<1>2. /\ Ids' /\ GivenInv' /\ MemInv' /\ SqlInv' /\ PgInv' /\ WritesInv' /\ ShallowInv'
      /\ Stored' = Stored \cup {n}
      /\ ~migrated => given'[n].values["delta"].is = live
    BY <1>1, PutPreserves
<1> QED
    BY <1>1, <1>2 DEF SavedInv, ThreadInv, Ids, PutCall

\* The writes of a regular list have the slots 0, 1, ...
LEMMA RegularSlots ==
    ASSUME NEW list, IsList(list), \A i \in DOMAIN list : list[i].ch # "special"
    PROVE  \A i \in DOMAIN list : SlotOf(list, i) # Special
<1>1. \A i \in DOMAIN list : i \in Nat /\ i >= 1
    <2>1. list \in Seq({list[i] : i \in DOMAIN list})
        BY DEF IsList
    <2> QED
        BY <2>1
<1> QED
    BY <1>1 DEF SlotOf, Special

\* What the steps that save writes call put_writes with.
LEMMA InputSaves ==
    ASSUME ThreadInv, NEW p \in Bases, NEW direct, InputRun(p, direct), direct /\ migrated
    PROVE  \E list : SaveCall(p, NullTask, list)
<1> DEFINE nulls == Saved(p, NullTask)
           mine == IF direct THEN <<NextValue>> ELSE <<>>
           all == nulls \o mine
           list == [i \in 1 .. Len(all) |-> Delta(all[i])]
<1>1. IsList(nulls) /\ IsList(mine)
    BY SavedIsSeq, ShortLists DEF ThreadInv
<1>2. SaveWrites(p, NullTask, list) /\ UNCHANGED <<given, puts, migrated, forks, mixed>>
    BY Zenon DEF InputRun
<1> HIDE DEF nulls, mine
<1>3. IsList(all) /\ Len(all) \in Nat
    <2>1. IsList(all)
        BY <1>1, ConcatIs
    <2> QED
        BY <2>1, ConcatIs
<1> HIDE DEF all
<1>4. IsList(list)
    <2>1. PICK len \in Nat : len = Len(all)
        BY <1>3
    <2>2. list = [i \in 1 .. len |-> list[i]]
        BY <2>1
    <2> HIDE DEF list
    <2> QED
        BY <2>1, <2>2, SeqMap
<1>5. \A i \in DOMAIN list : SlotOf(list, i) # Special
    <2>1. \A i \in DOMAIN list : i \in Nat /\ i >= 1 /\ list[i].ch = "delta"
        BY <1>3 DEF Delta
    <2> HIDE DEF list
    <2> QED
        BY <2>1 DEF SlotOf, Special
<1> HIDE DEF list
<1>6. SaveCall(p, NullTask, list)
    BY <1>2, <1>4, <1>5 DEF SaveCall, NullTask
<1> QED
    BY <1>6

LEMMA TaskSaves ==
    ASSUME ThreadInv, NEW toDelta \in BOOLEAN, TaskDone(toDelta)
    PROVE  \E list : SaveCall(run.at, NodeTask, list)
<1> DEFINE asked == <<run.at, NodeTask, Special>> \in DOMAIN sql.writes
           first == [ch |-> "special", v |-> NextValue]
           obj == [ch |-> "obj", v |-> NextValue]
           last == Delta(NextValue)
           list == (IF asked THEN <<first>> ELSE <<>>) \o <<obj>> \o (IF toDelta THEN <<last>> ELSE <<>>)
<1>1. /\ run.pc = "tasks" /\ SaveWrites(run.at, NodeTask, list)
      /\ mixed' = IF asked THEN mixed \cup {<<run.at, NodeTask>>} ELSE mixed
      /\ UNCHANGED <<given, puts, migrated, forks>>
    BY DEF TaskDone
<1>2. IsList(list)
    BY ShortLists, ConcatIs
<1>3. ASSUME ~asked PROVE \A i \in DOMAIN list : SlotOf(list, i) # Special
    <2>1. obj.ch # "special" /\ last.ch # "special"
        BY DEF Delta
    <2> HIDE DEF obj, last, asked
    <2> DEFINE S == {obj, last}
               tail == IF toDelta THEN <<last>> ELSE <<>>
    <2>2. <<obj>> \in Seq(S) /\ <<>> \in Seq(S) /\ tail \in Seq(S)
        <3>1. obj \in S /\ last \in S
            OBVIOUS
        <3> HIDE DEF S
        <3>2. <<obj>> \in Seq(S) /\ <<last>> \in Seq(S) /\ <<>> \in Seq(S)
            BY <3>1
        <3> QED
            BY <3>2
    <2>3. list = (<<>> \o <<obj>>) \o tail
        BY <1>3, Zenon
    <2> HIDE DEF list, S, tail
    <2>4. list \in Seq(S)
        BY <2>2, <2>3
    <2>5. \A i \in DOMAIN list : list[i] \in S
        BY <2>4
    <2>6. \A i \in DOMAIN list : list[i].ch # "special"
        BY <2>1, <2>5 DEF S
    <2> QED
        BY <1>2, <2>6, RegularSlots
<1>4. run.at \in Bases
    BY <1>1 DEF ThreadInv, RunInv
<1> HIDE DEF list, asked
<1>5. SaveCall(run.at, NodeTask, list)
    BY <1>1, <1>2, <1>3, <1>4 DEF SaveCall, NodeTask
<1> QED
    BY <1>5

LEMMA InterruptSaves ==
    ASSUME ThreadInv, TaskInterrupts PROVE \E list : SaveCall(run.at, NodeTask, list)
<1> DEFINE list == <<[ch |-> "special", v |-> NextValue]>>
<1>1. /\ run.pc = "tasks" /\ SaveWrites(run.at, NodeTask, list) /\ run' = Off
      /\ UNCHANGED <<given, puts, migrated, forks, mixed>>
    BY DEF TaskInterrupts
<1>2. IsList(list)
    BY ShortLists
<1>3. \A i \in DOMAIN list : SlotOf(list, i) = Special
    BY DEF SlotOf
<1>4. run.at \in Bases
    BY <1>1 DEF ThreadInv, RunInv
<1> HIDE DEF list
<1>5. SaveCall(run.at, NodeTask, list)
    BY <1>1, <1>2, <1>3, <1>4 DEF SaveCall, NodeTask
<1> QED
    BY <1>5

LEMMA UpdateSaves ==
    ASSUME ThreadInv, NEW p \in Stored, Update(p) PROVE \E t, list : SaveCall(p, t, list)
<1> DEFINE list == <<Delta(NextValue)>>
<1>1. PICK t \in Nat : SaveWrites(p, t, list)
    <2>1. NodeTask \in Nat /\ UpdateTask \in Nat
        BY DEF NodeTask, UpdateTask
    <2> QED
        BY <2>1, Zenon DEF Update
<1>2. UNCHANGED <<given, puts, migrated, forks, mixed>>
    BY DEF Update
<1>3. IsList(list)
    BY ShortLists
<1>4. \A i \in DOMAIN list : SlotOf(list, i) # Special
    <2>1. \A i \in DOMAIN list : list[i].ch # "special"
        BY DEF Delta
    <2> HIDE DEF list
    <2> QED
        BY <1>3, <2>1, RegularSlots
<1> HIDE DEF list
<1>5. SaveCall(p, t, list)
    BY <1>1, <1>2, <1>3, <1>4 DEF SaveCall, Bases
<1> QED
    BY <1>5

LEMMA UpdateInputSaves ==
    ASSUME ThreadInv, UpdateInputWrites PROVE \E list : SaveCall(run.at, InputTask, list)
<1> DEFINE list == <<Delta(run.wrote[1])>>
<1>1. /\ run.pc = "stored" /\ SaveWrites(run.at, InputTask, list) /\ run' = Off
      /\ UNCHANGED <<given, puts, migrated, forks, mixed>>
    BY DEF UpdateInputWrites
<1>2. IsList(list)
    BY ShortLists
<1>3. \A i \in DOMAIN list : SlotOf(list, i) # Special
    <2>1. \A i \in DOMAIN list : list[i].ch # "special"
        BY DEF Delta
    <2> HIDE DEF list
    <2> QED
        BY <1>2, <2>1, RegularSlots
<1>4. run.at \in Bases
    BY <1>1 DEF ThreadInv, RunInv
<1> HIDE DEF list
<1>5. SaveCall(run.at, InputTask, list)
    BY <1>1, <1>2, <1>3, <1>4 DEF SaveCall, InputTask
<1> QED
    BY <1>5

\* Steps that leave the savers and the number of checkpoints alone.
LEMMA SavedKept ==
    ASSUME ThreadInv, UNCHANGED <<given, puts, forks, mixed, savers>>,
           ~migrated' => ~migrated
    PROVE  SavedInv'
<1>1. UNCHANGED <<given, puts, forks, mixed, mem, sql, pg, shallow>>
    BY DEF savers
<1> QED
    BY <1>1 DEF ThreadInv, SavedInv, Ids, GivenInv, MemInv, SqlInv, PgInv, WritesInv, ShallowInv,
                Stored, Proper, MemHolds, PgHolds, BlobAt, Old, Counted, BaseOf, Head0

LEMMA InputRunStep ==
    ASSUME ThreadInv, NEW p \in Bases, NEW direct, InputRun(p, direct) PROVE ThreadInv'
<1> DEFINE nulls == Saved(p, NullTask)
           mine == IF direct THEN <<NextValue>> ELSE <<>>
           all == nulls \o mine
<1>1. IsList(nulls) /\ IsList(mine)
    BY SavedIsSeq, ShortLists DEF ThreadInv
<1>2. /\ run' = [pc |-> "input", at |-> p, live |-> Load(p), done |-> FALSE, wrote |-> all]
      /\ UNCHANGED <<given, puts, migrated, forks, mixed>>
      /\ ~(direct /\ migrated) => UNCHANGED savers
    BY Zenon DEF InputRun
<1> HIDE DEF nulls, mine
<1>3. IsList(all)
    BY <1>1, ConcatIs
<1> HIDE DEF all
<1>4. RunInv'
    BY <1>2, <1>3, RunAt
<1>5. SavedInv'
    <2>1. CASE direct /\ migrated
        BY <2>1, InputSaves, SaveKeeps
    <2>2. CASE ~(direct /\ migrated)
        BY <1>2, <2>2, SavedKept
    <2> QED
        BY <2>1, <2>2
<1> QED
    BY <1>2, <1>4, <1>5 DEF ThreadInv, SavedInv

LEMMA InputPutStep == ASSUME ThreadInv, InputPut PROVE ThreadInv'
<1> DEFINE live == run.live \o run.wrote
<1>1. /\ run.pc = "input"
      /\ PutCounted(run.at, {"prim"}, {}, live, run.wrote, "input", TRUE)
      /\ run' = [pc |-> "tasks", at |-> puts + 1, live |-> live, done |-> FALSE, wrote |-> <<>>]
      /\ migrated' = migrated /\ mixed' = mixed
    BY DEF InputPut
<1>2. /\ run.at \in Bases
      /\ ~migrated => IsList(run.live) /\ IsList(run.wrote)
                      /\ run.live = BaseOf(run.at).values["delta"].is
    BY <1>1 DEF ThreadInv, RunInv
<1>3. ~migrated => /\ IsList(live)
                   /\ run.wrote = <<>> => live = BaseOf(run.at).values["delta"].is
    BY <1>2, ConcatIs
<1> HIDE DEF live
<1>4. PutCall(run.at, live, run.wrote) /\ PlainSets({"prim"}, {})
    BY <1>1, <1>2, <1>3 DEF PutCall, PlainSets
<1>5. /\ SavedInv' /\ puts \in Nat /\ puts + 1 \in Stored' /\ migrated' = migrated
      /\ ~migrated => given'[puts + 1].values["delta"].is = live
    BY <1>1, <1>4, PutCountedKeeps
<1>6. RunInv'
    BY <1>1, <1>3, <1>5, RunAfter
<1> QED
    BY <1>5, <1>6 DEF ThreadInv, SavedInv

LEMMA SuperstepStep ==
    ASSUME ThreadInv, NEW next \in BOOLEAN, Superstep(next) PROVE ThreadInv'
<1> DEFINE live == run.live \o run.wrote
<1>1. /\ run.pc = "tasks"
      /\ PutCounted(run.at, {"obj"}, {"prim"}, live, run.wrote, "loop", next)
      /\ run' = IF next THEN [pc |-> "tasks", at |-> puts + 1, live |-> live, done |-> FALSE,
                              wrote |-> <<>>]
                ELSE Off
      /\ migrated' = migrated /\ mixed' = mixed
    BY DEF Superstep
<1>2. /\ run.at \in Bases
      /\ ~migrated => IsList(run.live) /\ IsList(run.wrote)
                      /\ run.live = BaseOf(run.at).values["delta"].is
    BY <1>1 DEF ThreadInv, RunInv
<1>3. ~migrated => /\ IsList(live)
                   /\ run.wrote = <<>> => live = BaseOf(run.at).values["delta"].is
    BY <1>2, ConcatIs
<1> HIDE DEF live
<1>4. PutCall(run.at, live, run.wrote) /\ PlainSets({"obj"}, {"prim"})
    BY <1>1, <1>2, <1>3 DEF PutCall, PlainSets
<1>5. /\ SavedInv' /\ puts \in Nat /\ puts + 1 \in Stored' /\ migrated' = migrated
      /\ ~migrated => given'[puts + 1].values["delta"].is = live
    BY <1>1, <1>4, PutCountedKeeps
<1>6. RunInv'
    <2>1. CASE next
        BY <1>1, <1>3, <1>5, <2>1, RunAfter
    <2>2. CASE ~next
        BY <1>1, <2>2, RunOff
    <2> QED
        BY <2>1, <2>2
<1> QED
    BY <1>5, <1>6 DEF ThreadInv, SavedInv

LEMMA ForkRunStep ==
    ASSUME ThreadInv, NEW p \in Stored, ForkRun(p) PROVE ThreadInv'
<1> DEFINE nulls == Saved(p, NullTask)
           live == Load(p) \o nulls
<1>1. /\ PutCounted(p, {}, {}, live, nulls, "fork", TRUE)
      /\ run' = [pc |-> "tasks", at |-> puts + 1, live |-> live, done |-> FALSE, wrote |-> <<>>]
      /\ migrated' = migrated /\ mixed' = mixed
    BY DEF ForkRun
<1>2. p \in Bases /\ IsList(nulls)
    BY SavedIsSeq DEF ThreadInv, Bases
<1> HIDE DEF nulls
<1>3. ~migrated => /\ IsList(live)
                   /\ nulls = <<>> => live = BaseOf(p).values["delta"].is
    BY <1>2, LoadIs, ConcatIs
<1> HIDE DEF live
<1>4. PutCall(p, live, nulls) /\ PlainSets({}, {})
    BY <1>1, <1>2, <1>3 DEF PutCall, PlainSets
<1>5. /\ SavedInv' /\ puts \in Nat /\ puts + 1 \in Stored' /\ migrated' = migrated
      /\ ~migrated => given'[puts + 1].values["delta"].is = live
    BY <1>1, <1>4, PutCountedKeeps
<1>6. RunInv'
    BY <1>1, <1>3, <1>5, RunAfter
<1> QED
    BY <1>5, <1>6 DEF ThreadInv, SavedInv

LEMMA UpdatePutStep == ASSUME ThreadInv, UpdatePut PROVE ThreadInv'
<1> DEFINE live == run.live \o run.wrote
<1>1. /\ run.pc = "update"
      /\ PutCounted(run.at, {}, {}, live, run.wrote, "update", TRUE)
      /\ run' = Off /\ migrated' = migrated /\ mixed' = mixed
    BY DEF UpdatePut
<1>2. /\ run.at \in Bases
      /\ ~migrated => IsList(run.live) /\ IsList(run.wrote)
                      /\ run.live = BaseOf(run.at).values["delta"].is
    BY <1>1 DEF ThreadInv, RunInv
<1>3. ~migrated => /\ IsList(live)
                   /\ run.wrote = <<>> => live = BaseOf(run.at).values["delta"].is
    BY <1>2, ConcatIs
<1> HIDE DEF live
<1>4. PutCall(run.at, live, run.wrote) /\ PlainSets({}, {})
    BY <1>1, <1>2, <1>3 DEF PutCall, PlainSets
<1>5. SavedInv' /\ migrated' = migrated
    BY <1>1, <1>4, PutCountedKeeps
<1> QED
    BY <1>1, <1>5, RunOff DEF ThreadInv, SavedInv

LEMMA UpdateFreshStep == ASSUME ThreadInv, UpdateFresh PROVE ThreadInv'
<1> DEFINE live == <<NextValue>>
<1>1. /\ run.pc = "off" /\ Stored = {}
      /\ PutCounted(NoId, {"obj"}, {}, live, live, "update", TRUE)
      /\ run' = run /\ migrated' = migrated /\ mixed' = mixed
    BY DEF UpdateFresh, Idle
<1>2. IsList(live) /\ live # <<>>
    BY ShortLists
<1> HIDE DEF live
<1>3. PutCall(NoId, live, live) /\ PlainSets({"obj"}, {})
    BY <1>1, <1>2 DEF PutCall, PlainSets, Bases
<1>4. SavedInv' /\ migrated' = migrated
    BY <1>1, <1>3, PutCountedKeeps
<1>5. RunInv'
    BY <1>1, RunIdle DEF ThreadInv
<1> QED
    BY <1>4, <1>5 DEF ThreadInv, SavedInv

LEMMA UpdateInputStep ==
    ASSUME ThreadInv, NEW p \in Bases, UpdateInput(p) PROVE ThreadInv'
<1> DEFINE applied == <<NextValue>>
           live == Load(p) \o applied
<1>1. PICK info : Put(puts + 1, p, {"prim"}, {}, live, applied, FALSE, info)
    BY Zenon DEF UpdateInput
<1>2. /\ run' = [Off EXCEPT !.pc = "stored", !.at = puts + 1, !.wrote = applied]
      /\ migrated' = migrated /\ mixed' = mixed
    BY DEF UpdateInput
<1>3. IsList(applied) /\ applied # <<>>
    BY ShortLists
<1> HIDE DEF applied
<1>4. ~migrated => IsList(live)
    BY <1>3, LoadIs, ConcatIs
<1> HIDE DEF live
<1>5. PutCall(p, live, applied) /\ PlainSets({"prim"}, {})
    BY <1>2, <1>3, <1>4 DEF PutCall, PlainSets
<1>6. PICK n : n = puts + 1
    OBVIOUS
<1>7. SavedInv' /\ Stored' = Stored \cup {n}
    <2>1. /\ Ids' /\ GivenInv' /\ MemInv' /\ SqlInv' /\ PgInv' /\ WritesInv' /\ ShallowInv'
          /\ Stored' = Stored \cup {n}
        BY <1>1, <1>5, <1>6, PutPreserves
    <2> QED
        BY <2>1 DEF SavedInv
<1>8. RunInv'
    <2>1. /\ run'.pc = "stored" /\ run'.at = n /\ run'.live = <<>> /\ run'.wrote = applied
          /\ run' = [pc |-> run'.pc, at |-> run'.at, live |-> run'.live, done |-> run'.done,
                     wrote |-> run'.wrote]
        BY <1>2, <1>6 DEF Off
    <2>2. n \in Bases'
        BY <1>7 DEF Bases
    <2> QED
        BY <1>3, <2>1, <2>2, ShortLists DEF RunInv
<1> QED
    BY <1>2, <1>7, <1>8 DEF ThreadInv, SavedInv

LEMMA UpdateEndStep ==
    ASSUME ThreadInv, NEW p \in Stored, UpdateEnd(p) PROVE ThreadInv'
<1> DEFINE applied == Saved(p, NullTask) \o (IF given[p].info.next THEN Saved(p, NodeTask) ELSE <<>>)
           live == Load(p) \o applied
<1>1. PICK info : Put(puts + 1, p, {}, {"prim"}, live, applied, FALSE, info)
    BY Zenon DEF UpdateEnd
<1>2. run.pc = "off" /\ run' = run /\ migrated' = migrated /\ mixed' = mixed
    BY DEF UpdateEnd, Idle
<1>3. IsList(applied) /\ p \in Bases
    BY SavedIsSeq, ShortLists, ConcatIs DEF ThreadInv, Bases
<1> HIDE DEF applied
<1>4. ~migrated => /\ IsList(live)
                   /\ applied = <<>> => live = BaseOf(p).values["delta"].is
    BY <1>3, LoadIs, ConcatIs
<1> HIDE DEF live
<1>5. PutCall(p, live, applied) /\ PlainSets({}, {"prim"})
    BY <1>2, <1>3, <1>4 DEF PutCall, PlainSets
<1>6. SavedInv'
    <2>1. PICK n : n = puts + 1
        OBVIOUS
    <2>2. /\ Ids' /\ GivenInv' /\ MemInv' /\ SqlInv' /\ PgInv' /\ WritesInv' /\ ShallowInv'
        BY <1>1, <1>5, <2>1, PutPreserves
    <2> QED
        BY <2>2 DEF SavedInv
<1>7. RunInv'
    BY <1>2, RunIdle DEF ThreadInv
<1> QED
    BY <1>2, <1>6, <1>7 DEF ThreadInv, SavedInv

LEMMA ResumeRunStep ==
    ASSUME ThreadInv, NEW p \in Stored, ResumeRun(p) PROVE ThreadInv'
<1> DEFINE wrote == Saved(p, NullTask) \o Saved(p, NodeTask)
<1>1. PICK done :
         /\ run' = [pc |-> "tasks", at |-> p, live |-> Load(p), done |-> done, wrote |-> wrote]
         /\ UNCHANGED <<given, puts, migrated, forks, mixed, lossy, writes, savers>>
    BY Zenon DEF ResumeRun
<1>2. IsList(wrote) /\ p \in Bases
    BY SavedIsSeq, ConcatIs DEF ThreadInv, Bases
<1> HIDE DEF wrote
<1>3. RunInv'
    BY <1>1, <1>2, RunAt
<1>4. SavedInv'
    BY <1>1, SavedKept
<1> QED
    BY <1>1, <1>3, <1>4 DEF ThreadInv, SavedInv

LEMMA TaskDoneStep ==
    ASSUME ThreadInv, NEW toDelta \in BOOLEAN, TaskDone(toDelta) PROVE ThreadInv'
<1>1. /\ run.pc = "tasks"
      /\ run' = [run EXCEPT !.done = TRUE, !.wrote = IF toDelta THEN Append(@, NextValue) ELSE @]
      /\ UNCHANGED <<given, puts, migrated, forks>>
    BY DEF TaskDone
<1>2. run.at \in Bases
    BY <1>1 DEF ThreadInv, RunInv
<1>3. SavedInv'
    BY TaskSaves, SaveKeeps
<1>4. RunInv'
    <2>1. /\ Bases' = Bases /\ BaseOf(run.at)' = BaseOf(run.at)
        <3>1. run'.at = run.at /\ given' = given
            BY <1>1 DEF ThreadInv, RunInv
        <3> QED
            BY <3>1 DEF Bases, Stored, BaseOf
    <2>2. /\ run'.pc = "tasks" /\ run'.at = run.at /\ run'.live = run.live
          /\ run'.wrote = (IF toDelta THEN Append(run.wrote, NextValue) ELSE run.wrote)
          /\ run' = [pc |-> run'.pc, at |-> run'.at, live |-> run'.live, done |-> run'.done,
                     wrote |-> run'.wrote]
        BY <1>1 DEF ThreadInv, RunInv
    <2>3. ~migrated => IsList(run'.wrote)
        BY <2>2, AppendIs DEF ThreadInv, RunInv
    <2> QED
        BY <1>1, <1>2, <2>1, <2>2, <2>3 DEF ThreadInv, RunInv
<1> QED
    BY <1>1, <1>3, <1>4 DEF ThreadInv, SavedInv

LEMMA TaskInterruptsStep == ASSUME ThreadInv, TaskInterrupts PROVE ThreadInv'
<1>1. run' = Off /\ migrated' = migrated
    BY DEF TaskInterrupts
<1>2. SavedInv'
    BY InterruptSaves, SaveKeeps
<1> QED
    BY <1>1, <1>2, RunOff DEF ThreadInv, SavedInv

LEMMA UpdateStep ==
    ASSUME ThreadInv, NEW p \in Stored, Update(p) PROVE ThreadInv'
<1> DEFINE wrote == <<NextValue>>
<1>1. /\ run' = [pc |-> "update", at |-> p, live |-> Load(p), done |-> TRUE, wrote |-> wrote]
      /\ UNCHANGED <<given, migrated>>
    BY DEF Update
<1>2. IsList(wrote) /\ p \in Bases
    BY ShortLists DEF Bases
<1> HIDE DEF wrote
<1>3. SavedInv'
    BY UpdateSaves, SaveKeeps
<1>4. RunInv'
    BY <1>1, <1>2, RunAt
<1> QED
    BY <1>1, <1>3, <1>4 DEF ThreadInv, SavedInv

LEMMA UpdateInputWritesStep == ASSUME ThreadInv, UpdateInputWrites PROVE ThreadInv'
<1>1. run' = Off /\ migrated' = migrated
    BY DEF UpdateInputWrites
<1>2. SavedInv'
    BY UpdateInputSaves, SaveKeeps
<1> QED
    BY <1>1, <1>2, RunOff DEF ThreadInv, SavedInv

LEMMA UpdateCopyStep ==
    ASSUME ThreadInv, NEW p \in Stored, UpdateCopy(p) PROVE ThreadInv'
<1>1. PICK n, q, cp, live, info :
         /\ n = puts + 1 /\ q = given[p].parent
         /\ cp = [values |-> SqlTuple(sql, p).values, versions |-> given[p].versions]
         /\ given' = Over(given, At(n, [values |-> cp.values, versions |-> cp.versions, parent |-> q,
                                        live |-> live, info |-> info]))
         /\ mem' = MemPut(mem, n, q, cp, {})
         /\ sql' = SqlPut(sql, n, q, cp)
         /\ pg' = PgPut(pg, n, q, cp, {})
         /\ shallow' = ShallowPut(shallow, n, q, cp, {})
         /\ puts' = n
    BY Zenon DEF UpdateCopy
<1>2. /\ run.pc = "off" /\ run' = run /\ migrated' = migrated /\ mixed' = mixed
      /\ forks' = forks + 1
    BY DEF UpdateCopy, Idle
<1>3. /\ puts \in Nat /\ forks \in Nat /\ Stored \subseteq 1 .. puts /\ n \notin Stored
      /\ p \in Stored \cup {NoId} /\ BaseOf(p) = given[p]
    <2>1. puts \in Nat /\ forks \in Nat /\ Stored \subseteq 1 .. puts
        BY DEF ThreadInv, Ids
    <2> QED
        BY <1>1, <2>1 DEF BaseOf, NoId
<1>4. cp.values = given[p].values /\ cp.versions = given[p].versions
    BY <1>1 DEF SqlTuple, ThreadInv, SqlInv
<1>5. Proper(cp, puts)'
    <2>1. Proper(given[p], puts)
        BY DEF ThreadInv, GivenInv
    <2>2. \A ch \in Channels : cp.versions[ch][2] \in 0 .. puts'
        BY <1>1, <1>3, <1>4, <2>1 DEF Proper
    <2> QED
        BY <1>2, <1>4, <2>1, <2>2 DEF Proper
<1>6. /\ DOMAIN given' = Stored \cup {n}
      /\ \A i \in Stored : given'[i] = given[i]
      /\ given'[n] = [values |-> cp.values, versions |-> cp.versions, parent |-> q,
                      live |-> live, info |-> info]
    <2>1. n \in {n} /\ Stored = DOMAIN given
        BY DEF Stored
    <2> QED
        BY <1>1, <1>3, <2>1 DEF Over, At
<1>7. Ids' /\ GivenInv' /\ MemInv' /\ SqlInv' /\ PgInv'
    <2>1. PutStep(n, p, q, cp, {})
        BY <1>1, <1>2, <1>3, <1>4, <1>5, <1>6 DEF PutStep
    <2> QED
        BY <2>1, PutKept
<1>8. /\ mem'.writes = mem.writes /\ sql'.writes = sql.writes /\ pg'.writes = pg.writes
      /\ shallow' = [id |-> n, versions |-> cp.versions,
                     writes |-> [k \in {j \in DOMAIN shallow.writes : j[1] \in {n, q}} |-> shallow.writes[k]],
                     blobs |-> shallow'.blobs]
    BY <1>1 DEF MemPut, SqlPut, PgPut, ShallowPut, ThreadInv, MemInv, SqlInv, PgInv
<1>9. WritesInv'
    <2>1. WritesInv
        BY DEF ThreadInv
    <2>2. DOMAIN shallow'.writes \subseteq DOMAIN shallow.writes
        BY <1>8
    <2>3. \A k : Counted(k)' <=> Counted(k)
        BY <1>2 DEF Counted
    <2>4. \A k \in DOMAIN sql'.writes \cup DOMAIN shallow'.writes : k[1] \in 0 .. puts'
        BY <1>1, <1>3, <1>8, <2>1, <2>2 DEF WritesInv
    <2> QED
        BY <1>8, <2>1, <2>3, <2>4 DEF WritesInv
<1>10. ShallowInv'
    <2>1. forks' # 0
        BY <1>2, <1>3
    <2> QED
        BY <1>8, <2>1 DEF ShallowInv
<1>11. RunInv'
    BY <1>2, RunIdle DEF ThreadInv
<1> QED
    BY <1>2, <1>7, <1>9, <1>10, <1>11 DEF ThreadInv

LEMMA MigrateStep == ASSUME ThreadInv, Migrate PROVE ThreadInv'
<1>1. /\ UNCHANGED <<given, puts, forks, mixed, savers>> /\ migrated' = TRUE
      /\ run.pc = "off" /\ run' = run
    BY DEF Migrate, Idle
<1>2. SavedInv'
    BY <1>1, SavedKept
<1>3. RunInv'
    BY <1>1, RunIdle DEF ThreadInv
<1> QED
    BY <1>1, <1>2, <1>3 DEF ThreadInv, SavedInv

\* The thread of a saver that has nothing.
LEMMA EmptyStores ==
    ASSUME given' = None, mixed' = {}, mem' = MemEmpty, sql' = SqlEmpty, pg' = PgEmpty,
           shallow' = ShallowEmpty, puts' \in Nat, forks' \in Nat
    PROVE  SavedInv'
<1>1. DOMAIN None = {} /\ IsFiniteSet({})
    BY FS_EmptySet DEF None
<1>2. Stored' = {}
    BY <1>1 DEF Stored
<1>3. /\ DOMAIN mem'.storage = {} /\ DOMAIN mem'.blobs = {} /\ DOMAIN mem'.writes = {}
      /\ mem' = [storage |-> mem'.storage, blobs |-> mem'.blobs, writes |-> mem'.writes,
                 order |-> mem'.order]
    BY <1>1 DEF MemEmpty
<1>4. /\ DOMAIN sql'.checkpoints = {} /\ sql'.writes = None
      /\ sql' = [checkpoints |-> sql'.checkpoints, writes |-> sql'.writes]
    BY <1>1 DEF SqlEmpty
<1>5. /\ DOMAIN pg'.checkpoints = {} /\ DOMAIN pg'.blobs = {} /\ pg'.writes = None
      /\ pg' = [checkpoints |-> pg'.checkpoints, blobs |-> pg'.blobs, writes |-> pg'.writes]
    BY <1>1 DEF PgEmpty
<1>6. /\ DOMAIN shallow'.blobs = {} /\ DOMAIN shallow'.writes = {}
      /\ shallow' = [id |-> shallow'.id, versions |-> shallow'.versions, blobs |-> shallow'.blobs,
                     writes |-> shallow'.writes]
    BY <1>1 DEF ShallowEmpty
<1>7. Ids' /\ GivenInv' /\ MemInv' /\ SqlInv' /\ PgInv'
    BY <1>2, <1>3, <1>4, <1>5 DEF Ids, GivenInv, MemInv, SqlInv, PgInv, Old
<1>8. WritesInv'
    BY <1>1, <1>3, <1>4, <1>5, <1>6 DEF WritesInv
<1>9. ShallowInv'
    <2>1. Head0' = NoId
        BY <1>2 DEF Head0
    <2>2. \A ch \in {"obj", "prim"} : BaseOf(NoId)'.values[ch] = Absent
        BY DEF BaseOf, Channels
    <2>3. BaseOf(Head0)' = BaseOf(NoId)'
        BY <2>1 DEF BaseOf, Head0
    <2> QED
        BY <1>2, <1>6, <2>2, <2>3 DEF ShallowInv
<1> QED
    BY <1>7, <1>8, <1>9 DEF SavedInv

LEMMA DeleteThreadStep == ASSUME ThreadInv, DeleteThread PROVE ThreadInv'
<1>1. /\ given' = None /\ forks' = forks /\ mixed' = {} /\ mem' = MemEmpty /\ sql' = SqlEmpty
      /\ pg' = PgEmpty /\ shallow' = ShallowEmpty
      /\ run' = run /\ puts' = puts /\ migrated' = migrated /\ run.pc = "off"
    BY DEF DeleteThread, MemDeleted, Idle
<1>2. SavedInv'
    BY <1>1, EmptyStores DEF ThreadInv, Ids
<1>3. RunInv'
    BY <1>1, RunIdle DEF ThreadInv
<1> QED
    BY <1>1, <1>2, <1>3 DEF ThreadInv, SavedInv

LEMMA CrashStep == ASSUME ThreadInv, Crash PROVE ThreadInv'
<1>1. run' = Off /\ UNCHANGED <<given, puts, migrated, forks, mixed, savers>>
    BY DEF Crash
<1>2. SavedInv'
    BY <1>1, SavedKept
<1> QED
    BY <1>1, <1>2, RunOff DEF ThreadInv, SavedInv

LEMMA ThreadStutters == ASSUME ThreadInv, UNCHANGED vars PROVE ThreadInv'
<1>1. UNCHANGED <<given, run, puts, migrated, forks, mixed, savers>>
    BY DEF vars
<1>2. SavedInv'
    BY <1>1, SavedKept
<1>3. RunInv'
    BY <1>1 DEF ThreadInv, RunInv, Bases, Stored, BaseOf
<1> QED
    BY <1>1, <1>2, <1>3 DEF ThreadInv, SavedInv

LEMMA InitThread == Init => ThreadInv
<1> SUFFICES ASSUME Init PROVE ThreadInv
    OBVIOUS
<1>1. DOMAIN None = {} /\ IsFiniteSet({})
    BY FS_EmptySet DEF None
<1>2. Stored = {}
    BY <1>1 DEF Init, Stored
<1>3. Ids /\ GivenInv
    BY <1>2 DEF Init, Ids, GivenInv
<1>4. MemInv /\ SqlInv /\ PgInv
    BY <1>1, <1>2 DEF Init, MemInv, SqlInv, PgInv, MemEmpty, SqlEmpty, PgEmpty, Old
<1>5. WritesInv
    BY <1>1 DEF Init, WritesInv, MemEmpty, SqlEmpty, PgEmpty, ShallowEmpty
<1>6. ShallowInv
    <2>1. \A ch \in {"obj", "prim"} : BaseOf(Head0).values[ch] = Absent
        BY <1>2 DEF BaseOf, Head0, Channels
    <2> QED
        BY <1>1, <1>2, <2>1 DEF Init, ShallowInv, ShallowEmpty
<1>7. RunInv
    BY ShortLists DEF Init, RunInv, Off
<1> QED
    BY <1>3, <1>4, <1>5, <1>6, <1>7 DEF Init, ThreadInv

LEMMA NextThread == ASSUME ThreadInv, [Next]_vars PROVE ThreadInv'
<1>1. ASSUME NEW p \in Bases, NEW direct \in BOOLEAN, InputRun(p, direct) PROVE ThreadInv'
    BY <1>1, InputRunStep
<1>2. ASSUME NEW p \in Stored, ResumeRun(p) PROVE ThreadInv'
    BY <1>2, ResumeRunStep
<1>3. ASSUME NEW p \in Stored, ForkRun(p) PROVE ThreadInv'
    BY <1>3, ForkRunStep
<1>4. ASSUME NEW toDelta \in BOOLEAN, TaskDone(toDelta) PROVE ThreadInv'
    BY <1>4, TaskDoneStep
<1>5. ASSUME NEW next \in BOOLEAN, Superstep(next) PROVE ThreadInv'
    BY <1>5, SuperstepStep
<1>6. ASSUME NEW p \in Stored, Update(p) PROVE ThreadInv'
    BY <1>6, UpdateStep
<1>7. ASSUME NEW p \in Stored, UpdateEnd(p) PROVE ThreadInv'
    BY <1>7, UpdateEndStep
<1>8. ASSUME NEW p \in Stored, UpdateCopy(p) PROVE ThreadInv'
    BY <1>8, UpdateCopyStep
<1>9. ASSUME NEW p \in Bases, UpdateInput(p) PROVE ThreadInv'
    BY <1>9, UpdateInputStep
<1>10. CASE InputPut
    BY <1>10, InputPutStep
<1>11. CASE TaskInterrupts
    BY <1>11, TaskInterruptsStep
<1>12. CASE Crash
    BY <1>12, CrashStep
<1>13. CASE UpdatePut
    BY <1>13, UpdatePutStep
<1>14. CASE UpdateFresh
    BY <1>14, UpdateFreshStep
<1>15. CASE UpdateInputWrites
    BY <1>15, UpdateInputWritesStep
<1>16. CASE Migrate
    BY <1>16, MigrateStep
<1>17. CASE DeleteThread
    BY <1>17, DeleteThreadStep
<1>18. CASE Done \/ UNCHANGED vars
    BY <1>18, ThreadStutters DEF Done
<1> QED
    BY <1>1, <1>2, <1>3, <1>4, <1>5, <1>6, <1>7, <1>8, <1>9, <1>10, <1>11, <1>12, <1>13,
       <1>14, <1>15, <1>16, <1>17, <1>18 DEF Next

\* What put and put_writes left is what get_tuple returns, from the in-memory,
\* the SQLite and the Postgres saver alike: values, parent and pending writes of
\* every checkpoint; and from the shallow saver for the latest one, on a thread
\* without forks.  For any checkpoints, writes, forks, updates and crashes.
THEOREM SaversAgreeAlways == Spec => []SaversAgree
<1>1. ThreadInv /\ [Next]_vars => ThreadInv'
    BY NextThread
<1>2. ThreadInv => SaversAgree
    BY ThreadInvImplies
<1> QED
    BY <1>1, <1>2, InitThread, PTL DEF Spec

-----------------------------------------------------------------------------
(* The chain of checkpoints above one.                                     *)

\* Ids sort by time: a parent is smaller than its child, and is there.
Tree(parent) ==
    /\ DOMAIN parent \subseteq Nat \ {NoId}
    /\ \A i \in DOMAIN parent : parent[i] \in DOMAIN parent \cup {NoId} /\ parent[i] < i

\* f gives the chain of every checkpoint up to n.
ChainsTo(f, parent, n) ==
    f = [i \in {j \in DOMAIN parent \cup {NoId} : j <= n} |->
            IF i = NoId THEN <<>> ELSE <<i>> \o f[parent[i]]]

\* The recursion of Chains has a solution: the first checkpoint without a chain
\* would have a parent that has one.
LEMMA ChainsExist ==
    ASSUME NEW parent, Tree(parent), NEW n \in Nat
    PROVE  \E f : ChainsTo(f, parent, n)
<1> DEFINE Bad == {k \in Nat : ~ \E f : ChainsTo(f, parent, k)}
           D(k) == {j \in DOMAIN parent \cup {NoId} : j <= k}
<1> SUFFICES ASSUME n \in Bad PROVE FALSE
    OBVIOUS
<1>0. DOMAIN parent \subseteq Nat \ {0} /\ NoId = 0
    BY DEF Tree, NoId
<1>1. PICK k \in Bad : \A m \in Bad : k <= m
    BY NatMin
<1>2. k # 0
    <2> DEFINE f == [i \in {NoId} |-> <<>>]
    <2>1. D(0) = {NoId}
        BY <1>0
    <2>2. f = [i \in D(0) |-> IF i = NoId THEN <<>> ELSE <<i>> \o f[parent[i]]]
        BY <2>1
    <2>3. ChainsTo(f, parent, 0)
        BY <2>2 DEF ChainsTo
    <2> QED
        BY <2>3
<1>3. k \in Nat /\ k - 1 \in Nat /\ ~(k <= k - 1)
    BY <1>2
<1>4. PICK f : ChainsTo(f, parent, k - 1)
    BY <1>1, <1>3
<1>5. f = [i \in D(k - 1) |-> IF i = NoId THEN <<>> ELSE <<i>> \o f[parent[i]]]
    BY <1>4 DEF ChainsTo
<1> DEFINE g == [i \in D(k) |-> IF i = NoId THEN <<>> ELSE <<i>> \o f[parent[i]]]
<1>6. ASSUME NEW i \in D(k), i # NoId
      PROVE  parent[i] \in D(k - 1) /\ parent[i] \in D(k)
    BY <1>0, <1>3, <1>6 DEF Tree
<1>7. ASSUME NEW i \in D(k - 1) PROVE g[i] = f[i]
    <2>1. i \in D(k)
        BY <1>0, <1>3
    <2>2. f[i] = IF i = NoId THEN <<>> ELSE <<i>> \o f[parent[i]]
        BY <1>5
    <2> QED
        BY <2>1, <2>2
<1>8. \A i \in D(k) : g[i] = IF i = NoId THEN <<>> ELSE <<i>> \o g[parent[i]]
    BY <1>6, <1>7
<1>9. g = [i \in D(k) |-> g[i]]
    OBVIOUS
<1> HIDE DEF g
<1>10. g = [i \in D(k) |-> IF i = NoId THEN <<>> ELSE <<i>> \o g[parent[i]]]
    BY <1>8, <1>9
<1>11. ChainsTo(g, parent, k)
    BY <1>10 DEF ChainsTo
<1> QED
    BY <1>1, <1>11

\* The recursion of Chains, on a finite thread.
LEMMA ChainsAre ==
    ASSUME NEW parent, Tree(parent), NEW n \in Nat, \A i \in DOMAIN parent : i <= n
    PROVE  /\ Chains(parent)[NoId] = <<>>
           /\ \A i \in DOMAIN parent : Chains(parent)[i] = <<i>> \o Chains(parent)[parent[i]]
<1> DEFINE f == Chains(parent)
           D == DOMAIN parent \cup {NoId}
<1>1. f = CHOOSE g : g = [i \in D |-> IF i = NoId THEN <<>> ELSE <<i>> \o g[parent[i]]]
    BY DEF Chains
<1>2. \E g : g = [i \in D |-> IF i = NoId THEN <<>> ELSE <<i>> \o g[parent[i]]]
    <2>1. PICK g : ChainsTo(g, parent, n)
        BY ChainsExist
    <2>2. {j \in D : j <= n} = D
        BY DEF Tree, NoId
    <2> QED
        BY <2>1, <2>2 DEF ChainsTo
<1>3. f = [i \in D |-> IF i = NoId THEN <<>> ELSE <<i>> \o f[parent[i]]]
    BY <1>1, <1>2, Zenon
<1> HIDE DEF f
<1>4. NoId \in D /\ \A i \in DOMAIN parent : i \in D /\ i # NoId
    BY DEF Tree
<1>5. f[NoId] = <<>> /\ \A i \in DOMAIN parent : f[i] = <<i>> \o f[parent[i]]
    BY <1>3, <1>4
<1> QED
    BY <1>5 DEF f

\* A chain is a sequence of checkpoints.
LEMMA ChainsTyped ==
    ASSUME NEW parent, Tree(parent), NEW n \in Nat, \A i \in DOMAIN parent : i <= n
    PROVE  \A i \in DOMAIN parent \cup {NoId} : Chains(parent)[i] \in Seq(DOMAIN parent)
<1> DEFINE D == DOMAIN parent
           Bad == {i \in D \cup {NoId} : Chains(parent)[i] \notin Seq(D)}
<1> SUFFICES ASSUME Bad # {} PROVE FALSE
    OBVIOUS
<1>0. Bad \in SUBSET Nat
    BY DEF Tree, NoId
<1>1. PICK k \in Bad : \A m \in Bad : k <= m
    BY <1>0, NatMin
<1>2. k # NoId
    <2>1. Chains(parent)[NoId] = <<>>
        BY ChainsAre
    <2>2. <<>> \in Seq(D)
        OBVIOUS
    <2> QED
        BY <1>1, <2>1, <2>2
<1>3. /\ k \in D /\ parent[k] \in D \cup {NoId} /\ ~(k <= parent[k])
      /\ Chains(parent)[k] = <<k>> \o Chains(parent)[parent[k]]
    <2>1. k \in D /\ k \in Nat
        BY <1>0, <1>1, <1>2
    <2>2. parent[k] \in D \cup {NoId} /\ parent[k] < k
        BY <2>1 DEF Tree
    <2>3. PICK p \in Nat : p = parent[k]
        BY <2>2 DEF Tree, NoId
    <2>4. ~(k <= p)
        BY <2>1, <2>2, <2>3
    <2>5. Chains(parent)[k] = <<k>> \o Chains(parent)[parent[k]]
        BY <2>1, ChainsAre
    <2> QED
        BY <2>1, <2>2, <2>3, <2>4, <2>5, Zenon
<1>4. Chains(parent)[parent[k]] \in Seq(D)
    BY <1>1, <1>3
<1> HIDE DEF D
<1>5. <<k>> \in Seq(D)
    BY <1>3
<1>6. Chains(parent)[k] \in Seq(D)
    BY <1>3, <1>4, <1>5
<1> QED
    BY <1>1, <1>6

\* The members of a chain up to and with the first in S.
LEMMA UpToSet ==
    ASSUME NEW T, NEW c \in Seq(T), NEW S
    PROVE  ToSet(UpTo(c, S)) = {c[k] : k \in {x \in 1 .. Len(c) : \A j \in 1 .. x - 1 : c[j] \notin S}}
<1> DEFINE hits == {i \in DOMAIN c : c[i] \in S}
           firsts == {x \in 1 .. Len(c) : \A j \in 1 .. x - 1 : c[j] \notin S}
<1>0. DOMAIN c = 1 .. Len(c) /\ Len(c) \in Nat
    OBVIOUS
<1>1. CASE hits = {}
    <2>1. UpTo(c, S) = c
        BY <1>1 DEF UpTo
    <2>2. firsts = 1 .. Len(c)
        BY <1>0, <1>1
    <2> QED
        BY <1>0, <2>1, <2>2 DEF ToSet
<1>2. CASE hits # {}
    <2>1. hits \in SUBSET Nat
        BY <1>0
    <2>2. PICK m \in hits : \A x \in hits : m <= x
        BY <1>2, <2>1, NatMin
    <2>3. Min(hits) = m
        <3>1. Min(hits) = CHOOSE x \in hits : \A y \in hits : x <= y
            BY DEF Min
        <3>2. \A x \in hits : (\A y \in hits : x <= y) => x = m
            BY <2>1, <2>2
        <3> QED
            BY <2>2, <3>1, <3>2
    <2>4. m \in 1 .. Len(c)
        BY <1>0, <2>2
    <2>5. UpTo(c, S) = SubSeq(c, 1, m)
        BY <1>2, <2>3 DEF UpTo
    <2>6. /\ DOMAIN SubSeq(c, 1, m) = 1 .. m
          /\ \A k \in 1 .. m : SubSeq(c, 1, m)[k] = c[k]
        BY <1>0, <2>4
    <2>7. firsts = 1 .. m
        <3>1. ASSUME NEW x \in firsts PROVE x \in 1 .. m
            <4>1. ~(m \in 1 .. x - 1)
                BY <2>2
            <4> QED
                BY <1>0, <2>4, <4>1
        <3>2. ASSUME NEW x \in 1 .. m PROVE x \in firsts
            <4>1. \A j \in 1 .. x - 1 : j \in 1 .. Len(c) /\ j < m /\ j \in Nat
                BY <1>0, <2>4
            <4>2. \A j \in 1 .. x - 1 : c[j] \notin S
                BY <1>0, <2>2, <4>1
            <4> QED
                BY <1>0, <2>4, <4>2
        <3> QED
            BY <3>1, <3>2
    <2>8. ToSet(SubSeq(c, 1, m)) = {c[k] : k \in 1 .. m}
        BY <2>6 DEF ToSet
    <2> QED
        BY <2>5, <2>7, <2>8
<1> QED
    BY <1>1, <1>2

LEMMA UpToStep ==
    ASSUME NEW T, NEW i \in T, NEW c \in Seq(T), NEW S
    PROVE  ToSet(UpTo(<<i>> \o c, S)) = {i} \cup (IF i \in S THEN {} ELSE ToSet(UpTo(c, S)))
<1>0. <<i>> \o c \in Seq(T)
    <2>1. <<i>> \in Seq(T)
        OBVIOUS
    <2> QED
        BY <2>1
<1>1. PICK d \in Seq(T) : d = <<i>> \o c
    BY <1>0
<1>2. /\ Len(d) = Len(c) + 1 /\ Len(c) \in Nat /\ d[1] = i
      /\ \A k \in 1 .. Len(c) : d[k + 1] = c[k]
    BY <1>1
<1> DEFINE F(s) == {x \in 1 .. Len(s) : \A j \in 1 .. x - 1 : s[j] \notin S}
<1>3. /\ ToSet(UpTo(d, S)) = {d[k] : k \in F(d)}
      /\ ToSet(UpTo(c, S)) = {c[k] : k \in F(c)}
    BY UpToSet
<1>4. 1 \in F(d)
    BY <1>2
<1>5. CASE i \in S
    <2>1. F(d) = {1}
        BY <1>2, <1>4, <1>5
    <2> QED
        BY <1>1, <1>2, <1>3, <1>5, <2>1
<1>6. CASE i \notin S
    <2>1. ASSUME NEW k \in F(c) PROVE k + 1 \in F(d) /\ d[k + 1] = c[k]
        <3>1. ASSUME NEW j \in 1 .. k PROVE d[j] \notin S
            <4>1. CASE j = 1
                BY <1>2, <1>6, <4>1
            <4>2. CASE j # 1
                <5>1. j - 1 \in 1 .. k - 1 /\ j - 1 \in 1 .. Len(c) /\ (j - 1) + 1 = j
                    BY <1>2, <4>2
                <5>2. d[j] = c[j - 1]
                    BY <1>2, <5>1
                <5> QED
                    BY <5>1, <5>2
            <4> QED
                BY <4>1, <4>2
        <3>2. k \in 1 .. Len(c) /\ k + 1 \in 1 .. Len(d) /\ (k + 1) - 1 = k
            BY <1>2
        <3> QED
            BY <1>2, <3>1, <3>2
    <2>2. ASSUME NEW k \in F(d), k # 1 PROVE k - 1 \in F(c) /\ d[k] = c[k - 1]
        <3>1. k - 1 \in 1 .. Len(c) /\ (k - 1) + 1 = k
            BY <1>2, <2>2
        <3>2. ASSUME NEW j \in 1 .. (k - 1) - 1 PROVE c[j] \notin S
            <4>1. j \in 1 .. Len(c) /\ j + 1 \in 1 .. k - 1
                BY <1>2, <3>1
            <4> QED
                BY <1>2, <4>1
        <3> QED
            BY <1>2, <3>1, <3>2
    <2> HIDE DEF F
    <2>3. {d[k] : k \in F(d)} \subseteq {i} \cup {c[k] : k \in F(c)}
        BY <1>2, <2>2
    <2>4. {i} \cup {c[k] : k \in F(c)} \subseteq {d[k] : k \in F(d)}
        BY <1>2, <1>4, <2>1
    <2> QED
        BY <1>1, <1>3, <1>6, <2>3, <2>4
<1> QED
    BY <1>5, <1>6

LEMMA UpToNone == ASSUME NEW S PROVE ToSet(UpTo(<<>>, S)) = {}
<1>1. DOMAIN <<>> = {}
    OBVIOUS
<1>2. UpTo(<<>>, S) = <<>>
    BY <1>1 DEF UpTo
<1> QED
    BY <1>1, <1>2 DEF ToSet

-----------------------------------------------------------------------------
(* The counters of a checkpoint's metadata.                                *)

StepsOf(p) == IF p = NoId THEN 0 ELSE given[p].info.counters.steps

ParentInv == \A t \in Stored : given[t].parent \in Stored \cup {NoId} /\ given[t].parent < t

\* A stored value starts the count again; otherwise it goes on, short of the limit.
CountInv ==
    \A t \in Stored :
        LET c == given[t].info.counters
        IN  /\ c.steps \in Nat
            /\ given[t].values["delta"] # Absent => c = Zero
            /\ c # Zero => c.steps = StepsOf(given[t].parent) + 1 /\ c.steps < MaxSteps

\* The same for the checkpoints one.
LEMMA CountedWalk ==
    ASSUME Ids, ParentInv, CountInv
    PROVE  ReplayBounded
<1> DEFINE parent == [i \in Stored |-> given[i].parent]
           held == {i \in Stored : given[i].values["delta"] # Absent}
           Walk(i) == ToSet(UpTo(Chains(parent)[i], held))
           Carried(i) == held \cup {j \in Stored : given[j].info.counters # Zero}
           Short(i) == Walk(i) \subseteq Carried(i)
                          => IsFiniteSet(Walk(i)) /\ Cardinality(Walk(i)) <= StepsOf(i) + 1
<1>1. /\ DOMAIN parent = Stored /\ Stored \subseteq Nat \ {0} /\ puts \in Nat
      /\ \A i \in Stored : i <= puts /\ parent[i] = given[i].parent
    BY DEF Ids
<1>2. Tree(parent) /\ NoId \in Nat /\ \A i \in Stored : i \in Nat /\ i # NoId
    BY <1>1 DEF Tree, ParentInv, NoId
<1> HIDE DEF parent
<1>3. /\ Chains(parent)[NoId] = <<>>
      /\ \A i \in Stored : Chains(parent)[i] = <<i>> \o Chains(parent)[parent[i]]
    BY <1>1, <1>2, ChainsAre
<1>4. \A i \in Stored \cup {NoId} : Chains(parent)[i] \in Seq(Stored)
    BY <1>1, <1>2, ChainsTyped
<1>5. Walk(NoId) = {}
    BY <1>3, UpToNone
<1>6. ASSUME NEW i \in Stored
      PROVE  Walk(i) = {i} \cup (IF i \in held THEN {} ELSE Walk(parent[i]))
    <2>1. parent[i] \in Stored \cup {NoId}
        BY <1>1, <1>2 DEF Tree
    <2>2. Chains(parent)[parent[i]] \in Seq(Stored)
        BY <1>4, <2>1
    <2> HIDE DEF held
    <2>3. PICK c \in Seq(Stored) : c = Chains(parent)[parent[i]]
        BY <2>2
    <2>4. ToSet(UpTo(<<i>> \o c, held)) = {i} \cup (IF i \in held THEN {} ELSE ToSet(UpTo(c, held)))
        BY UpToStep
    <2>5. Chains(parent)[i] = <<i>> \o c
        BY <1>3, <2>3
    <2> QED
        BY <2>3, <2>4, <2>5
<1> HIDE DEF Walk
<1>7. StepsOf(NoId) = 0 /\ \A i \in Stored : StepsOf(i) = given[i].info.counters.steps /\ StepsOf(i) \in Nat
    BY <1>1 DEF StepsOf, CountInv, NoId
<1>8. \A i \in Stored \cup {NoId} : Short(i)
    <2> DEFINE Bad == {i \in Stored \cup {NoId} : ~Short(i)}
    <2> SUFFICES ASSUME Bad # {} PROVE FALSE
        OBVIOUS
    <2> HIDE DEF held, Carried, Short
    <2>1. Bad \in SUBSET Nat
        BY <1>2
    <2>2. PICK k \in Bad : \A m \in Bad : k <= m
        BY <2>1, NatMin
    <2>3. Short(NoId)
        BY <1>5, <1>7, FS_EmptySet DEF Short
    <2>4. k \in Stored /\ k # NoId
        BY <2>2, <2>3
    <2>5. parent[k] \in Stored \cup {NoId} /\ parent[k] \in Nat /\ parent[k] < k /\ k \in Nat
        <3>1. parent[k] \in Stored \cup {NoId} /\ parent[k] < k
            BY <1>1, <1>2, <2>4 DEF Tree
        <3> QED
            BY <1>2, <2>4, <3>1
    <2>6. Short(parent[k])
        BY <2>2, <2>5
    <2>7. SUFFICES ASSUME Walk(k) \subseteq Carried(k)
                   PROVE  IsFiniteSet(Walk(k)) /\ Cardinality(Walk(k)) <= StepsOf(k) + 1
        BY <2>2 DEF Short
    <2>8. CASE k \in held
        <3>1. Walk(k) = {k}
            BY <1>6, <2>4, <2>8
        <3>2. IsFiniteSet(Walk(k)) /\ Cardinality(Walk(k)) = 1
            BY <3>1, FS_Singleton
        <3> QED
            BY <1>7, <2>4, <3>2
    <2>9. CASE k \notin held
        <3>1. Walk(k) = {k} \cup Walk(parent[k])
            BY <1>6, <2>4, <2>9
        <3>2. Walk(parent[k]) \subseteq Carried(parent[k])
            BY <2>7, <3>1 DEF Carried
        <3>3. IsFiniteSet(Walk(parent[k])) /\ Cardinality(Walk(parent[k])) <= StepsOf(parent[k]) + 1
            BY <2>6, <3>2 DEF Short
        <3>4. given[k].info.counters # Zero
            BY <2>7, <2>9, <3>1 DEF Carried
        <3>5. StepsOf(k) = StepsOf(parent[k]) + 1 /\ StepsOf(parent[k]) \in Nat
            BY <1>1, <1>7, <2>4, <2>5, <3>4 DEF CountInv
        <3>6. IsFiniteSet(Walk(k)) /\ Cardinality(Walk(k)) \in Nat /\ Cardinality(Walk(parent[k])) \in Nat
            <4>1. Walk(k) = Walk(parent[k]) \cup {k}
                BY <3>1
            <4>2. IsFiniteSet(Walk(k))
                BY <3>3, <4>1, FS_AddElement
            <4> QED
                BY <3>3, <4>2, FS_CardinalityType
        <3>7. Cardinality(Walk(k)) <= Cardinality(Walk(parent[k])) + 1
            <4>1. Walk(k) = Walk(parent[k]) \cup {k}
                BY <3>1
            <4>2. Cardinality(Walk(k)) = IF k \in Walk(parent[k]) THEN Cardinality(Walk(parent[k]))
                                         ELSE Cardinality(Walk(parent[k])) + 1
                BY <3>3, <4>1, FS_AddElement
            <4> QED
                BY <3>6, <4>2
        <3> QED
            BY <3>3, <3>5, <3>6, <3>7
    <2> QED
        BY <2>8, <2>9
<1>9. SUFFICES ASSUME NEW t \in Stored, t \notin held,
                      \A i \in ToSet(UpTo(Ancestors(parent, t), held)) \cup {t} :
                          i \in held \/ given[i].info.counters # Zero
               PROVE  Cardinality(ToSet(UpTo(Ancestors(parent, t), held))) < MaxSteps
    BY DEF ReplayBounded, parent
<1>10. ToSet(UpTo(Ancestors(parent, t), held)) = Walk(parent[t])
    BY DEF Ancestors, Walk
<1>11. parent[t] \in Stored \cup {NoId} /\ parent[t] = given[t].parent
    BY <1>1, <1>2 DEF Tree
<1>12. Walk(parent[t]) \subseteq Stored
    <2>1. Chains(parent)[parent[t]] \in Seq(Stored)
        BY <1>4, <1>11
    <2>2. PICK c \in Seq(Stored) : c = Chains(parent)[parent[t]]
        BY <2>1
    <2>3. Walk(parent[t]) = {c[k] : k \in {x \in 1 .. Len(c) : \A j \in 1 .. x - 1 : c[j] \notin held}}
        <3>1. PICK h : h = held
            OBVIOUS
        <3>2. Walk(parent[t]) = ToSet(UpTo(c, h))
            BY <2>2, <3>1, Zenon DEF Walk
        <3>3. ToSet(UpTo(c, h)) = {c[k] : k \in {x \in 1 .. Len(c) : \A j \in 1 .. x - 1 : c[j] \notin h}}
            BY UpToSet, Zenon
        <3> QED
            BY <3>1, <3>2, <3>3, Zenon
    <2>4. \A k \in 1 .. Len(c) : c[k] \in Stored
        OBVIOUS
    <2> QED
        BY <2>3, <2>4
<1>13. Cardinality(Walk(parent[t])) <= StepsOf(parent[t]) + 1 /\ IsFiniteSet(Walk(parent[t]))
    <2>1. Walk(parent[t]) \subseteq Carried(parent[t])
        BY <1>9, <1>10, <1>12
    <2> QED
        BY <1>8, <1>11, <2>1
<1>14. given[t].info.counters # Zero
    BY <1>9
<1>15. StepsOf(t) = StepsOf(parent[t]) + 1 /\ StepsOf(t) < MaxSteps /\ StepsOf(t) \in Nat
    BY <1>1, <1>7, <1>11, <1>14 DEF CountInv
<1>16. StepsOf(parent[t]) \in Nat /\ Cardinality(Walk(parent[t])) \in Nat
    BY <1>7, <1>11, <1>13, FS_CardinalityType
<1> QED
    BY <1>10, <1>13, <1>15, <1>16, MaxStepsAssumption

\* A checkpoint that is put after q either starts its counters again or carries
\* on those of q, short of the limit, and then it stores no value.
Recorded(q) ==
    LET n == puts + 1
        c == given'[n].info.counters
    IN  /\ q \in Stored \cup {NoId}
        /\ DOMAIN given' = Stored \cup {n}
        /\ \A i \in Stored : given'[i] = given[i]
        /\ given'[n].parent = q
        /\ \/ c = Zero
           \/ /\ given'[n].values["delta"] = Absent
              /\ c.steps = StepsOf(q) + 1 /\ c.steps < MaxSteps

LEMMA CountedPut ==
    ASSUME Ids, ParentInv, CountInv, NEW q, Recorded(q)
    PROVE  ParentInv' /\ CountInv'
<1>1. PICK n : n = puts + 1
    OBVIOUS
<1>2. /\ puts \in Nat /\ n \in Nat /\ Stored \subseteq 1 .. puts /\ n \notin Stored /\ n # NoId
      /\ q < n /\ q # n /\ q \in Stored \cup {NoId}
    <2>1. puts \in Nat /\ Stored \subseteq 1 .. puts
        BY DEF Ids
    <2>2. q \in Stored \cup {NoId}
        BY DEF Recorded
    <2>3. n \in Nat /\ n = puts + 1
        BY <1>1, <2>1
    <2> QED
        BY <2>1, <2>2, <2>3 DEF NoId
<1>3. /\ Stored' = Stored \cup {n} /\ \A i \in Stored : given'[i] = given[i]
      /\ given'[n].parent = q
    BY <1>1 DEF Recorded, Stored
<1>4. ParentInv'
    <2>1. ASSUME NEW t \in Stored' PROVE given'[t].parent \in Stored' \cup {NoId} /\ given'[t].parent < t
        BY <1>2, <1>3 DEF ParentInv
    <2> QED
        BY <2>1 DEF ParentInv
<1>5. \A i \in Stored \cup {NoId} : StepsOf(i)' = StepsOf(i) /\ StepsOf(i) \in Nat
    BY <1>3 DEF StepsOf, CountInv
<1>6. ASSUME NEW t \in Stored'
      PROVE  /\ given'[t].info.counters.steps \in Nat
             /\ given'[t].values["delta"] # Absent => given'[t].info.counters = Zero
             /\ given'[t].info.counters # Zero =>
                   /\ given'[t].info.counters.steps = StepsOf(given[t].parent)'
                                                      + 1
                   /\ given'[t].info.counters.steps < MaxSteps
    <2>1. CASE t \in Stored
        <3>1. given'[t] = given[t] /\ given[t].parent \in Stored \cup {NoId}
            BY <1>3, <2>1 DEF ParentInv
        <3>2. StepsOf(given[t].parent)' = StepsOf(given[t].parent)
            <4>1. PICK i \in Stored \cup {NoId} : i = given[t].parent
                BY <3>1
            <4>2. StepsOf(i)' = StepsOf(i)
                BY <1>5
            <4>3. given'[t].parent = i
                BY <3>1, <4>1
            <4> QED
                BY <4>1, <4>2, <4>3
        <3> QED
            BY <2>1, <3>1, <3>2 DEF CountInv
    <2>2. CASE t = n
        <3>1. StepsOf(given[n].parent)' = StepsOf(q)
            BY <1>2, <1>3, <1>5
        <3>2. Zero.steps = 0 /\ n = puts + 1
            BY <1>1 DEF Zero
        <3> QED
            BY <1>2, <1>5, <2>2, <3>1, <3>2 DEF Recorded
    <2> QED
        BY <1>3, <2>1, <2>2
<1>7. CountInv'
    BY <1>6 DEF CountInv
<1> QED
    BY <1>4, <1>7

\* What Put records.
LEMMA PutRecords ==
    ASSUME ThreadInv, NEW p \in Bases, NEW to, NEW gone, NEW live, NEW applied, NEW snap, NEW info,
           Put(puts + 1, p, to, gone, live, applied, snap, info)
    PROVE  /\ p \in Stored \cup {NoId}
           /\ DOMAIN given' = Stored \cup {puts + 1}
           /\ \A i \in Stored : given'[i] = given[i]
           /\ given'[puts + 1].parent = p /\ given'[puts + 1].info = info
           /\ given'[puts + 1].values["delta"] = ValueOf(puts + 1, p, to, gone, live, snap, "delta")
<1>1. PICK n : n = puts + 1
    OBVIOUS
<1>2. PICK cp : /\ cp = CpOf(n, p, to, gone, live, applied, snap)
                /\ given' = Over(given, At(n, [values |-> cp.values, versions |-> cp.versions,
                                               parent |-> p, live |-> live, info |-> info]))
    BY <1>1, PutSets
<1>3. puts \in Nat /\ Stored \subseteq 1 .. puts /\ n \notin Stored /\ p \in Stored \cup {NoId}
    BY <1>1 DEF ThreadInv, Ids, Bases
<1>4. cp.values["delta"] = ValueOf(n, p, to, gone, live, snap, "delta")
    <2>1. "delta" \in Channels
        BY DEF Channels
    <2>2. cp.values = [ch \in Channels |-> ValueOf(n, p, to, gone, live, snap, ch)]
        BY <1>2, Zenon DEF CpOf
    <2> QED
        BY <2>1, <2>2, Zenon
<1>5. /\ DOMAIN given' = Stored \cup {n}
      /\ \A i \in Stored : given'[i] = given[i]
      /\ given'[n] = [values |-> cp.values, versions |-> cp.versions,
                      parent |-> p, live |-> live, info |-> info]
    <2>1. n \in {n} /\ Stored = DOMAIN given
        BY DEF Stored
    <2> QED
        BY <1>2, <1>3, <2>1 DEF Over, At
<1> QED
    BY <1>1, <1>3, <1>4, <1>5

LEMMA CountersKept ==
    ASSUME ThreadInv, ParentInv, CountInv,
           NEW p \in Bases, NEW to, NEW gone, NEW live, NEW applied, NEW source, NEW next,
           PutCounted(p, to, gone, live, applied, source, next), PlainSets(to, gone)
    PROVE  ParentInv' /\ CountInv'
<1> DEFINE c == Counters(p, applied # <<>>)
           due == migrated /\ (Due(c) \/ (source = "update" /\ p = NoId))
           known == applied # <<>> \/ (p # NoId /\ given[p].versions["delta"] # NoVersion)
           info == Info(IF due \/ ~migrated THEN Zero ELSE c, source, next)
<1>1. Put(puts + 1, p, to, gone, live, applied, due /\ known, info)
    BY Zenon DEF PutCounted
<1>2. info.counters = IF due \/ ~migrated THEN Zero ELSE c
    BY DEF Info
<1>3. /\ p \in Stored \cup {NoId}
      /\ DOMAIN given' = Stored \cup {puts + 1}
      /\ \A i \in Stored : given'[i] = given[i]
      /\ given'[puts + 1].parent = p /\ given'[puts + 1].info = info
      /\ given'[puts + 1].values["delta"] = ValueOf(puts + 1, p, to, gone, live, due /\ known, "delta")
    <2> HIDE DEF c, due, known, info
    <2>1. PICK snap : snap = (due /\ known)
        OBVIOUS
    <2>2. Put(puts + 1, p, to, gone, live, applied, snap, info)
        BY <1>1, <2>1, Zenon
    <2>3. /\ p \in Stored \cup {NoId}
          /\ DOMAIN given' = Stored \cup {puts + 1}
          /\ \A i \in Stored : given'[i] = given[i]
          /\ given'[puts + 1].parent = p /\ given'[puts + 1].info = info
          /\ given'[puts + 1].values["delta"] = ValueOf(puts + 1, p, to, gone, live, snap, "delta")
        BY <2>2, PutRecords
    <2> QED
        BY <2>1, <2>3, Zenon
<1>4. ASSUME migrated, ~due
      PROVE  /\ given'[puts + 1].values["delta"] = Absent
             /\ c.steps = StepsOf(p) + 1 /\ c.steps < MaxSteps
    <2>1. ValueOf(puts + 1, p, to, gone, live, due /\ known, "delta") = Absent
        <3> HIDE DEF c, due, known, info
        <3>1. ValuesAre(puts + 1, p, to, gone, live, due /\ known)
            BY ValueIs, Zenon
        <3> QED
            BY <1>4, <3>1, Zenon DEF ValuesAre
    <2>2. c.steps = StepsOf(p) + 1 /\ StepsOf(p) \in Nat
        BY <1>3 DEF Counters, StepsOf, Zero, CountInv
    <2>3. ~(c.steps >= MaxSteps)
        BY <1>4 DEF Due
    <2> HIDE DEF c, due, known, info
    <2> QED
        BY <1>3, <2>1, <2>2, <2>3, MaxStepsAssumption
<1> HIDE DEF c, due, known, info
<1>5. Recorded(p)
    <2>1. CASE due \/ ~migrated
        BY <1>2, <1>3, <2>1 DEF Recorded
    <2>2. CASE migrated /\ ~due
        BY <1>2, <1>3, <1>4, <2>2 DEF Recorded
    <2>3. migrated \in BOOLEAN
        BY DEF ThreadInv
    <2> QED
        BY <2>1, <2>2, <2>3
<1> QED
    BY <1>5, CountedPut DEF ThreadInv

LEMMA CountersSame ==
    ASSUME ParentInv, CountInv, given' = given \/ given' = None
    PROVE  ParentInv' /\ CountInv'
<1>1. CASE given' = given
    BY <1>1 DEF ParentInv, CountInv, Stored, StepsOf
<1>2. CASE given' = None
    <2>1. Stored' = {}
        BY <1>2 DEF Stored, None
    <2> QED
        BY <2>1 DEF ParentInv, CountInv
<1> QED
    BY <1>1, <1>2

\* Puts that start the counters again.
LEMMA CountersReset ==
    ASSUME ThreadInv, ParentInv, CountInv, NEW p \in Bases, NEW to, NEW gone, NEW live, NEW applied,
           NEW info, info.counters = Zero,
           Put(puts + 1, p, to, gone, live, applied, FALSE, info)
    PROVE  ParentInv' /\ CountInv'
<1>0. PICK snap : Put(puts + 1, p, to, gone, live, applied, snap, info)
    BY Zenon
<1>1. /\ p \in Stored \cup {NoId}
      /\ DOMAIN given' = Stored \cup {puts + 1}
      /\ \A i \in Stored : given'[i] = given[i]
      /\ given'[puts + 1].parent = p /\ given'[puts + 1].info = info
      /\ given'[puts + 1].values["delta"] = ValueOf(puts + 1, p, to, gone, live, snap, "delta")
    BY <1>0, PutRecords, Zenon
<1>2. Recorded(p)
    BY <1>1 DEF Recorded
<1> QED
    BY <1>2, CountedPut DEF ThreadInv

LEMMA CopyReset ==
    ASSUME ThreadInv, ParentInv, CountInv, NEW p \in Stored, UpdateCopy(p)
    PROVE  ParentInv' /\ CountInv'
<1>1. PICK n, q, vals, vers, live, next :
         /\ n = puts + 1 /\ q = given[p].parent
         /\ given' = Over(given, At(n, [values |-> vals, versions |-> vers, parent |-> q,
                                        live |-> live, info |-> Info(Zero, "fork", next)]))
    BY Zenon DEF UpdateCopy
<1>2. puts \in Nat /\ Stored \subseteq 1 .. puts /\ n \notin Stored
    BY <1>1 DEF ThreadInv, Ids
<1>3. /\ DOMAIN given' = Stored \cup {n}
      /\ \A i \in Stored : given'[i] = given[i]
      /\ given'[n].parent = q /\ given'[n].info.counters = Zero
    <2>1. n \in {n} /\ Stored = DOMAIN given
        BY DEF Stored
    <2> QED
        BY <1>1, <1>2, <2>1 DEF Over, At, Info
<1>4. q \in Stored \cup {NoId}
    BY <1>1 DEF ParentInv
<1>5. Recorded(q)
    BY <1>1, <1>3, <1>4 DEF Recorded
<1> QED
    BY <1>5, CountedPut DEF ThreadInv

LEMMA NextCounted ==
    ASSUME ThreadInv, ParentInv, CountInv, [Next]_vars
    PROVE  ParentInv' /\ CountInv'
<1>0. run.pc # "off" => run.at \in Bases
    BY DEF ThreadInv, RunInv
<1>1. CASE UNCHANGED vars
    BY <1>1, CountersSame DEF vars
<1>2. ASSUME NEW p \in Bases, NEW direct \in BOOLEAN, InputRun(p, direct) PROVE ParentInv' /\ CountInv'
    BY <1>2, CountersSame DEF InputRun
<1>3. ASSUME NEW p \in Stored, ResumeRun(p) PROVE ParentInv' /\ CountInv'
    BY <1>3, CountersSame DEF ResumeRun
<1>4. ASSUME NEW p \in Stored, ForkRun(p) PROVE ParentInv' /\ CountInv'
    <2>1. PICK live, nulls : PutCounted(p, {}, {}, live, nulls, "fork", TRUE)
        BY <1>4, Zenon DEF ForkRun
    <2>2. p \in Bases /\ PlainSets({}, {})
        BY DEF Bases, PlainSets
    <2> QED
        BY <2>1, <2>2, CountersKept
<1>5. ASSUME NEW toDelta \in BOOLEAN, TaskDone(toDelta) PROVE ParentInv' /\ CountInv'
    BY <1>5, CountersSame DEF TaskDone
<1>6. ASSUME NEW next \in BOOLEAN, Superstep(next) PROVE ParentInv' /\ CountInv'
    <2>1. PICK live, wrote : PutCounted(run.at, {"obj"}, {"prim"}, live, wrote, "loop", next)
        BY <1>6, Zenon DEF Superstep
    <2>2. run.at \in Bases /\ PlainSets({"obj"}, {"prim"})
        BY <1>0, <1>6 DEF Superstep, PlainSets
    <2> QED
        BY <2>1, <2>2, CountersKept
<1>7. ASSUME NEW p \in Stored, Update(p) PROVE ParentInv' /\ CountInv'
    BY <1>7, CountersSame DEF Update
<1>8. ASSUME NEW p \in Stored, UpdateEnd(p) PROVE ParentInv' /\ CountInv'
    <2>1. PICK live, applied, next :
             Put(puts + 1, p, {}, {"prim"}, live, applied, FALSE, Info(Zero, "update", next))
        BY <1>8, Zenon DEF UpdateEnd
    <2>2. p \in Bases /\ Info(Zero, "update", next).counters = Zero
        BY DEF Bases, Info
    <2> QED
        BY <2>1, <2>2, CountersReset
<1>9. ASSUME NEW p \in Stored, UpdateCopy(p) PROVE ParentInv' /\ CountInv'
    BY <1>9, CopyReset
<1>10. ASSUME NEW p \in Bases, UpdateInput(p) PROVE ParentInv' /\ CountInv'
    <2>1. PICK live, applied, next :
             Put(puts + 1, p, {"prim"}, {}, live, applied, FALSE, Info(Zero, "input", next))
        BY <1>10, Zenon DEF UpdateInput
    <2>2. Info(Zero, "input", next).counters = Zero
        BY DEF Info
    <2> QED
        BY <2>1, <2>2, CountersReset
<1>11. CASE InputPut
    <2>1. PICK live, wrote : PutCounted(run.at, {"prim"}, {}, live, wrote, "input", TRUE)
        BY <1>11, Zenon DEF InputPut
    <2>2. run.at \in Bases /\ PlainSets({"prim"}, {})
        BY <1>0, <1>11 DEF InputPut, PlainSets
    <2> QED
        BY <2>1, <2>2, CountersKept
<1>12. CASE UpdatePut
    <2>1. PICK live, wrote : PutCounted(run.at, {}, {}, live, wrote, "update", TRUE)
        BY <1>12, Zenon DEF UpdatePut
    <2>2. run.at \in Bases /\ PlainSets({}, {})
        BY <1>0, <1>12 DEF UpdatePut, PlainSets
    <2> QED
        BY <2>1, <2>2, CountersKept
<1>13. CASE UpdateFresh
    <2>1. PICK live, applied : PutCounted(NoId, {"obj"}, {}, live, applied, "update", TRUE)
        BY <1>13, Zenon DEF UpdateFresh
    <2>2. NoId \in Bases /\ PlainSets({"obj"}, {})
        BY <1>13 DEF UpdateFresh, Bases, PlainSets
    <2> QED
        BY <2>1, <2>2, CountersKept
<1>14. CASE TaskInterrupts \/ Crash \/ UpdateInputWrites \/ Migrate \/ DeleteThread \/ Done
    <2>1. given' = given \/ given' = None
        BY <1>14 DEF TaskInterrupts, Crash, UpdateInputWrites, Migrate, DeleteThread, Done, vars
    <2> QED
        BY <2>1, CountersSame
<1> QED
    BY <1>1, <1>2, <1>3, <1>4, <1>5, <1>6, <1>7, <1>8, <1>9, <1>10, <1>11, <1>12, <1>13, <1>14 DEF Next

\* A delta channel is rebuilt from fewer than MaxSteps checkpoints wherever all
\* of them carried the counters on (delta_channels_to_snapshot), for any
\* frequency, any limit and any forks.
THEOREM ReplaysAreBounded == Spec => []ReplayBounded
<1> DEFINE Inv == ThreadInv /\ ParentInv /\ CountInv
<1>1. Init => Inv
    <2>1. Init => ParentInv /\ CountInv
        BY DEF Init, None, Stored, ParentInv, CountInv
    <2> QED
        BY <2>1, InitThread
<1>2. Inv /\ [Next]_vars => Inv'
    BY NextThread, NextCounted
<1>3. Inv => ReplayBounded
    BY CountedWalk DEF ThreadInv
<1> QED
    BY <1>1, <1>2, <1>3, PTL DEF Spec

-----------------------------------------------------------------------------
(* How the savers collect the history of a delta channel.                  *)

\* A chain ends with its first member in S, if it has one.
LEMMA UpToIs ==
    ASSUME NEW T, NEW d \in Seq(T), NEW e \in Seq(T), NEW S, d # <<>>,
           \A k \in 1 .. Len(d) - 1 : d[k] \notin S, d[Len(d)] \in S
    PROVE  UpTo(d \o e, S) = d
<1>0. d \o e \in Seq(T)
    OBVIOUS
<1>1. PICK c \in Seq(T) : c = d \o e
    BY <1>0
<1>2. /\ Len(d) \in Nat /\ Len(d) >= 1 /\ Len(c) \in Nat /\ Len(d) <= Len(c)
      /\ \A k \in 1 .. Len(d) : c[k] = d[k]
      /\ DOMAIN c = 1 .. Len(c) /\ DOMAIN d = 1 .. Len(d)
    BY <1>1
<1> DEFINE hits == {i \in DOMAIN c : c[i] \in S}
<1>3. Len(d) \in hits
    BY <1>2
<1>4. \A i \in hits : i \in Nat /\ Len(d) <= i
    <2>1. ASSUME NEW i \in hits, i < Len(d) PROVE FALSE
        BY <1>2, <2>1
    <2> QED
        BY <1>2, <2>1
<1>5. Min(hits) = Len(d)
    <2>1. Min(hits) = CHOOSE x \in hits : \A y \in hits : x <= y
        BY DEF Min
    <2>2. \A x \in hits : (\A y \in hits : x <= y) => x = Len(d)
        BY <1>2, <1>3, <1>4
    <2> QED
        BY <1>3, <1>4, <2>1, <2>2
<1>6. UpTo(c, S) = SubSeq(c, 1, Len(d))
    BY <1>3, <1>5 DEF UpTo
<1>7. SubSeq(c, 1, Len(d)) = d
    <2>1. SubSeq(c, 1, Len(d)) \in Seq(T) /\ Len(SubSeq(c, 1, Len(d))) = Len(d)
          /\ \A k \in 1 .. Len(d) : SubSeq(c, 1, Len(d))[k] = c[k]
        BY <1>2
    <2> QED
        BY <1>2, <2>1, SeqEqual
<1> QED
    BY <1>1, <1>6, <1>7

LEMMA UpToAll ==
    ASSUME NEW T, NEW d \in Seq(T), NEW S, \A k \in 1 .. Len(d) : d[k] \notin S
    PROVE  UpTo(d, S) = d
<1>1. {i \in DOMAIN d : d[i] \in S} = {}
    OBVIOUS
<1> QED
    BY <1>1 DEF UpTo

\* s stopped at its end, which is in S, or holds nothing in S.
StopsAt(s, S) == /\ s # <<>> /\ s[Len(s)] \in S
                 /\ \A k \in 1 .. Len(s) - 1 : s[k] \notin S
Passes(s, S) == \A k \in 1 .. Len(s) : s[k] \notin S

\* What is put together in either order is the same.
Sums(a, b, c) == (a \o b) \o c = a \o (b \o c)

LEMMA SeqSums ==
    ASSUME NEW T, NEW a \in Seq(T), NEW b \in Seq(T), NEW c \in Seq(T)
    PROVE  Sums(a, b, c)
BY ConcatAssociative DEF Sums

\* A walk that goes on.
LEMMA PassesOn ==
    ASSUME NEW T, NEW d \in Seq(T), NEW e \in Seq(T), NEW S, Passes(d, S)
    PROVE  /\ Passes(e, S) => Passes(d \o e, S)
           /\ StopsAt(e, S) => StopsAt(d \o e, S)
<1>0. d \o e \in Seq(T)
    OBVIOUS
<1>1. PICK c \in Seq(T) : c = d \o e
    BY <1>0
<1>2. /\ Len(d) \in Nat /\ Len(e) \in Nat /\ Len(c) = Len(d) + Len(e)
      /\ \A k \in 1 .. Len(d) : c[k] = d[k]
      /\ \A k \in 1 .. Len(e) : c[Len(d) + k] = e[k]
    BY <1>1
<1>3. ASSUME NEW m \in Nat, m <= Len(e), \A k \in 1 .. m : e[k] \notin S
      PROVE  \A k \in 1 .. Len(d) + m : c[k] \notin S
    <2>1. ASSUME NEW k \in 1 .. Len(d) + m PROVE c[k] \notin S
        <3>1. CASE k <= Len(d)
            <4>1. k \in 1 .. Len(d)
                BY <1>2, <3>1
            <4> QED
                BY <1>2, <4>1 DEF Passes
        <3>2. CASE ~(k <= Len(d))
            <4>1. k - Len(d) \in 1 .. m /\ k - Len(d) \in 1 .. Len(e) /\ Len(d) + (k - Len(d)) = k
                BY <1>2, <1>3, <3>2
            <4>2. c[k] = e[k - Len(d)]
                BY <1>2, <4>1
            <4> QED
                BY <1>3, <4>1, <4>2
        <3> QED
            BY <3>1, <3>2
    <2> QED
        BY <2>1
<1>4. ASSUME Passes(e, S) PROVE Passes(c, S)
    <2>1. Len(e) <= Len(e) /\ \A k \in 1 .. Len(e) : e[k] \notin S
        BY <1>2, <1>4 DEF Passes
    <2>2. \A k \in 1 .. Len(d) + Len(e) : c[k] \notin S
        BY <1>2, <1>3, <2>1
    <2> QED
        BY <1>2, <2>2 DEF Passes
<1>5. ASSUME StopsAt(e, S) PROVE StopsAt(c, S)
    <2>1. Len(e) >= 1 /\ Len(e) - 1 \in Nat /\ Len(e) - 1 <= Len(e)
        BY <1>2, <1>5 DEF StopsAt
    <2>2. \A k \in 1 .. Len(d) + (Len(e) - 1) : c[k] \notin S
        BY <1>3, <1>5, <2>1 DEF StopsAt
    <2>3. c[Len(c)] = e[Len(e)] /\ c # <<>> /\ Len(c) - 1 = Len(d) + (Len(e) - 1)
        BY <1>2, <2>1
    <2> QED
        BY <1>5, <2>2, <2>3 DEF StopsAt
<1> QED
    BY <1>1, <1>4, <1>5

LEMMA OneStep ==
    ASSUME NEW T, NEW x \in T, NEW S
    PROVE  /\ <<x>> \in Seq(T)
           /\ x \in S => StopsAt(<<x>>, S)
           /\ x \notin S => Passes(<<x>>, S)
BY DEF StopsAt, Passes

\* The n-th row of the stream, where there is one.
StreamRow(tab, t, w, n) ==
    IF t + 1 - n \in DOMAIN tab.checkpoints THEN StepWalk(tab, t, w, t + 1 - n) ELSE w

StreamsTo(f, tab, t, n) ==
    f = [i \in 0 .. n |-> IF i = 0 THEN Fresh ELSE StreamRow(tab, t, f[i - 1], i)]

LEMMA StreamsExist ==
    ASSUME NEW tab, NEW t, NEW n \in Nat
    PROVE  \E f : StreamsTo(f, tab, t, n)
<1> DEFINE Bad == {k \in Nat : ~ \E f : StreamsTo(f, tab, t, k)}
<1> SUFFICES ASSUME n \in Bad PROVE FALSE
    OBVIOUS
<1>1. PICK k \in Bad : \A m \in Bad : k <= m
    BY NatMin
<1>2. k # 0
    <2> DEFINE f == [i \in 0 .. 0 |-> Fresh]
    <2>1. f = [i \in 0 .. 0 |-> IF i = 0 THEN Fresh ELSE StreamRow(tab, t, f[i - 1], i)]
        OBVIOUS
    <2>2. StreamsTo(f, tab, t, 0)
        BY <2>1 DEF StreamsTo
    <2> QED
        BY <2>2
<1>3. k \in Nat /\ k - 1 \in Nat /\ ~(k <= k - 1)
    BY <1>2
<1>4. PICK f : StreamsTo(f, tab, t, k - 1)
    BY <1>1, <1>3
<1>5. f = [i \in 0 .. k - 1 |-> IF i = 0 THEN Fresh ELSE StreamRow(tab, t, f[i - 1], i)]
    BY <1>4 DEF StreamsTo
<1> DEFINE g == [i \in 0 .. k |-> IF i = 0 THEN Fresh ELSE StreamRow(tab, t, f[i - 1], i)]
<1>6. ASSUME NEW i \in 0 .. k - 1 PROVE g[i] = f[i] /\ i \in 0 .. k
    <2>1. f[i] = IF i = 0 THEN Fresh ELSE StreamRow(tab, t, f[i - 1], i)
        BY <1>5
    <2>2. i \in 0 .. k
        BY <1>3
    <2> QED
        BY <2>1, <2>2
<1>7. \A i \in 0 .. k : i # 0 => i - 1 \in 0 .. k - 1
    BY <1>3
<1>8. \A i \in 0 .. k : g[i] = IF i = 0 THEN Fresh ELSE StreamRow(tab, t, g[i - 1], i)
    BY <1>6, <1>7
<1>9. g = [i \in 0 .. k |-> g[i]]
    OBVIOUS
<1> HIDE DEF g
<1>10. g = [i \in 0 .. k |-> IF i = 0 THEN Fresh ELSE StreamRow(tab, t, g[i - 1], i)]
    BY <1>8, <1>9
<1>11. StreamsTo(g, tab, t, k)
    BY <1>10 DEF StreamsTo
<1> QED
    BY <1>1, <1>11

LEMMA StreamedIs ==
    ASSUME NEW tab, NEW t \in Nat
    PROVE  /\ Streamed(tab, t)[0] = Fresh
           /\ \A n \in 1 .. t : Streamed(tab, t)[n] = StreamRow(tab, t, Streamed(tab, t)[n - 1], n)
<1> DEFINE f == Streamed(tab, t)
<1>1. f = CHOOSE g : g = [i \in 0 .. t |-> IF i = 0 THEN Fresh ELSE StreamRow(tab, t, g[i - 1], i)]
    BY DEF Streamed, StreamRow
<1>2. \E g : g = [i \in 0 .. t |-> IF i = 0 THEN Fresh ELSE StreamRow(tab, t, g[i - 1], i)]
    <2>1. PICK g : StreamsTo(g, tab, t, t)
        BY StreamsExist
    <2> QED
        BY <2>1 DEF StreamsTo
<1>3. f = [i \in 0 .. t |-> IF i = 0 THEN Fresh ELSE StreamRow(tab, t, f[i - 1], i)]
    BY <1>1, <1>2, Zenon
<1> HIDE DEF f
<1>4. 0 \in 0 .. t /\ \A n \in 1 .. t : n \in 0 .. t /\ n # 0
    OBVIOUS
<1>5. f[0] = Fresh /\ \A n \in 1 .. t : f[n] = StreamRow(tab, t, f[n - 1], n)
    BY <1>3, <1>4
<1> QED
    BY <1>5 DEF f

\* The tuples that hold a value of the delta channel.
Holding(tuples) == {i \in DOMAIN tuples : tuples[i].values["delta"] # Absent}

\* What a table of checkpoints with their parents is.
Forest(tuples) == Tree(Parents(tuples)) /\ \E n \in Nat : \A i \in DOMAIN tuples : i <= n

LEMMA ForestFacts ==
    ASSUME NEW tuples, Forest(tuples)
    PROVE  /\ DOMAIN tuples \subseteq Nat \ {NoId}
           /\ \A i \in DOMAIN tuples : /\ tuples[i].parent \in DOMAIN tuples \cup {NoId}
                                       /\ tuples[i].parent < i
           /\ Chains(Parents(tuples))[NoId] = <<>>
           /\ \A i \in DOMAIN tuples :
                 Chains(Parents(tuples))[i] = <<i>> \o Chains(Parents(tuples))[tuples[i].parent]
           /\ \A i \in DOMAIN tuples \cup {NoId} : Chains(Parents(tuples))[i] \in Seq(DOMAIN tuples)
           /\ \A i \in DOMAIN tuples : Ancestors(Parents(tuples), i) = Chains(Parents(tuples))[tuples[i].parent]
<1> DEFINE P == Parents(tuples)
<1>1. DOMAIN P = DOMAIN tuples /\ \A i \in DOMAIN tuples : P[i] = tuples[i].parent
    BY DEF Parents
<1>2. Tree(P)
    BY DEF Forest
<1>3. PICK n \in Nat : \A i \in DOMAIN tuples : i <= n
    BY DEF Forest
<1> HIDE DEF P
<1>4. /\ Chains(P)[NoId] = <<>>
      /\ \A i \in DOMAIN P : Chains(P)[i] = <<i>> \o Chains(P)[P[i]]
    BY <1>1, <1>2, <1>3, ChainsAre
<1>5. \A i \in DOMAIN P \cup {NoId} : Chains(P)[i] \in Seq(DOMAIN P)
    BY <1>1, <1>2, <1>3, ChainsTyped
<1>6. /\ DOMAIN P \subseteq Nat \ {NoId}
      /\ \A i \in DOMAIN P : P[i] \in DOMAIN P \cup {NoId} /\ P[i] < i
    BY <1>2 DEF Tree
<1>7. \A i \in DOMAIN tuples : Ancestors(P, i) = Chains(P)[tuples[i].parent]
    BY <1>1 DEF Ancestors
<1>8. \A i \in DOMAIN tuples : Chains(P)[i] = <<i>> \o Chains(P)[tuples[i].parent]
    BY <1>1, <1>4
<1>9. \A i \in DOMAIN tuples \cup {NoId} : Chains(P)[i] \in Seq(DOMAIN tuples)
    BY <1>1, <1>5
<1>10. /\ DOMAIN tuples \subseteq Nat \ {NoId}
       /\ \A i \in DOMAIN tuples : tuples[i].parent \in DOMAIN tuples \cup {NoId} /\ tuples[i].parent < i
    BY <1>1, <1>6
<1> QED
    BY <1>4, <1>7, <1>8, <1>9, <1>10 DEF P

\* Where the stream of SQLite is after m rows.
SqlSeeks(tab, t, w, m) ==
    LET held  == Holding(tab.checkpoints)
        chain == w.chain
    IN  /\ w = [started |-> TRUE, cur |-> w.cur, chain |-> chain, seed |-> w.seed]
        /\ chain \in Seq(DOMAIN tab.checkpoints) /\ w.cur \in DOMAIN tab.checkpoints \cup {NoId}
        /\ Ancestors(Parents(tab.checkpoints), t) = chain \o Chains(Parents(tab.checkpoints))[w.cur]
        /\ w.seed # Absent => StopsAt(chain, held) /\ w.seed = tab.checkpoints[chain[Len(chain)]].values["delta"]
        /\ w.seed = Absent => Passes(chain, held) /\ w.cur <= t - m

LEMMA SqlFirstRow ==
    ASSUME NEW tab, Forest(tab.checkpoints), NEW t \in DOMAIN tab.checkpoints
    PROVE  SqlSeeks(tab, t, StreamRow(tab, t, Fresh, 1), 1)
<1> DEFINE w == StreamRow(tab, t, Fresh, 1)
           p == tab.checkpoints[t].parent
<1>1. /\ t \in Nat /\ p \in DOMAIN tab.checkpoints \cup {NoId} /\ p < t /\ p \in Nat
      /\ Ancestors(Parents(tab.checkpoints), t) = Chains(Parents(tab.checkpoints))[p]
      /\ Chains(Parents(tab.checkpoints))[p] \in Seq(DOMAIN tab.checkpoints)
    BY ForestFacts DEF NoId
<1>2. t + 1 - 1 = t
    BY <1>1
<1>3. w = [started |-> TRUE, cur |-> p, chain |-> <<>>, seed |-> Absent]
    BY <1>2 DEF StreamRow, StepWalk, Fresh
<1> HIDE DEF w
<1>4. Passes(<<>>, Holding(tab.checkpoints)) /\ <<>> \in Seq(DOMAIN tab.checkpoints)
    BY DEF Passes
<1>5. <<>> \o Chains(Parents(tab.checkpoints))[p] = Chains(Parents(tab.checkpoints))[p]
    BY <1>1
<1>6. p <= t - 1
    BY <1>1
<1> HIDE DEF p
<1>7. /\ w.started = TRUE /\ w.cur = p /\ w.chain = <<>> /\ w.seed = Absent
    BY <1>3
<1> QED
    BY <1>1, <1>3, <1>4, <1>5, <1>6, <1>7 DEF SqlSeeks, w

\* The row that continues the walk.
LEMMA SqlFoundRow ==
    ASSUME NEW tab, Forest(tab.checkpoints), NEW t \in DOMAIN tab.checkpoints,
           NEW m \in Nat, NEW w, SqlSeeks(tab, t, w, m),
           NEW c \in DOMAIN tab.checkpoints, w.seed = Absent, c = w.cur, c = t - m, c # t,
           NEW v, v = tab.checkpoints[c].values["delta"],
           NEW u, u = [started |-> TRUE, cur |-> tab.checkpoints[c].parent,
                       chain |-> Append(w.chain, c), seed |-> v]
    PROVE  SqlSeeks(tab, t, u, m + 1)
<1>1. PICK D : D = DOMAIN tab.checkpoints
    OBVIOUS
<1>2. PICK C : C = Chains(Parents(tab.checkpoints))
    OBVIOUS
<1>3. PICK held : held = Holding(tab.checkpoints)
    OBVIOUS
<1>4. PICK p : p = tab.checkpoints[c].parent
    OBVIOUS
<1>5. PICK s : s = w.chain
    OBVIOUS
<1>6. PICK d : d = Append(s, c)
    OBVIOUS
<1>7. /\ s \in Seq(D) /\ Passes(s, held)
      /\ Ancestors(Parents(tab.checkpoints), t) = s \o C[c]
    BY <1>1, <1>2, <1>3, <1>5 DEF SqlSeeks
<1>8. /\ C[c] = <<c>> \o C[p] /\ C[p] \in Seq(D) /\ p \in D \cup {NoId} /\ p < c
      /\ D \subseteq Nat \ {NoId}
    <2>1. p \in D \cup {NoId} /\ p < c /\ D \subseteq Nat \ {NoId}
        BY <1>1, <1>4, ForestFacts
    <2>2. C[c] = <<c>> \o C[p]
        BY <1>2, <1>4, ForestFacts
    <2>3. C[p] \in Seq(D)
        BY <1>1, <1>2, <2>1, ForestFacts
    <2> QED
        BY <2>1, <2>2, <2>3
<1>9. c \in D /\ t \in Nat /\ c \in Nat /\ p \in Nat
    BY <1>1, <1>8 DEF NoId
<1>10. /\ <<c>> \in Seq(D) /\ d = s \o <<c>> /\ d \in Seq(D) /\ Len(d) = Len(s) + 1
       /\ d[Len(d)] = c
    <2>1. d = s \o <<c>>
        BY <1>6, <1>7, <1>9, AppendIsConcat
    <2>2. <<c>> \in Seq(D) /\ d \in Seq(D) /\ Len(d) = Len(s) + 1 /\ d[Len(d)] = c
        BY <1>6, <1>7, <1>9, AppendProperties
    <2> QED
        BY <2>1, <2>2
<1>11. s \o C[c] = d \o C[p]
    <2>1. s \o (<<c>> \o C[p]) = (s \o <<c>>) \o C[p]
        <3>1. PICK e \in Seq(D) : e = C[p]
            BY <1>8
        <3>2. s \in Seq(D) /\ c \in D
            BY <1>7, <1>9
        <3>3. PICK x \in Seq(D) : x = <<c>>
            BY <1>10
        <3>4. s \o (x \o e) = (s \o x) \o e
            <4>1. Sums(s, x, e)
                BY <3>2, SeqSums, Zenon
            <4> QED
                BY <4>1, Zenon DEF Sums
        <3> QED
            BY <3>1, <3>3, <3>4
    <2> QED
        BY <1>8, <1>10, <2>1
<1>12. c \in held <=> v # Absent
    BY <1>3 DEF Holding
<1>13. v # Absent => StopsAt(d, held)
    <2>1. ASSUME v # Absent PROVE StopsAt(<<c>>, held)
        BY <1>9, <1>12, <2>1, OneStep
    <2> QED
        BY <1>7, <1>10, <2>1, PassesOn
<1>14. v = Absent => Passes(d, held)
    <2>1. ASSUME v = Absent PROVE Passes(<<c>>, held)
        BY <1>9, <1>12, <2>1, OneStep
    <2> QED
        BY <1>7, <1>10, <2>1, PassesOn
<1>15. p <= t - (m + 1)
    BY <1>8, <1>9
<1>16. u = [started |-> TRUE, cur |-> p, chain |-> d, seed |-> v]
    BY <1>4, <1>5, <1>6
<1>17. /\ u.cur = p /\ u.chain = d /\ u.seed = v
       /\ u = [started |-> TRUE, cur |-> u.cur, chain |-> u.chain, seed |-> u.seed]
    BY <1>16
<1>18. v = tab.checkpoints[d[Len(d)]].values["delta"]
    BY <1>10
<1>19. Ancestors(Parents(tab.checkpoints), t) = u.chain \o Chains(Parents(tab.checkpoints))[u.cur]
    BY <1>2, <1>7, <1>11, <1>17
<1>20. u.chain \in Seq(DOMAIN tab.checkpoints) /\ u.cur \in DOMAIN tab.checkpoints \cup {NoId}
    BY <1>1, <1>8, <1>10, <1>17
<1>21. u.seed # Absent => /\ StopsAt(u.chain, Holding(tab.checkpoints))
                 /\ u.seed = tab.checkpoints[u.chain[Len(u.chain)]].values["delta"]
    BY <1>3, <1>13, <1>17, <1>18
<1>22. u.seed = Absent => Passes(u.chain, Holding(tab.checkpoints)) /\ u.cur <= t - (m + 1)
    BY <1>3, <1>14, <1>15, <1>17
<1> QED
    BY <1>17, <1>19, <1>20, <1>21, <1>22, Zenon DEF SqlSeeks

LEMMA SqlNextRow ==
    ASSUME NEW tab, Forest(tab.checkpoints), NEW t \in DOMAIN tab.checkpoints,
           NEW m \in 1 .. t - 1, NEW w, SqlSeeks(tab, t, w, m)
    PROVE  SqlSeeks(tab, t, StreamRow(tab, t, w, m + 1), m + 1)
<1>1. PICK c : c = t + 1 - (m + 1)
    OBVIOUS
<1>2. t \in Nat /\ m \in Nat /\ c = t - m /\ c # t
    BY <1>1, ForestFacts
<1>3. w.cur \in Nat
    <2>1. w.cur \in DOMAIN tab.checkpoints \cup {NoId}
        BY DEF SqlSeeks
    <2> QED
        BY <2>1, ForestFacts DEF NoId
<1>4. w = [started |-> TRUE, cur |-> w.cur, chain |-> w.chain, seed |-> w.seed]
    BY DEF SqlSeeks
<1>5. CASE c \notin DOMAIN tab.checkpoints \/ w.seed # Absent \/ c # w.cur
    <2>1. StreamRow(tab, t, w, m + 1) = w
        <3>1. StepWalk(tab, t, w, c) = w \/ c \notin DOMAIN tab.checkpoints
            BY <1>2, <1>4, <1>5 DEF StepWalk, OnPath
        <3> QED
            BY <1>1, <3>1 DEF StreamRow
    <2>2. w.seed = Absent => w.cur <= t - (m + 1)
        <3>1. ASSUME w.seed = Absent PROVE w.cur # c /\ w.cur <= t - m
            <4>1. w.cur = NoId \/ w.cur \in DOMAIN tab.checkpoints
                BY DEF SqlSeeks
            <4>2. c # NoId
                BY <1>2 DEF NoId
            <4>3. w.cur <= t - m
                BY <3>1 DEF SqlSeeks
            <4> QED
                BY <1>5, <3>1, <4>1, <4>2, <4>3
        <3> QED
            BY <1>2, <1>3, <3>1
    <2>3. SqlSeeks(tab, t, w, m + 1)
        BY <2>2 DEF SqlSeeks
    <2> QED
        BY <2>1, <2>3
<1>6. CASE c \in DOMAIN tab.checkpoints /\ w.seed = Absent /\ c = w.cur
    <2>1. PICK v : v = tab.checkpoints[c].values["delta"]
        OBVIOUS
    <2>2. PICK u : u = [started |-> TRUE, cur |-> tab.checkpoints[c].parent,
                        chain |-> Append(w.chain, c), seed |-> v]
        OBVIOUS
    <2>3. w.started /\ w.seed = Absent
        BY <1>4, <1>6
    <2>4. StepWalk(tab, t, w, c) = u
        BY <1>6, <2>1, <2>2, <2>3 DEF StepWalk, OnPath
    <2>5. StreamRow(tab, t, w, m + 1) = u
        BY <1>1, <1>6, <2>4 DEF StreamRow
    <2> QED
        BY <1>2, <1>6, <2>1, <2>2, <2>5, SqlFoundRow
<1> QED
    BY <1>5, <1>6

\* The walk from t is over: it has found a seed, or the first checkpoint.
Ends(tuples, t, chain, seed) ==
    /\ chain \in Seq(DOMAIN tuples)
    /\ \/ /\ \E e \in Seq(DOMAIN tuples) : Ancestors(Parents(tuples), t) = chain \o e
          /\ StopsAt(chain, Holding(tuples))
          /\ seed = tuples[chain[Len(chain)]].values["delta"]
       \/ /\ Ancestors(Parents(tuples), t) = chain
          /\ Passes(chain, Holding(tuples)) /\ seed = Absent

\* The walk of BaseCheckpointSaver, with the rows ws of every checkpoint sorted.
SortedHistory(tuples, ws, t) ==
    LET chain == UpTo(Ancestors(Parents(tuples), t), Holding(tuples))
    IN  History(IF chain = <<>> THEN Absent ELSE tuples[Last(chain)].values["delta"],
                RowsOf(ws, chain))

\* That is what it returns.
LEMMA WalkEnds ==
    ASSUME NEW tuples, NEW t, NEW ws, NEW chain, NEW seed, Ends(tuples, t, chain, seed)
    PROVE  SortedHistory(tuples, ws, t) = History(seed, RowsOf(ws, chain))
<1>1. PICK D : D = DOMAIN tuples
    OBVIOUS
<1>2. PICK A : A = Ancestors(Parents(tuples), t)
    OBVIOUS
<1>3. PICK held : held = Holding(tuples)
    OBVIOUS
<1>4. held = {i \in DOMAIN tuples : tuples[i].values["delta"] # Absent}
    BY <1>3 DEF Holding
<1>5. SortedHistory(tuples, ws, t)
      = History(IF UpTo(A, held) = <<>> THEN Absent ELSE tuples[Last(UpTo(A, held))].values["delta"],
                RowsOf(ws, UpTo(A, held)))
    BY <1>2, <1>3 DEF SortedHistory
<1>6. chain \in Seq(D)
    BY <1>1 DEF Ends
<1>7. CASE /\ \E e \in Seq(D) : A = chain \o e
           /\ StopsAt(chain, held)
           /\ seed = tuples[chain[Len(chain)]].values["delta"]
    <2>1. PICK e \in Seq(D) : A = chain \o e
        BY <1>7
    <2>2. chain # <<>> /\ chain[Len(chain)] \in held /\ \A k \in 1 .. Len(chain) - 1 : chain[k] \notin held
        BY <1>7 DEF StopsAt
    <2>3. UpTo(A, held) = chain
        BY <1>6, <2>1, <2>2, UpToIs
    <2>4. Last(chain) = chain[Len(chain)]
        BY DEF Last
    <2> QED
        BY <1>5, <1>7, <2>2, <2>3, <2>4
<1>8. CASE A = chain /\ Passes(chain, held) /\ seed = Absent
    <2>1. \A k \in 1 .. Len(chain) : chain[k] \notin held
        BY <1>8 DEF Passes
    <2>2. UpTo(A, held) = chain
        BY <1>6, <1>8, <2>1, UpToAll
    <2>3. ASSUME chain # <<>> PROVE tuples[Last(chain)].values["delta"] = Absent
        <3>1. Len(chain) \in 1 .. Len(chain) /\ chain[Len(chain)] \in D
            BY <1>6, <2>3
        <3>2. chain[Len(chain)] \notin held
            BY <2>1, <3>1
        <3>3. tuples[chain[Len(chain)]].values["delta"] = Absent
            BY <1>1, <1>4, <3>1, <3>2
        <3> QED
            BY <3>3 DEF Last
    <2> QED
        BY <1>5, <1>8, <2>2, <2>3
<1>9. \/ /\ \E e \in Seq(D) : A = chain \o e
         /\ StopsAt(chain, held)
         /\ seed = tuples[chain[Len(chain)]].values["delta"]
      \/ A = chain /\ Passes(chain, held) /\ seed = Absent
    BY <1>1, <1>2, <1>3, Zenon DEF Ends
<1>10. SortedHistory(tuples, ws, t) = History(seed, RowsOf(ws, chain))
    BY <1>7, <1>8, <1>9, Zenon
<1> QED
    BY <1>10

\* The stream of SQLite ends so.
LEMMA SqlSeeksAll ==
    ASSUME NEW tab, Forest(tab.checkpoints), NEW t \in DOMAIN tab.checkpoints
    PROVE  SqlSeeks(tab, t, Streamed(tab, t)[t], t)
<1>1. t \in Nat /\ t >= 1
    BY ForestFacts DEF NoId
<1>2. PICK f : f = Streamed(tab, t)
    OBVIOUS
<1>3. f[0] = Fresh /\ \A n \in 1 .. t : f[n] = StreamRow(tab, t, f[n - 1], n)
    BY <1>1, <1>2, StreamedIs
<1> DEFINE Bad == {m \in 1 .. t : ~SqlSeeks(tab, t, f[m], m)}
<1>4. SUFFICES ASSUME Bad # {} PROVE FALSE
    BY <1>1, <1>2
<1>5. PICK m \in Bad : \A k \in Bad : m <= k
    <2>1. Bad \in SUBSET Nat
        BY <1>1
    <2> QED
        BY <1>4, <2>1, NatMin
<1>6. m \in 1 .. t /\ ~SqlSeeks(tab, t, f[m], m)
    OBVIOUS
<1>7. CASE m = 1
    <2>1. f[1] = StreamRow(tab, t, Fresh, 1)
        BY <1>1, <1>3
    <2> QED
        BY <1>6, <1>7, <2>1, SqlFirstRow
<1>8. CASE m # 1
    <2>1. PICK k : k = m - 1
        OBVIOUS
    <2>2. k \in 1 .. t - 1 /\ k + 1 = m /\ k \in 1 .. t /\ ~(m <= k)
        BY <1>1, <1>6, <1>8, <2>1
    <2>3. SqlSeeks(tab, t, f[k], k)
        BY <1>5, <2>2
    <2>4. SqlSeeks(tab, t, StreamRow(tab, t, f[k], k + 1), k + 1)
        BY <2>2, <2>3, SqlNextRow
    <2>5. f[m] = StreamRow(tab, t, f[k], m)
        BY <1>3, <1>6, <2>1
    <2> QED
        BY <1>6, <2>2, <2>4, <2>5
<1> QED
    BY <1>7, <1>8

\* The SQLite saver returns what the walk from tuple to tuple returns.
LEMMA SqlWalks ==
    ASSUME NEW tab, Forest(tab.checkpoints), NEW t \in DOMAIN tab.checkpoints, NEW ws,
           NEW w, w = Streamed(tab, t)[t]
    PROVE  Ends(tab.checkpoints, t, w.chain, w.seed)
<1>1. SqlSeeks(tab, t, w, t)
    BY SqlSeeksAll
<1>2. PICK D : D = DOMAIN tab.checkpoints
    OBVIOUS
<1>3. PICK C : C = Chains(Parents(tab.checkpoints))
    OBVIOUS
<1>4. PICK held : held = Holding(tab.checkpoints)
    OBVIOUS
<1>5. PICK s : s = w.chain
    OBVIOUS
<1>6. PICK A : A = Ancestors(Parents(tab.checkpoints), t)
    OBVIOUS
<1>7. /\ s \in Seq(D) /\ w.cur \in D \cup {NoId} /\ A = s \o C[w.cur]
      /\ w.seed # Absent => StopsAt(s, held) /\ w.seed = tab.checkpoints[s[Len(s)]].values["delta"]
      /\ w.seed = Absent => Passes(s, held) /\ w.cur <= t - t
    BY <1>1, <1>2, <1>3, <1>4, <1>5, <1>6 DEF SqlSeeks
<1>8. C[w.cur] \in Seq(D)
    BY <1>2, <1>3, <1>7, ForestFacts
<1>9. ASSUME w.seed = Absent PROVE A = s
    <2>1. w.cur <= t - t /\ w.cur \in D \cup {NoId} /\ D \subseteq Nat \ {NoId} /\ t \in Nat
        BY <1>2, <1>7, <1>9, ForestFacts
    <2>2. w.cur = NoId
        <3>1. PICK x : x = w.cur
            OBVIOUS
        <3>2. x <= t - t /\ (x = NoId \/ x \in D)
            BY <2>1, <3>1
        <3>3. x = NoId \/ x \in Nat
            BY <2>1, <3>2
        <3> QED
            BY <2>1, <3>1, <3>2, <3>3 DEF NoId
    <2>3. C[NoId] = <<>>
        BY <1>3, ForestFacts
    <2> QED
        BY <1>7, <2>2, <2>3
<1> QED
    BY <1>2, <1>4, <1>5, <1>6, <1>7, <1>8, <1>9, Zenon DEF Ends

\* Where a walk ends does not depend on what else the tuples hold.
LEMMA EndsAlike ==
    ASSUME NEW A, NEW B, NEW t, NEW chain, NEW seed, Ends(A, t, chain, seed),
           DOMAIN A = DOMAIN B, Parents(A) = Parents(B),
           \A k \in 1 .. Len(chain) : chain[k] \in Holding(A) <=> chain[k] \in Holding(B),
           chain # <<>> => A[chain[Len(chain)]].values["delta"] = B[chain[Len(chain)]].values["delta"]
    PROVE  Ends(B, t, chain, seed)
<1>1. chain \in Seq(DOMAIN B) /\ Len(chain) \in Nat /\ (chain # <<>> => Len(chain) \in 1 .. Len(chain))
    BY DEF Ends
<1>2. StopsAt(chain, Holding(A)) => StopsAt(chain, Holding(B))
    <2>1. \A k \in 1 .. Len(chain) - 1 : k \in 1 .. Len(chain)
        BY <1>1
    <2> QED
        BY <1>1, <2>1 DEF StopsAt
<1>3. Passes(chain, Holding(A)) => Passes(chain, Holding(B))
    BY DEF Passes
<1>4. StopsAt(chain, Holding(A)) => chain # <<>>
    BY DEF StopsAt
<1>5. \/ /\ \E e \in Seq(DOMAIN A) : Ancestors(Parents(A), t) = chain \o e
         /\ StopsAt(chain, Holding(A))
         /\ seed = A[chain[Len(chain)]].values["delta"]
      \/ /\ Ancestors(Parents(A), t) = chain
         /\ Passes(chain, Holding(A)) /\ seed = Absent
    BY Zenon DEF Ends
<1>6. \/ /\ \E e \in Seq(DOMAIN B) : Ancestors(Parents(B), t) = chain \o e
         /\ StopsAt(chain, Holding(B))
         /\ seed = B[chain[Len(chain)]].values["delta"]
      \/ /\ Ancestors(Parents(B), t) = chain
         /\ Passes(chain, Holding(B)) /\ seed = Absent
    <2>1. CASE /\ \E e \in Seq(DOMAIN A) : Ancestors(Parents(A), t) = chain \o e
               /\ StopsAt(chain, Holding(A))
               /\ seed = A[chain[Len(chain)]].values["delta"]
        <3>1. PICK e \in Seq(DOMAIN B) : Ancestors(Parents(B), t) = chain \o e
            BY <2>1
        <3>2. StopsAt(chain, Holding(B)) /\ seed = B[chain[Len(chain)]].values["delta"]
            BY <1>2, <1>4, <2>1
        <3> QED
            BY <3>1, <3>2, Zenon
    <2>2. CASE /\ Ancestors(Parents(A), t) = chain
               /\ Passes(chain, Holding(A)) /\ seed = Absent
        BY <1>3, <2>2, Zenon
    <2> QED
        BY <1>5, <2>1, <2>2, Zenon
<1> QED
    BY <1>1, <1>6, Zenon DEF Ends

-----------------------------------------------------------------------------
(* The same history from every saver.                                      *)

Lineage == [i \in Stored |-> given[i].parent]

\* The tuples that a saver returns for the checkpoints of the thread.
SqlTuples == [i \in Stored |-> Tuple("sql", i)]
MemTuples == [i \in Stored |-> Tuple("mem", i)]
PgTuples  == [i \in Stored |-> Tuple("pg", i)]

LEMMA LineageIs ==
    ASSUME Ids, ParentInv
    PROVE  /\ Tree(Lineage) /\ DOMAIN Lineage = Stored
           /\ puts \in Nat /\ \A i \in Stored : i <= puts
           /\ Chains(Lineage)[NoId] = <<>>
           /\ \A i \in Stored : Chains(Lineage)[i] = <<i>> \o Chains(Lineage)[given[i].parent]
           /\ \A i \in Stored \cup {NoId} : Chains(Lineage)[i] \in Seq(Stored)
           /\ \A i \in Stored : Ancestors(Lineage, i) = Chains(Lineage)[given[i].parent]
<1> DEFINE P == Lineage
<1>1. DOMAIN P = Stored /\ \A i \in Stored : P[i] = given[i].parent
    BY DEF Lineage
<1>2. puts \in Nat /\ Stored \subseteq Nat \ {NoId} /\ \A i \in Stored : i <= puts
    BY DEF Ids, NoId
<1>3. Tree(P)
    BY <1>1, <1>2 DEF Tree, ParentInv
<1> HIDE DEF P
<1>4. Chains(P)[NoId] = <<>> /\ \A i \in DOMAIN P : Chains(P)[i] = <<i>> \o Chains(P)[P[i]]
    BY <1>1, <1>2, <1>3, ChainsAre
<1>5. \A i \in DOMAIN P \cup {NoId} : Chains(P)[i] \in Seq(DOMAIN P)
    BY <1>1, <1>2, <1>3, ChainsTyped
<1>6. \A i \in Stored : Ancestors(P, i) = Chains(P)[given[i].parent]
    BY <1>1 DEF Ancestors
<1>7. \A i \in Stored : Chains(P)[i] = <<i>> \o Chains(P)[given[i].parent]
    BY <1>1, <1>4
<1> QED
    BY <1>1, <1>2, <1>3, <1>4, <1>5, <1>6, <1>7 DEF P

\* SqliteSaver returns what the walk of BaseCheckpointSaver does.
LEMMA SqlSame ==
    ASSUME Ids, ParentInv, SqlInv, NEW t \in Stored
    PROVE  /\ SqlHistory(sql, t) = SortedHistory(SqlTuples, sql.writes, t)
           /\ \E chain, seed : Ends(SqlTuples, t, chain, seed)
<1>1. PICK C : C = sql.checkpoints
    OBVIOUS
<1>2. /\ DOMAIN C = Stored /\ DOMAIN SqlTuples = Stored
      /\ \A i \in Stored : /\ C[i].parent = given[i].parent
                           /\ SqlTuples[i].parent = given[i].parent
                           /\ C[i].values["delta"] = given[i].values["delta"]
                           /\ SqlTuples[i].values["delta"] = given[i].values["delta"]
    <2>1. \A i \in Stored : Tuple("sql", i) = SqlTuple(sql, i)
        BY SaverTuple
    <2>2. \A i \in Stored : /\ SqlTuple(sql, i).parent = given[i].parent
                            /\ SqlTuple(sql, i).values = given[i].values
        BY DEF SqlTuple, SqlInv
    <2> QED
        BY <1>1, <2>1, <2>2 DEF SqlTuples, SqlInv
<1>3. Parents(C) = Lineage /\ Parents(SqlTuples) = Lineage /\ Holding(C) = Holding(SqlTuples)
    <2>1. Parents(C) = [i \in Stored |-> C[i].parent] /\ Parents(SqlTuples) = [i \in Stored |-> SqlTuples[i].parent]
        BY <1>2 DEF Parents
    <2>2. Holding(C) = Holding(SqlTuples)
        BY <1>2 DEF Holding
    <2> QED
        BY <1>2, <2>1, <2>2 DEF Lineage
<1>4. Forest(C)
    <2>1. Tree(Lineage) /\ puts \in Nat /\ \A i \in Stored : i <= puts
        BY LineageIs
    <2> QED
        BY <1>2, <1>3, <2>1 DEF Forest
<1>5. PICK w : w = Streamed(sql, t)[t]
    OBVIOUS
<1>6. Ends(C, t, w.chain, w.seed)
    BY <1>1, <1>2, <1>4, <1>5, SqlWalks
<1>7. w.chain # <<>> => C[w.chain[Len(w.chain)]].values["delta"] = SqlTuples[w.chain[Len(w.chain)]].values["delta"]
    <2>1. w.chain \in Seq(Stored)
        BY <1>2, <1>6 DEF Ends
    <2>2. PICK s \in Seq(Stored) : s = w.chain
        BY <2>1
    <2>3. s # <<>> => s[Len(s)] \in Stored
        BY <2>2
    <2> QED
        BY <1>2, <2>2, <2>3
<1>8. Ends(SqlTuples, t, w.chain, w.seed)
    <2>1. DOMAIN C = DOMAIN SqlTuples /\ Parents(C) = Parents(SqlTuples)
        BY <1>2, <1>3
    <2> QED
        BY <1>3, <1>6, <1>7, <2>1, EndsAlike
<1>9. SqlHistory(sql, t) = History(w.seed, RowsOf(sql.writes, w.chain))
    BY <1>5 DEF SqlHistory
<1>10. SortedHistory(SqlTuples, sql.writes, t) = History(w.seed, RowsOf(sql.writes, w.chain))
    BY <1>8, WalkEnds
<1> QED
    BY <1>8, <1>9, <1>10

LEMMA ConsSet ==
    ASSUME NEW T, NEW x \in T, NEW e \in Seq(T)
    PROVE  ToSet(<<x>> \o e) = {x} \cup ToSet(e)
<1>0. <<x>> \o e \in Seq(T)
    OBVIOUS
<1>1. PICK s \in Seq(T) : s = <<x>> \o e
    BY <1>0
<1>2. /\ Len(e) \in Nat /\ Len(s) = Len(e) + 1 /\ s[1] = x
      /\ \A k \in 1 .. Len(e) : s[k + 1] = e[k]
      /\ DOMAIN s = 1 .. Len(s) /\ DOMAIN e = 1 .. Len(e)
    BY <1>1
<1>3. ASSUME NEW y \in ToSet(s) PROVE y \in {x} \cup ToSet(e)
    <2>1. PICK k \in DOMAIN s : y = s[k]
        BY DEF ToSet
    <2>2. ASSUME k # 1 PROVE y \in ToSet(e)
        <3>1. k - 1 \in 1 .. Len(e) /\ k - 1 + 1 = k
            BY <1>2, <2>2
        <3>2. s[k] = e[k - 1]
            BY <1>2, <3>1
        <3> QED
            BY <1>2, <2>1, <3>1, <3>2 DEF ToSet
    <2> QED
        BY <1>2, <2>1, <2>2
<1>4. x \in ToSet(s)
    <2>1. 1 \in DOMAIN s
        BY <1>2
    <2> QED
        BY <1>2, <2>1 DEF ToSet
<1>5. ASSUME NEW y \in ToSet(e) PROVE y \in ToSet(s)
    <2>1. PICK k \in DOMAIN e : y = e[k]
        BY DEF ToSet
    <2>2. k + 1 \in DOMAIN s /\ y = s[k + 1]
        BY <1>2, <2>1
    <2> QED
        BY <2>2 DEF ToSet
<1> QED
    BY <1>1, <1>3, <1>4, <1>5

\* A plain value of a version is the checkpoint's own, or its parent has that
\* version too.
PlainInv ==
    \A i \in Stored :
        BlobAt(mem, "delta", given[i].versions["delta"]).kind = "plain" =>
            \/ given[i].values["delta"].kind = "plain"
            \/ /\ given[i].parent \in Stored
               /\ given[given[i].parent].versions["delta"] = given[i].versions["delta"]

\* So it is the value of a checkpoint above.
LEMMA PlainAbove ==
    ASSUME Ids, ParentInv, PlainInv, NEW j \in Stored,
           BlobAt(mem, "delta", given[j].versions["delta"]).kind = "plain"
    PROVE  \E i \in ToSet(Chains(Lineage)[j]) : given[i].values["delta"].kind = "plain"
<1> DEFINE C == Chains(Lineage)
           Holds(i) == BlobAt(mem, "delta", given[i].versions["delta"]).kind = "plain"
           Bad == {i \in Stored : Holds(i) /\ ~ \E k \in ToSet(C[i]) : given[k].values["delta"].kind = "plain"}
<1>0. SUFFICES ASSUME Bad # {} PROVE FALSE
    OBVIOUS
<1>1. /\ Stored \in SUBSET Nat
      /\ \A i \in Stored : C[i] = <<i>> \o C[given[i].parent]
      /\ \A i \in Stored \cup {NoId} : C[i] \in Seq(Stored)
    <2>1. Stored \in SUBSET Nat
        BY DEF Ids
    <2> QED
        BY <2>1, LineageIs
<1>2. PICK i \in Bad : \A m \in Bad : i <= m
    <2>1. Bad \in SUBSET Nat
        BY <1>1
    <2> QED
        BY <1>0, <2>1, NatMin
<1>3. PICK p : p = given[i].parent
    OBVIOUS
<1>4. p \in Stored \cup {NoId} /\ p < i /\ i \in Nat /\ i \in Stored
    BY <1>1, <1>3 DEF ParentInv
<1> HIDE DEF C
<1>5. ToSet(C[i]) = {i} \cup ToSet(C[p])
    <2>1. C[p] \in Seq(Stored) /\ C[i] = <<i>> \o C[p]
        BY <1>1, <1>3, <1>4 DEF C
    <2> QED
        BY <1>4, <2>1, ConsSet
<1>6. given[i].values["delta"].kind # "plain"
    BY <1>2, <1>5
<1>7. p \in Stored /\ Holds(p)
    BY <1>3, <1>4, <1>6, <1>2 DEF PlainInv
<1>8. p \in Bad
    BY <1>2, <1>5, <1>7
<1>9. i <= p /\ p \in Nat
    BY <1>1, <1>2, <1>7, <1>8
<1> QED
    BY <1>4, <1>9

\* The chain of a checkpoint on the chain of t is part of it.
LEMMA ChainsNest ==
    ASSUME Ids, ParentInv, NEW t \in Stored, NEW j \in ToSet(Chains(Lineage)[t])
    PROVE  j \in Stored /\ ToSet(Chains(Lineage)[j]) \subseteq ToSet(Chains(Lineage)[t])
<1> DEFINE C == Chains(Lineage)
           Bad == {i \in Stored : \E k \in ToSet(C[i]) :
                                    k \notin Stored \/ ~(ToSet(C[k]) \subseteq ToSet(C[i]))}
<1>0. SUFFICES ASSUME Bad # {} PROVE FALSE
    OBVIOUS
<1>1. /\ Stored \in SUBSET Nat
      /\ \A i \in Stored : C[i] = <<i>> \o C[given[i].parent]
      /\ \A i \in Stored \cup {NoId} : C[i] \in Seq(Stored)
      /\ C[NoId] = <<>>
    <2>1. Stored \in SUBSET Nat
        BY DEF Ids
    <2> QED
        BY <2>1, LineageIs
<1>2. PICK i \in Bad : \A m \in Bad : i <= m
    <2>1. Bad \in SUBSET Nat
        BY <1>1
    <2> QED
        BY <1>0, <2>1, NatMin
<1>3. PICK p : p = given[i].parent
    OBVIOUS
<1>4. p \in Stored \cup {NoId} /\ p < i /\ i \in Nat /\ i \in Stored
    BY <1>1, <1>3 DEF ParentInv
<1> HIDE DEF C
<1>5. ToSet(C[i]) = {i} \cup ToSet(C[p])
    <2>1. C[p] \in Seq(Stored) /\ C[i] = <<i>> \o C[p]
        BY <1>1, <1>3, <1>4 DEF C
    <2> QED
        BY <1>4, <2>1, ConsSet
<1>6. PICK k \in ToSet(C[i]) : k \notin Stored \/ ~(ToSet(C[k]) \subseteq ToSet(C[i]))
    BY <1>2
<1>7. k # i /\ k \in ToSet(C[p])
    BY <1>4, <1>5, <1>6
<1>8. p \in Stored
    <2>1. ASSUME p = NoId PROVE FALSE
        <3>1. C[p] = <<>>
            BY <1>1, <2>1 DEF C
        <3> QED
            BY <1>7, <3>1 DEF ToSet
    <2> QED
        BY <1>4, <2>1
<1>9. p \in Bad
    BY <1>5, <1>6, <1>7, <1>8
<1>10. i <= p /\ p \in Nat
    BY <1>1, <1>2, <1>8, <1>9
<1> QED
    BY <1>4, <1>10

LEMMA PathIs ==
    ASSUME Ids, ParentInv, NEW t \in Stored
    PROVE  /\ Path(t) = ToSet(Chains(Lineage)[t]) /\ Path(t) \subseteq Stored
           /\ ToSet(Ancestors(Lineage, t)) \subseteq Path(t)
<1>1. /\ Ancestors(Lineage, t) = Chains(Lineage)[given[t].parent]
      /\ Chains(Lineage)[t] = <<t>> \o Chains(Lineage)[given[t].parent]
      /\ Chains(Lineage)[given[t].parent] \in Seq(Stored)
      /\ Chains(Lineage)[t] \in Seq(Stored)
    BY LineageIs DEF ParentInv
<1>2. ToSet(Chains(Lineage)[t]) = {t} \cup ToSet(Ancestors(Lineage, t))
    <2>1. PICK e \in Seq(Stored) : e = Chains(Lineage)[given[t].parent]
        BY <1>1
    <2> QED
        BY <1>1, <2>1, ConsSet
<1>3. Path(t) = ToSet(Ancestors(Lineage, t)) \cup {t}
    BY DEF Path, Past, Lineage
<1>4. ToSet(Chains(Lineage)[t]) \subseteq Stored
    <2>1. PICK s \in Seq(Stored) : s = Chains(Lineage)[t]
        BY <1>1
    <2> QED
        BY <2>1 DEF ToSet
<1> QED
    BY <1>2, <1>3, <1>4

LEMMA UpToLast ==
    ASSUME NEW T, NEW c \in Seq(T), NEW S, UpTo(c, S) # <<>>
    PROVE  Last(UpTo(c, S)) \in ToSet(c)
<1> DEFINE hits == {i \in DOMAIN c : c[i] \in S}
<1>1. DOMAIN c = 1 .. Len(c) /\ Len(c) \in Nat
    OBVIOUS
<1>2. CASE hits = {}
    <2>1. UpTo(c, S) = c
        BY <1>2 DEF UpTo
    <2>2. Len(c) \in DOMAIN c
        BY <1>1, <2>1
    <2> QED
        BY <2>1, <2>2 DEF Last, ToSet
<1>3. CASE hits # {}
    <2>1. Min(hits) \in hits
        <3>1. hits \in SUBSET Nat
            BY <1>1
        <3> QED
            BY <1>3, <3>1, MinFact
    <2>2. PICK m \in 1 .. Len(c) : m = Min(hits)
        BY <1>1, <2>1
    <2>3. UpTo(c, S) = SubSeq(c, 1, m)
        BY <1>3, <2>2 DEF UpTo
    <2>4. Len(SubSeq(c, 1, m)) = m /\ SubSeq(c, 1, m)[m] = c[m]
        BY <1>1, <2>2
    <2>5. Last(SubSeq(c, 1, m)) = c[m]
        BY <2>4 DEF Last
    <2> QED
        BY <1>1, <2>2, <2>3, <2>5 DEF ToSet
<1> QED
    BY <1>2, <1>3

\* InMemorySaver returns what the walk of BaseCheckpointSaver does, on a path
\* that was not migrated.
LEMMA MemSame ==
    ASSUME Ids, ParentInv, MemInv, PlainInv, NEW t \in Stored, ~WasPlain(t)
    PROVE  MemHistory(mem, t) = SortedHistory(MemTuples, mem.writes, t)
<1> DEFINE blob(i) == BlobAt(mem, "delta", mem.storage[i].versions["delta"])
           A == Ancestors(Parents(mem.storage), t)
           held == {i \in DOMAIN mem.storage : blob(i) # Absent}
           chain == UpTo(A, held)
           seed == IF chain = <<>> THEN Absent ELSE blob(Last(chain))
<1>1. /\ DOMAIN mem.storage = Stored
      /\ \A i \in Stored : /\ mem.storage[i].parent = given[i].parent
                           /\ mem.storage[i].versions = given[i].versions
    BY DEF MemInv
<1>2. /\ DOMAIN MemTuples = Stored
      /\ \A i \in Stored : MemTuples[i].parent = given[i].parent /\ MemTuples[i].values["delta"] = blob(i)
    <2>1. "delta" \in Channels
        BY DEF Channels
    <2>2. \A i \in Stored : MemTuples[i] = MemTuple(mem, i)
        BY SaverTuple DEF MemTuples
    <2>3. \A i \in Stored : MemTuple(mem, i).parent = given[i].parent /\ MemTuple(mem, i).values["delta"] = blob(i)
        BY <1>1, <2>1 DEF MemTuple
    <2> QED
        BY <2>2, <2>3 DEF MemTuples
<1>3. Parents(mem.storage) = Lineage /\ Parents(MemTuples) = Lineage
    BY <1>1, <1>2 DEF Parents, Lineage
<1>4. A \in Seq(Stored) /\ ToSet(A) \subseteq Stored /\ ToSet(A) \subseteq Path(t)
    <2>0. A = Ancestors(Lineage, t)
        BY <1>3
    <2>1. A \in Seq(Stored)
        BY <2>0, LineageIs DEF ParentInv
    <2> HIDE DEF A
    <2>2. ToSet(A) \subseteq Stored
        BY <2>1 DEF ToSet
    <2>3. ToSet(A) \subseteq Path(t)
        BY <2>0, PathIs
    <2> QED
        BY <2>1, <2>2, <2>3
<1>5. chain # <<>> => Last(chain) \in ToSet(A)
    <2> HIDE DEF A
    <2> QED
        BY <1>4, UpToLast
<1>6. seed.kind # "plain"
    <2>1. CASE chain = <<>>
        BY <2>1 DEF Absent, Value
    <2>2. CASE chain # <<>>
        <3>1. PICK j \in Stored : j = Last(chain) /\ j \in Path(t)
            BY <1>4, <1>5, <2>2
        <3>2. SUFFICES ASSUME BlobAt(mem, "delta", given[j].versions["delta"]).kind = "plain" PROVE FALSE
            BY <1>1, <2>2, <3>1
        <3>3. PICK i \in ToSet(Chains(Lineage)[j]) : given[i].values["delta"].kind = "plain"
            BY <3>2, PlainAbove
        <3>4. i \in Path(t)
            BY <3>1, <3>3, PathIs, ChainsNest
        <3> QED
            BY <3>3, <3>4 DEF WasPlain
    <2> QED
        BY <2>1, <2>2
<1>7. MemHistory(mem, t)
      = History(seed, RowsOf(mem.writes, IF seed.kind = "plain" THEN Front(chain) ELSE chain))
    BY Zenon DEF MemHistory
<1>8. MemHistory(mem, t) = History(seed, RowsOf(mem.writes, chain))
    BY <1>6, <1>7, Zenon
<1>9. {i \in DOMAIN MemTuples : MemTuples[i].values["delta"] # Absent} = held
    BY <1>1, <1>2
<1>10. SortedHistory(MemTuples, mem.writes, t)
       = History(IF chain = <<>> THEN Absent ELSE MemTuples[Last(chain)].values["delta"],
                 RowsOf(mem.writes, chain))
    BY <1>3, <1>9, Zenon DEF SortedHistory, Holding
<1>11. chain # <<>> => MemTuples[Last(chain)].values["delta"] = blob(Last(chain))
    BY <1>2, <1>4, <1>5
<1> QED
    BY <1>8, <1>10, <1>11, Zenon

-----------------------------------------------------------------------------
(* The pages of Postgres.                                                  *)

\* A row of Reach, of the rows below it.
ReachRow(tab, known, walk, c) ==
    IF c \notin known THEN [chain |-> <<>>, cur |-> Waiting(c, known), at |-> NoId]
    ELSE IF tab.checkpoints[c].inline["delta"] # Absent
    THEN [chain |-> <<c>>, cur |-> NoId, at |-> c]
    ELSE LET r == walk[tab.checkpoints[c].parent] IN [r EXCEPT !.chain = <<c>> \o @]

ReachesTo(f, tab, known, n) ==
    f = [c \in {j \in DOMAIN tab.checkpoints \cup {NoId} : j <= n} |-> ReachRow(tab, known, f, c)]

LEMMA RowAlike ==
    ASSUME NEW tab, NEW known, NEW f, NEW g, NEW c,
           c \in known => f[tab.checkpoints[c].parent] = g[tab.checkpoints[c].parent]
    PROVE  ReachRow(tab, known, f, c) = ReachRow(tab, known, g, c)
<1>1. CASE c \notin known
    BY <1>1 DEF ReachRow
<1>2. CASE c \in known
    BY <1>2 DEF ReachRow
<1> QED
    BY <1>1, <1>2

LEMMA ReachesExist ==
    ASSUME NEW tab, Forest(tab.checkpoints), NEW known \in SUBSET DOMAIN tab.checkpoints, NEW n \in Nat
    PROVE  \E f : ReachesTo(f, tab, known, n)
<1> DEFINE Bad == {k \in Nat : ~ \E f : ReachesTo(f, tab, known, k)}
           D(k) == {j \in DOMAIN tab.checkpoints \cup {NoId} : j <= k}
           up(c) == tab.checkpoints[c].parent
<1> SUFFICES ASSUME n \in Bad PROVE FALSE
    OBVIOUS
<1>0. /\ DOMAIN tab.checkpoints \subseteq Nat \ {0} /\ NoId = 0
      /\ \A i \in DOMAIN tab.checkpoints : up(i) \in DOMAIN tab.checkpoints \cup {NoId} /\ up(i) < i
    BY ForestFacts DEF NoId
<1>1. PICK k \in Bad : \A m \in Bad : k <= m
    BY NatMin
<1>2. k # 0
    <2> DEFINE f == [i \in D(0) |-> [chain |-> <<>>, cur |-> NoId, at |-> NoId]]
    <2>1. D(0) = {NoId} /\ NoId \notin known
        BY <1>0
    <2>2. ReachRow(tab, known, f, NoId) = [chain |-> <<>>, cur |-> NoId, at |-> NoId]
        BY <2>1 DEF ReachRow, Waiting
    <2>3. \A i \in D(0) : ReachRow(tab, known, f, i) = [chain |-> <<>>, cur |-> NoId, at |-> NoId]
        BY <2>1, <2>2
    <2>4. f = [i \in D(0) |-> ReachRow(tab, known, f, i)]
        BY <2>3
    <2>5. ReachesTo(f, tab, known, 0)
        BY <2>4 DEF ReachesTo
    <2> QED
        BY <2>5
<1>3. k \in Nat /\ k - 1 \in Nat /\ ~(k <= k - 1)
    BY <1>2
<1>4. PICK f : ReachesTo(f, tab, known, k - 1)
    BY <1>1, <1>3
<1>5. f = [i \in D(k - 1) |-> ReachRow(tab, known, f, i)]
    BY <1>4 DEF ReachesTo
<1> DEFINE g == [i \in D(k) |-> ReachRow(tab, known, f, i)]
<1>6. ASSUME NEW i \in D(k), i \in known
      PROVE  up(i) \in D(k - 1)
    <2>1. i \in DOMAIN tab.checkpoints /\ i <= k
        BY <1>6
    <2>2. up(i) \in DOMAIN tab.checkpoints \cup {NoId} /\ up(i) < i /\ i \in Nat
        BY <1>0, <2>1
    <2>3. PICK p : p = up(i)
        OBVIOUS
    <2>4. p \in Nat
        BY <1>0, <2>2, <2>3
    <2>5. p <= k - 1
        BY <1>3, <2>1, <2>2, <2>3, <2>4
    <2> QED
        BY <2>2, <2>3, <2>5
<1>7. ASSUME NEW i \in D(k - 1) PROVE g[i] = f[i]
    <2>1. i \in D(k)
        BY <1>0, <1>3
    <2>2. f[i] = ReachRow(tab, known, f, i)
        BY <1>5
    <2> QED
        BY <2>1, <2>2
<1> HIDE DEF g
<1>8. \A i \in D(k) : g[i] = ReachRow(tab, known, g, i)
    <2>1. ASSUME NEW i \in D(k) PROVE g[i] = ReachRow(tab, known, g, i)
        <3>1. g[i] = ReachRow(tab, known, f, i)
            BY DEF g
        <3>2. i \in known => f[up(i)] = g[up(i)]
            BY <1>6, <1>7
        <3> QED
            BY <3>1, <3>2, RowAlike
    <2> QED
        BY <2>1
<1>9. g = [i \in D(k) |-> g[i]]
    BY DEF g
<1>10. g = [i \in D(k) |-> ReachRow(tab, known, g, i)]
    BY <1>8, <1>9
<1>11. ReachesTo(g, tab, known, k)
    BY <1>10 DEF ReachesTo
<1> QED
    BY <1>1, <1>11

LEMMA ReachIs ==
    ASSUME NEW tab, Forest(tab.checkpoints), NEW known \in SUBSET DOMAIN tab.checkpoints
    PROVE  \A c \in DOMAIN tab.checkpoints \cup {NoId} :
              Reach(tab, known)[c] = ReachRow(tab, known, Reach(tab, known), c)
<1> DEFINE f == Reach(tab, known)
           D == DOMAIN tab.checkpoints \cup {NoId}
<1>1. f = CHOOSE g : g = [c \in D |-> ReachRow(tab, known, g, c)]
    BY DEF Reach, ReachRow
<1>2. \E g : g = [c \in D |-> ReachRow(tab, known, g, c)]
    <2>1. PICK n \in Nat : \A i \in DOMAIN tab.checkpoints : i <= n
        BY DEF Forest
    <2>2. PICK g : ReachesTo(g, tab, known, n)
        BY ReachesExist
    <2>3. {j \in D : j <= n} = D
        BY <2>1 DEF NoId
    <2> QED
        BY <2>2, <2>3 DEF ReachesTo
<1>3. f = [c \in D |-> ReachRow(tab, known, f, c)]
    BY <1>1, <1>2, Zenon
<1> HIDE DEF f
<1>4. \A c \in D : f[c] = ReachRow(tab, known, f, c)
    BY <1>3
<1> QED
    BY <1>4 DEF f

\* The checkpoints at which a walk of Postgres stops.
Marked(tab) == {i \in DOMAIN tab.checkpoints : tab.checkpoints[i].inline["delta"] # Absent}

\* The walk up from c has passed chain: it is at cur, or has stopped at at.
WalksTo(tab, c, chain, cur, at) ==
    LET D  == DOMAIN tab.checkpoints
        up == Chains(Parents(tab.checkpoints))
    IN  /\ chain \in Seq(D) /\ cur \in D \cup {NoId} /\ at \in D \cup {NoId}
        /\ at = NoId => Passes(chain, Marked(tab)) /\ up[c] = chain \o up[cur]
        /\ at # NoId => /\ StopsAt(chain, Marked(tab)) /\ at = chain[Len(chain)]
                        /\ \E e \in Seq(D) : up[c] = chain \o e

LEMMA WalksOn ==
    ASSUME NEW tab, Forest(tab.checkpoints), NEW c, NEW d, NEW p, NEW e, NEW cur, NEW at,
           WalksTo(tab, c, d, p, NoId), WalksTo(tab, p, e, cur, at)
    PROVE  WalksTo(tab, c, d \o e, cur, at)
<1> DEFINE D == DOMAIN tab.checkpoints
           up == Chains(Parents(tab.checkpoints))
           M == Marked(tab)
<1>1. /\ d \in Seq(D) /\ e \in Seq(D) /\ cur \in D \cup {NoId} /\ at \in D \cup {NoId}
      /\ Passes(d, M) /\ up[c] = d \o up[p]
      /\ at = NoId => Passes(e, M) /\ up[p] = e \o up[cur]
      /\ at # NoId => /\ StopsAt(e, M) /\ at = e[Len(e)]
                      /\ \E x \in Seq(D) : up[p] = e \o x
    BY Zenon DEF WalksTo
<1>2. up[cur] \in Seq(D)
    BY <1>1, ForestFacts
<1> HIDE DEF D, up, M
<1>3. /\ d \o e \in Seq(D)
      /\ \A x \in Seq(D) : d \o (e \o x) = (d \o e) \o x
    <2>1. PICK a \in Seq(D), b \in Seq(D) : a = d /\ b = e
        BY <1>1
    <2>2. ASSUME NEW x \in Seq(D) PROVE (a \o b) \o x = a \o (b \o x)
        <3>1. Sums(a, b, x)
            BY SeqSums, Zenon
        <3> QED
            BY <3>1, Zenon DEF Sums
    <2>3. a \o b \in Seq(D)
        OBVIOUS
    <2> QED
        BY <2>1, <2>2, <2>3
<1>4. CASE at = NoId
    <2>1. Passes(d \o e, M)
        BY <1>1, <1>4, PassesOn
    <2>2. d \o (e \o up[cur]) = (d \o e) \o up[cur]
        BY <1>2, <1>3
    <2>3. up[c] = (d \o e) \o up[cur]
        BY <1>1, <1>4, <2>2
    <2> QED
        BY <1>1, <1>3, <1>4, <2>1, <2>3, Zenon DEF WalksTo, D, up, M
<1>5. CASE at # NoId
    <2>1. StopsAt(d \o e, M)
        BY <1>1, <1>5, PassesOn
    <2>2. PICK x \in Seq(D) : up[p] = e \o x
        BY <1>1, <1>5
    <2>3. d \o (e \o x) = (d \o e) \o x
        BY <1>3
    <2>4. up[c] = (d \o e) \o x
        BY <1>1, <2>2, <2>3
    <2>5. at = (d \o e)[Len(d \o e)]
        <3>1. e # <<>> /\ at = e[Len(e)]
            BY <1>1, <1>5 DEF StopsAt
        <3>2. PICK a \in Seq(D), b \in Seq(D) : a = d /\ b = e
            BY <1>1
        <3>3. Len(a \o b) = Len(a) + Len(b) /\ Len(b) >= 1 /\ (a \o b)[Len(a) + Len(b)] = b[Len(b)]
            BY <3>1, <3>2
        <3> QED
            BY <3>1, <3>2, <3>3
    <2> QED
        BY <1>1, <1>3, <1>5, <2>1, <2>2, <2>4, <2>5, Zenon DEF WalksTo, D, up, M
<1> QED
    BY <1>4, <1>5

\* Where the walks are of which the pages known tell.
ReachedFrom(tab, known, c, r) ==
    /\ r = [chain |-> r.chain, cur |-> r.cur, at |-> r.at]
    /\ WalksTo(tab, c, r.chain, r.cur, r.at)
    /\ r.at = NoId => r.cur \notin known

LEMMA ReachWalks ==
    ASSUME NEW tab, Forest(tab.checkpoints), NEW known \in SUBSET DOMAIN tab.checkpoints,
           NEW s \in DOMAIN tab.checkpoints \cup {NoId}
    PROVE  ReachedFrom(tab, known, s, Reach(tab, known)[s])
<1> DEFINE D == DOMAIN tab.checkpoints
           C == Chains(Parents(tab.checkpoints))
           R == Reach(tab, known)
           Bad == {i \in D \cup {NoId} : ~ReachedFrom(tab, known, i, R[i])}
<1>0. SUFFICES ASSUME Bad # {} PROVE FALSE
    OBVIOUS
<1>1. /\ D \subseteq Nat \ {NoId}
      /\ \A i \in D : tab.checkpoints[i].parent \in D \cup {NoId} /\ tab.checkpoints[i].parent < i
      /\ \A i \in D : C[i] = <<i>> \o C[tab.checkpoints[i].parent]
      /\ \A i \in D \cup {NoId} : C[i] \in Seq(D)
    BY ForestFacts
<1>2. PICK c \in Bad : \A m \in Bad : c <= m
    <2>1. Bad \in SUBSET Nat
        BY <1>1 DEF NoId
    <2> QED
        BY <1>0, <2>1, NatMin
<1>3. c \in D \cup {NoId} /\ ~ReachedFrom(tab, known, c, R[c]) /\ R[c] = ReachRow(tab, known, R, c)
    BY ReachIs
<1> HIDE DEF R
<1>4. CASE c \notin known
    <2>1. PICK r : r = R[c]
        OBVIOUS
    <2>2. r = [chain |-> <<>>, cur |-> c, at |-> NoId]
        BY <1>3, <1>4, <2>1 DEF ReachRow, Waiting
    <2>3. r.chain = <<>> /\ r.cur = c /\ r.at = NoId /\ r = [chain |-> r.chain, cur |-> r.cur, at |-> r.at]
        BY <2>2
    <2>4. Passes(<<>>, Marked(tab)) /\ <<>> \in Seq(D)
        BY DEF Passes
    <2>5. C[c] = <<>> \o C[c]
        BY <1>1, <1>3
    <2>6. WalksTo(tab, c, <<>>, c, NoId)
        BY <1>3, <2>4, <2>5, Zenon DEF WalksTo
    <2>7. ReachedFrom(tab, known, c, r)
        BY <1>4, <2>3, <2>6 DEF ReachedFrom
    <2> QED
        BY <1>3, <2>1, <2>7
<1>5. ASSUME c \in known
      PROVE  /\ c \in D /\ <<c>> \in Seq(D) /\ c \in Nat /\ c # NoId
             /\ c \in Marked(tab) => StopsAt(<<c>>, Marked(tab))
             /\ c \notin Marked(tab) => Passes(<<c>>, Marked(tab))
    <2>1. c \in D
        BY <1>5
    <2>2. c \in Nat /\ c # NoId
        BY <1>1, <2>1
    <2> QED
        BY <2>1, <2>2, OneStep
<1>6. CASE c \in known /\ c \in Marked(tab)
    <2>1. PICK r : r = R[c]
        OBVIOUS
    <2>2. r = [chain |-> <<c>>, cur |-> NoId, at |-> c]
        BY <1>3, <1>6, <2>1 DEF ReachRow, Marked
    <2>3. r.chain = <<c>> /\ r.cur = NoId /\ r.at = c /\ r = [chain |-> r.chain, cur |-> r.cur, at |-> r.at]
        BY <2>2
    <2>4. c \in D /\ <<c>> \in Seq(D) /\ StopsAt(<<c>>, Marked(tab)) /\ c # NoId
        BY <1>5, <1>6
    <2>5. C[c] = <<c>> \o C[tab.checkpoints[c].parent] /\ C[tab.checkpoints[c].parent] \in Seq(D)
        BY <1>1, <2>4
    <2>6. <<c>>[Len(<<c>>)] = c
        OBVIOUS
    <2>7. WalksTo(tab, c, <<c>>, NoId, c)
        BY <2>4, <2>5, <2>6, Zenon DEF WalksTo
    <2>8. ReachedFrom(tab, known, c, r)
        BY <2>3, <2>4, <2>7 DEF ReachedFrom
    <2> QED
        BY <1>3, <2>1, <2>8
<1>7. CASE c \in known /\ c \notin Marked(tab)
    <2>1. PICK p : p = tab.checkpoints[c].parent
        OBVIOUS
    <2>2. c \in D /\ <<c>> \in Seq(D) /\ Passes(<<c>>, Marked(tab)) /\ c \in Nat
        BY <1>5, <1>7
    <2>3. p \in D \cup {NoId} /\ p < c /\ p \in Nat /\ C[c] = <<c>> \o C[p]
        <3>1. tab.checkpoints[c].parent \in D \cup {NoId} /\ tab.checkpoints[c].parent < c
              /\ C[c] = <<c>> \o C[tab.checkpoints[c].parent]
            BY <1>1, <2>2
        <3>2. p \in D \cup {NoId} /\ p < c /\ C[c] = <<c>> \o C[p]
            BY <2>1, <3>1, Zenon
        <3>3. p \in Nat
            BY <1>1, <3>2 DEF NoId
        <3> QED
            BY <3>2, <3>3
    <2>4. p \notin Bad
        BY <1>2, <2>2, <2>3
    <2>5. PICK r : r = R[p]
        OBVIOUS
    <2>6. ReachedFrom(tab, known, p, r)
        BY <2>3, <2>4, <2>5
    <2>7. WalksTo(tab, c, <<c>>, p, NoId)
        BY <2>2, <2>3, Zenon DEF WalksTo
    <2>8. /\ r = [chain |-> r.chain, cur |-> r.cur, at |-> r.at]
          /\ WalksTo(tab, p, r.chain, r.cur, r.at)
          /\ r.at = NoId => r.cur \notin known
        BY <2>6 DEF ReachedFrom
    <2>9. WalksTo(tab, c, <<c>> \o r.chain, r.cur, r.at)
        BY <2>7, <2>8, WalksOn
    <2>10. R[c] = [r EXCEPT !.chain = <<c>> \o @]
        BY <1>3, <1>7, <2>1, <2>2, <2>5 DEF ReachRow, Marked
    <2>11. R[c] = [chain |-> <<c>> \o r.chain, cur |-> r.cur, at |-> r.at]
        BY <2>8, <2>10
    <2>12. PICK u : u = R[c]
        OBVIOUS
    <2>13. u.chain = <<c>> \o r.chain /\ u.cur = r.cur /\ u.at = r.at
           /\ u = [chain |-> u.chain, cur |-> u.cur, at |-> u.at]
        BY <2>11, <2>12
    <2>14. ReachedFrom(tab, known, c, u)
        BY <2>8, <2>9, <2>13 DEF ReachedFrom
    <2> QED
        BY <1>3, <2>12, <2>14
<1> QED
    BY <1>4, <1>6, <1>7

\* The n-th page of the thread, where one is read.
PageRow(tab, t, w, n) ==
    LET S == DOMAIN tab.checkpoints
    IN  IF w.at # NoId \/ w.known = S THEN w ELSE Advance(tab, t, Newest(S, n * PageSize), w)

PagesTo(f, tab, t, n) ==
    f = [i \in 0 .. n |-> IF i = 0 THEN Unread ELSE PageRow(tab, t, f[i - 1], i)]

LEMMA PagesExist ==
    ASSUME NEW tab, NEW t, NEW n \in Nat
    PROVE  \E f : PagesTo(f, tab, t, n)
<1> DEFINE Bad == {k \in Nat : ~ \E f : PagesTo(f, tab, t, k)}
<1> SUFFICES ASSUME n \in Bad PROVE FALSE
    OBVIOUS
<1>1. PICK k \in Bad : \A m \in Bad : k <= m
    BY NatMin
<1>2. k # 0
    <2> DEFINE f == [i \in 0 .. 0 |-> Unread]
    <2>1. f = [i \in 0 .. 0 |-> IF i = 0 THEN Unread ELSE PageRow(tab, t, f[i - 1], i)]
        OBVIOUS
    <2>2. PagesTo(f, tab, t, 0)
        BY <2>1 DEF PagesTo
    <2> QED
        BY <2>2
<1>3. k \in Nat /\ k - 1 \in Nat /\ ~(k <= k - 1)
    BY <1>2
<1>4. PICK f : PagesTo(f, tab, t, k - 1)
    BY <1>1, <1>3
<1>5. f = [i \in 0 .. k - 1 |-> IF i = 0 THEN Unread ELSE PageRow(tab, t, f[i - 1], i)]
    BY <1>4 DEF PagesTo
<1> DEFINE g == [i \in 0 .. k |-> IF i = 0 THEN Unread ELSE PageRow(tab, t, f[i - 1], i)]
<1>6. ASSUME NEW i \in 0 .. k - 1 PROVE g[i] = f[i] /\ i \in 0 .. k
    <2>1. f[i] = IF i = 0 THEN Unread ELSE PageRow(tab, t, f[i - 1], i)
        BY <1>5
    <2>2. i \in 0 .. k
        BY <1>3
    <2> QED
        BY <2>1, <2>2
<1>7. \A i \in 0 .. k : i # 0 => i - 1 \in 0 .. k - 1
    BY <1>3
<1>8. \A i \in 0 .. k : g[i] = IF i = 0 THEN Unread ELSE PageRow(tab, t, g[i - 1], i)
    BY <1>6, <1>7
<1>9. g = [i \in 0 .. k |-> g[i]]
    OBVIOUS
<1> HIDE DEF g
<1>10. g = [i \in 0 .. k |-> IF i = 0 THEN Unread ELSE PageRow(tab, t, g[i - 1], i)]
    BY <1>8, <1>9
<1>11. PagesTo(g, tab, t, k)
    BY <1>10 DEF PagesTo
<1> QED
    BY <1>1, <1>11

LEMMA PagedIs ==
    ASSUME NEW tab, NEW t, Cardinality(DOMAIN tab.checkpoints) \in Nat
    PROVE  \E f : /\ f[0] = Unread
                  /\ \A n \in 1 .. Cardinality(DOMAIN tab.checkpoints) : f[n] = PageRow(tab, t, f[n - 1], n)
                  /\ Paged(tab, t) = f[Cardinality(DOMAIN tab.checkpoints)]
<1> DEFINE N == Cardinality(DOMAIN tab.checkpoints)
           f == CHOOSE g : g = [i \in 0 .. N |-> IF i = 0 THEN Unread ELSE PageRow(tab, t, g[i - 1], i)]
<1>1. Paged(tab, t) = f[N]
    BY DEF Paged, PageRow
<1>2. \E g : g = [i \in 0 .. N |-> IF i = 0 THEN Unread ELSE PageRow(tab, t, g[i - 1], i)]
    <2>1. PICK g : PagesTo(g, tab, t, N)
        BY PagesExist
    <2> QED
        BY <2>1 DEF PagesTo
<1>3. f = [i \in 0 .. N |-> IF i = 0 THEN Unread ELSE PageRow(tab, t, f[i - 1], i)]
    BY <1>2, Zenon
<1> HIDE DEF f
<1>4. 0 \in 0 .. N /\ \A n \in 1 .. N : n \in 0 .. N /\ n # 0
    OBVIOUS
<1>5. f[0] = Unread /\ \A n \in 1 .. N : f[n] = PageRow(tab, t, f[n - 1], n)
    BY <1>3, <1>4
<1> QED
    BY <1>1, <1>5

\* u is a walk up from c with the checkpoints known.
Walking(tab, known, c, u) ==
    /\ u = [begun |-> TRUE, known |-> u.known, cur |-> u.cur, chain |-> u.chain, at |-> u.at]
    /\ WalksTo(tab, c, u.chain, u.cur, u.at)
    /\ u.at = NoId => u.cur \notin u.known
    /\ u.known = known

\* Where the walk from t is after n pages, the first of which holds t.
PagesRead(tab, t, w, n) ==
    LET S == DOMAIN tab.checkpoints
    IN  /\ w = [begun |-> TRUE, known |-> w.known, cur |-> w.cur, chain |-> w.chain, at |-> w.at]
        /\ WalksTo(tab, tab.checkpoints[t].parent, w.chain, w.cur, w.at)
        /\ w.at = NoId => /\ w.cur \notin w.known
                          /\ w.known = S \/ w.known = Newest(S, n * PageSize)

\* A page takes the walk on from where it waits.
LEMMA PageOn ==
    ASSUME NEW tab, Forest(tab.checkpoints), NEW known, known \subseteq DOMAIN tab.checkpoints,
           NEW c, NEW d, NEW p, WalksTo(tab, c, d, p, NoId),
           NEW r, r = Reach(tab, known)[p],
           NEW u, u = [begun |-> TRUE, known |-> known, cur |-> r.cur, chain |-> d \o r.chain, at |-> r.at]
    PROVE  Walking(tab, known, c, u)
<1>1. p \in DOMAIN tab.checkpoints \cup {NoId}
    BY Zenon DEF WalksTo
<1>2. ReachedFrom(tab, known, p, r)
    BY <1>1, ReachWalks
<1>3. WalksTo(tab, p, r.chain, r.cur, r.at) /\ (r.at = NoId => r.cur \notin known)
    BY <1>2 DEF ReachedFrom
<1>4. WalksTo(tab, c, d \o r.chain, r.cur, r.at)
    BY <1>3, WalksOn
<1>5. /\ u.cur = r.cur /\ u.chain = d \o r.chain /\ u.at = r.at /\ u.known = known
      /\ u = [begun |-> TRUE, known |-> u.known, cur |-> u.cur, chain |-> u.chain, at |-> u.at]
    OBVIOUS
<1> QED
    BY <1>3, <1>4, <1>5, Zenon DEF Walking

LEMMA FirstPageRead ==
    ASSUME NEW tab, Forest(tab.checkpoints), NEW t \in FirstPage(DOMAIN tab.checkpoints)
    PROVE  PagesRead(tab, t, PageRow(tab, t, Unread, 1), 1)
<1>1. PICK known : known = Newest(DOMAIN tab.checkpoints, 1 * PageSize)
    OBVIOUS
<1>2. t \in known /\ known \subseteq DOMAIN tab.checkpoints /\ t \in DOMAIN tab.checkpoints
    <2>1. 1 * PageSize = PageSize
        BY PageSizeAssumption
    <2> QED
        BY <1>1, <2>1 DEF FirstPage, Newest
<1>3. PICK p : p = tab.checkpoints[t].parent
    OBVIOUS
<1>4. p \in DOMAIN tab.checkpoints \cup {NoId}
      /\ Chains(Parents(tab.checkpoints))[p] \in Seq(DOMAIN tab.checkpoints)
    BY <1>2, <1>3, ForestFacts
<1>5. WalksTo(tab, p, <<>>, p, NoId)
    <2>1. Passes(<<>>, Marked(tab)) /\ <<>> \in Seq(DOMAIN tab.checkpoints) /\ NoId \in {NoId}
        BY DEF Passes
    <2>2. Chains(Parents(tab.checkpoints))[p] = <<>> \o Chains(Parents(tab.checkpoints))[p]
        BY <1>4
    <2> QED
        BY <1>4, <2>1, <2>2, Zenon DEF WalksTo
<1>6. PICK r : r = Reach(tab, known)[p]
    OBVIOUS
<1>7. PICK u : u = [begun |-> TRUE, known |-> known, cur |-> r.cur, chain |-> <<>> \o r.chain, at |-> r.at]
    OBVIOUS
<1>8. Advance(tab, t, known, Unread) = u
    BY <1>2, <1>3, <1>6, <1>7 DEF Advance, Unread
<1>9. PageRow(tab, t, Unread, 1) = u
    <2>1. Unread.at = NoId /\ Unread.known # DOMAIN tab.checkpoints
        BY <1>2 DEF Unread
    <2> QED
        BY <1>1, <1>8, <2>1 DEF PageRow
<1>10. Walking(tab, known, p, u)
    BY <1>2, <1>5, <1>6, <1>7, PageOn
<1> QED
    BY <1>1, <1>3, <1>9, <1>10 DEF PagesRead, Walking

LEMMA NextPageRead ==
    ASSUME NEW tab, Forest(tab.checkpoints), NEW t, NEW n \in Nat, NEW w, PagesRead(tab, t, w, n)
    PROVE  PagesRead(tab, t, PageRow(tab, t, w, n + 1), n + 1)
<1>1. CASE w.at # NoId \/ w.known = DOMAIN tab.checkpoints
    <2>1. PageRow(tab, t, w, n + 1) = w
        BY <1>1 DEF PageRow
    <2> QED
        BY <1>1, <2>1 DEF PagesRead
<1>2. CASE w.at = NoId /\ w.known # DOMAIN tab.checkpoints
    <2>1. PICK known : known = Newest(DOMAIN tab.checkpoints, (n + 1) * PageSize)
        OBVIOUS
    <2>2. known \subseteq DOMAIN tab.checkpoints
        BY <2>1 DEF Newest
    <2>3. PICK p : p = w.cur
        OBVIOUS
    <2>4. PICK r : r = Reach(tab, known)[p]
        OBVIOUS
    <2>5. PICK u : u = [begun |-> TRUE, known |-> known, cur |-> r.cur, chain |-> w.chain \o r.chain, at |-> r.at]
        OBVIOUS
    <2>6. w = [begun |-> TRUE, known |-> w.known, cur |-> w.cur, chain |-> w.chain, at |-> w.at]
          /\ WalksTo(tab, tab.checkpoints[t].parent, w.chain, w.cur, w.at)
        BY DEF PagesRead
    <2>7. Advance(tab, t, known, w) = u
        <3>1. w.begun
            BY <2>6
        <3> QED
            BY <2>3, <2>4, <2>5, <3>1 DEF Advance
    <2>8. PageRow(tab, t, w, n + 1) = u
        BY <1>2, <2>1, <2>7 DEF PageRow
    <2>9. WalksTo(tab, tab.checkpoints[t].parent, w.chain, p, NoId)
        BY <1>2, <2>3, <2>6
    <2>10. Walking(tab, known, tab.checkpoints[t].parent, u)
        <3>1. PICK c : c = tab.checkpoints[t].parent
            OBVIOUS
        <3>2. PICK d : d = w.chain
            OBVIOUS
        <3>3. WalksTo(tab, c, d, p, NoId)
            BY <2>9, <3>1, <3>2
        <3>4. u = [begun |-> TRUE, known |-> known, cur |-> r.cur, chain |-> d \o r.chain, at |-> r.at]
            BY <2>5, <3>2
        <3>5. Walking(tab, known, c, u)
            BY <2>2, <2>4, <3>3, <3>4, PageOn
        <3> QED
            BY <3>1, <3>5
    <2> QED
        BY <2>1, <2>8, <2>10 DEF PagesRead, Walking
<1> QED
    BY <1>1, <1>2

\* All pages have been read, or the seed was found.
LEMMA LastPageRead ==
    ASSUME NEW tab, Forest(tab.checkpoints), NEW t \in FirstPage(DOMAIN tab.checkpoints),
           NEW w, w = Paged(tab, t)
    PROVE  /\ WalksTo(tab, tab.checkpoints[t].parent, w.chain, w.cur, w.at)
           /\ w.at = NoId => w.cur \notin DOMAIN tab.checkpoints
<1>1. PICK S : S = DOMAIN tab.checkpoints
    OBVIOUS
<1>2. PICK N : N = Cardinality(S)
    OBVIOUS
<1>3. IsFiniteSet(S) /\ N \in Nat /\ t \in S /\ N >= 1 /\ S \subseteq Nat
    <2>1. PICK n \in Nat : \A i \in S : i <= n
        BY <1>1 DEF Forest
    <2>2. S \subseteq 1 .. n /\ S \subseteq Nat
        <3>1. S \subseteq Nat \ {0}
            BY <1>1, ForestFacts DEF NoId
        <3> QED
            BY <2>1, <3>1
    <2>3. IsFiniteSet(S)
        <3>1. IsFiniteSet(1 .. n)
            BY <2>1, FS_Interval
        <3> QED
            BY <2>2, <3>1, FS_Subset
    <2>4. t \in S
        BY <1>1 DEF FirstPage, Newest
    <2>5. N \in Nat /\ N # 0
        BY <1>2, <2>3, <2>4, FS_CardinalityType, FS_EmptySet
    <2> QED
        BY <2>2, <2>3, <2>4, <2>5
<1>4. PICK f : /\ f[0] = Unread
               /\ \A n \in 1 .. N : f[n] = PageRow(tab, t, f[n - 1], n)
               /\ w = f[N]
    BY <1>1, <1>2, <1>3, PagedIs
<1> DEFINE Bad == {n \in 1 .. N : ~PagesRead(tab, t, f[n], n)}
<1>5. Bad = {}
    <2>1. SUFFICES ASSUME Bad # {} PROVE FALSE
        OBVIOUS
    <2>2. PICK m \in Bad : \A k \in Bad : m <= k
        <3>1. Bad \in SUBSET Nat
            BY <1>3
        <3> QED
            BY <2>1, <3>1, NatMin
    <2>3. m \in 1 .. N /\ ~PagesRead(tab, t, f[m], m)
        OBVIOUS
    <2>4. CASE m = 1
        <3>1. f[1] = PageRow(tab, t, Unread, 1)
            BY <1>3, <1>4
        <3> QED
            BY <2>3, <2>4, <3>1, FirstPageRead
    <2>5. CASE m # 1
        <3>1. PICK k : k = m - 1
            OBVIOUS
        <3>2. k \in 1 .. N /\ k \in Nat /\ k + 1 = m /\ ~(m <= k)
            BY <1>3, <2>3, <2>5, <3>1
        <3>3. PagesRead(tab, t, f[k], k)
            BY <2>2, <3>2
        <3>4. PagesRead(tab, t, PageRow(tab, t, f[k], k + 1), k + 1)
            BY <3>2, <3>3, NextPageRead
        <3>5. f[m] = PageRow(tab, t, f[k], m)
            BY <1>4, <2>3, <3>1
        <3> QED
            BY <2>3, <3>2, <3>4, <3>5
    <2> QED
        BY <2>4, <2>5
<1>6. PagesRead(tab, t, w, N)
    <2>1. N \in 1 .. N
        BY <1>3
    <2> QED
        BY <1>4, <1>5, <2>1
<1>7. Newest(S, N * PageSize) = S
    <2>1. ASSUME NEW i \in S PROVE Cardinality({j \in S : j > i}) < N * PageSize
        <3>1. {j \in S : j > i} \subseteq S \ {i}
            BY <1>3
        <3>2. IsFiniteSet(S \ {i}) /\ Cardinality(S \ {i}) = N - 1
            BY <1>2, <1>3, FS_RemoveElement
        <3>3. Cardinality({j \in S : j > i}) \in Nat /\ Cardinality({j \in S : j > i}) <= N - 1
            BY <3>1, <3>2, FS_Subset, FS_CardinalityType
        <3>4. N <= N * PageSize
            BY <1>3, PageSizeAssumption
        <3>5. N * PageSize \in Nat
            BY <1>3, PageSizeAssumption
        <3> QED
            BY <1>3, <3>3, <3>4, <3>5
    <2> QED
        BY <2>1 DEF Newest
<1>8. w.at = NoId => w.cur \notin w.known /\ (w.known = S \/ w.known = Newest(S, N * PageSize))
    BY <1>1, <1>6 DEF PagesRead
<1>9. WalksTo(tab, tab.checkpoints[t].parent, w.chain, w.cur, w.at)
    BY <1>6 DEF PagesRead
<1> QED
    BY <1>1, <1>7, <1>8, <1>9

\* A mark of Postgres stands where a checkpoint holds a value that is not plain.
LEMMA MarksAre ==
    ASSUME GivenInv, PgInv, NEW i \in Stored, given[i].values["delta"].kind # "plain"
    PROVE  /\ i \in Marked(pg) <=> given[i].values["delta"] # Absent
           /\ i \in Marked(pg) =>
                 BlobAt(pg, "delta", pg.checkpoints[i].versions["delta"]) = given[i].values["delta"]
<1>1. PICK v : v = given[i].values["delta"]
    OBVIOUS
<1>2. "delta" \in Channels /\ "delta" # "prim"
    BY DEF Channels
<1>3. v = Absent \/ v.kind = "snapshot"
    BY <1>1 DEF GivenInv, Proper, IsOf
<1>4. PgInline(given[i])["delta"] = IF v = Absent THEN Absent ELSE Value("true", <<>>)
    <2>1. CASE v = Absent
        <3>1. v.kind \notin Moved
            BY <2>1 DEF Absent, Value, Moved
        <3> QED
            BY <1>1, <1>2, <2>1, <3>1, InlineOf
    <2>2. CASE v # Absent
        BY <1>1, <1>2, <1>3, <2>2, InlineOf
    <2> QED
        BY <2>1, <2>2
<1>5. Value("true", <<>>) # Absent
    BY DEF Value, Absent
<1>6. /\ pg.checkpoints[i].inline = PgInline(given[i])
      /\ pg.checkpoints[i].versions = given[i].versions /\ i \in DOMAIN pg.checkpoints
      /\ PgHolds(pg, given[i])
    BY DEF PgInv
<1>7. i \in Marked(pg) <=> v # Absent
    BY <1>4, <1>5, <1>6 DEF Marked
<1>8. ASSUME v # Absent PROVE BlobAt(pg, "delta", given[i].versions["delta"]) = v
    <2>1. v.kind \in Moved
        BY <1>3, <1>8 DEF Moved
    <2> QED
        BY <1>1, <1>2, <1>6, <2>1 DEF PgHolds
<1> QED
    BY <1>1, <1>6, <1>7, <1>8

\* PostgresSaver returns what the walk of BaseCheckpointSaver does, for a
\* checkpoint of its first page and a path that was not migrated.
LEMMA PgSame ==
    ASSUME Ids, ParentInv, GivenInv, SqlInv, PgInv, WritesInv,
           NEW t \in Stored, ~WasPlain(t), t \in FirstPage(Stored)
    PROVE  PgHistory(pg, t) = SortedHistory(SqlTuples, sql.writes, t)
<1>1. PICK C : C = pg.checkpoints
    OBVIOUS
<1>2. /\ DOMAIN C = Stored /\ DOMAIN SqlTuples = Stored
      /\ \A i \in Stored : /\ C[i].parent = given[i].parent
                           /\ SqlTuples[i].parent = given[i].parent
                           /\ SqlTuples[i].values["delta"] = given[i].values["delta"]
    <2>1. \A i \in Stored : Tuple("sql", i) = SqlTuple(sql, i)
        BY SaverTuple
    <2>2. \A i \in Stored : /\ SqlTuple(sql, i).parent = given[i].parent
                            /\ SqlTuple(sql, i).values = given[i].values
        BY DEF SqlTuple, SqlInv
    <2> QED
        BY <1>1, <2>1, <2>2 DEF SqlTuples, PgInv
<1>3. Parents(C) = Lineage /\ Parents(SqlTuples) = Lineage
    BY <1>2 DEF Parents, Lineage
<1>4. Forest(C)
    <2>1. Tree(Lineage) /\ puts \in Nat /\ \A i \in Stored : i <= puts
        BY LineageIs
    <2> QED
        BY <1>2, <1>3, <2>1 DEF Forest
<1>5. PICK w : w = Paged(pg, t)
    OBVIOUS
<1>6. PICK s : s = w.chain
    OBVIOUS
<1>7. PICK at : at = w.at
    OBVIOUS
<1>8. PICK A : A = Ancestors(Lineage, t)
    OBVIOUS
<1>9. A = Chains(Lineage)[given[t].parent] /\ A \in Seq(Stored) /\ ToSet(A) \subseteq Path(t)
    <2>1. A = Chains(Lineage)[given[t].parent] /\ Chains(Lineage)[given[t].parent] \in Seq(Stored)
        BY <1>8, LineageIs DEF ParentInv
    <2> QED
        BY <1>8, <2>1, PathIs
<1>10. /\ WalksTo(pg, given[t].parent, s, w.cur, at)
       /\ at = NoId => w.cur \notin Stored
    <2>1. t \in FirstPage(DOMAIN pg.checkpoints)
        BY <1>1, <1>2
    <2>2. /\ WalksTo(pg, pg.checkpoints[t].parent, w.chain, w.cur, w.at)
          /\ w.at = NoId => w.cur \notin DOMAIN pg.checkpoints
        BY <1>1, <1>4, <1>5, <2>1, LastPageRead
    <2> QED
        BY <1>1, <1>2, <1>6, <1>7, <2>2
<1>11. /\ s \in Seq(Stored) /\ w.cur \in Stored \cup {NoId}
       /\ at = NoId => Passes(s, Marked(pg)) /\ A = s \o Chains(Lineage)[w.cur]
       /\ at # NoId => /\ StopsAt(s, Marked(pg)) /\ at = s[Len(s)]
                       /\ \E e \in Seq(Stored) : A = s \o e
    BY <1>1, <1>2, <1>3, <1>9, <1>10 DEF WalksTo
<1>12. at = NoId => A = s
    <2>1. ASSUME at = NoId PROVE A = s
        <3>1. w.cur = NoId
            BY <1>10, <1>11, <2>1
        <3>2. Chains(Lineage)[NoId] = <<>>
            BY LineageIs
        <3> QED
            BY <1>11, <2>1, <3>1, <3>2
    <2> QED
        BY <2>1
<1>13. \A k \in 1 .. Len(s) : s[k] \in ToSet(A) /\ s[k] \in Stored
    <2>1. \E e \in Seq(Stored) : A = s \o e
        <3>1. at = NoId => <<>> \in Seq(Stored) /\ A = s \o <<>>
            BY <1>11, <1>12
        <3> QED
            BY <1>11, <3>1
    <2>2. PICK e \in Seq(Stored) : A = s \o e
        BY <2>1
    <2>3. ASSUME NEW k \in 1 .. Len(s) PROVE s[k] \in ToSet(A) /\ s[k] \in Stored
        <3>1. PICK x \in Seq(Stored) : x = s
            BY <1>11
        <3>2. k \in DOMAIN (x \o e) /\ (x \o e)[k] = x[k] /\ x[k] \in Stored
            BY <3>1
        <3> QED
            BY <2>2, <3>1, <3>2 DEF ToSet
    <2> QED
        BY <2>3
<1>14. \A k \in 1 .. Len(s) :
          /\ s[k] \in Marked(pg) <=> s[k] \in Holding(SqlTuples)
          /\ s[k] \in Marked(pg) =>
                BlobAt(pg, "delta", pg.checkpoints[s[k]].versions["delta"]) = SqlTuples[s[k]].values["delta"]
    <2>1. ASSUME NEW k \in 1 .. Len(s)
          PROVE  /\ s[k] \in Marked(pg) <=> s[k] \in Holding(SqlTuples)
                 /\ s[k] \in Marked(pg) =>
                       BlobAt(pg, "delta", pg.checkpoints[s[k]].versions["delta"]) = SqlTuples[s[k]].values["delta"]
        <3>1. PICK i \in Stored : i = s[k]
            BY <1>13
        <3>2. given[i].values["delta"].kind # "plain"
            BY <1>9, <1>13, <3>1 DEF WasPlain
        <3>3. /\ i \in Marked(pg) <=> given[i].values["delta"] # Absent
              /\ i \in Marked(pg) =>
                    BlobAt(pg, "delta", pg.checkpoints[i].versions["delta"]) = given[i].values["delta"]
            BY <3>2, MarksAre
        <3>4. i \in Holding(SqlTuples) <=> given[i].values["delta"] # Absent
            BY <1>2 DEF Holding
        <3>5. SqlTuples[i].values["delta"] = given[i].values["delta"]
            BY <1>2
        <3> QED
            BY <3>1, <3>3, <3>4, <3>5
    <2> QED
        BY <2>1
<1>15. PICK seed : seed = IF at = NoId THEN Absent
                          ELSE BlobAt(pg, "delta", pg.checkpoints[at].versions["delta"])
    OBVIOUS
<1>16. Ends(SqlTuples, t, s, seed)
    <2>1. CASE at = NoId
        <3>1. Passes(s, Holding(SqlTuples))
            BY <1>11, <1>14, <2>1 DEF Passes
        <3> QED
            BY <1>2, <1>3, <1>8, <1>11, <1>12, <1>15, <2>1, <3>1 DEF Ends
    <2>2. CASE at # NoId
        <3>1. s # <<>> /\ Len(s) \in 1 .. Len(s) /\ s[Len(s)] \in Marked(pg) /\ at = s[Len(s)]
              /\ \A k \in 1 .. Len(s) - 1 : s[k] \notin Marked(pg) /\ k \in 1 .. Len(s)
            <4>1. PICK x \in Seq(Stored) : x = s
                BY <1>11
            <4>2. StopsAt(x, Marked(pg)) /\ at = x[Len(x)]
                BY <1>11, <2>2, <4>1
            <4>3. x # <<>> => Len(x) \in 1 .. Len(x) /\ \A k \in 1 .. Len(x) - 1 : k \in 1 .. Len(x)
                OBVIOUS
            <4> QED
                BY <4>1, <4>2, <4>3 DEF StopsAt
        <3>2. StopsAt(s, Holding(SqlTuples))
            BY <1>14, <3>1 DEF StopsAt
        <3>3. seed = SqlTuples[s[Len(s)]].values["delta"]
            BY <1>14, <1>15, <2>2, <3>1
        <3>4. PICK e \in Seq(Stored) : A = s \o e
            BY <1>11, <2>2
        <3>5. s \in Seq(DOMAIN SqlTuples) /\ e \in Seq(DOMAIN SqlTuples) /\ Ancestors(Parents(SqlTuples), t) = s \o e
            BY <1>2, <1>3, <1>8, <1>11, <3>4
        <3> QED
            BY <3>2, <3>3, <3>5, Zenon DEF Ends
    <2> QED
        BY <2>1, <2>2
<1>17. PgHistory(pg, t) = History(seed, RowsOf(pg.writes, s))
    BY <1>5, <1>6, <1>7, <1>15 DEF PgHistory
<1>18. SortedHistory(SqlTuples, sql.writes, t) = History(seed, RowsOf(sql.writes, s))
    BY <1>16, WalkEnds
<1>19. sql.writes = pg.writes
    BY DEF WritesInv
<1> QED
    BY <1>17, <1>18, <1>19

\* What a put of n, after q, does for the delta channel: the put has a version
\* of its own, with its value, or the version that BaseOf(p) has.
DeltaStep(n, p, q) ==
    /\ n = puts + 1 /\ puts' = n /\ p \in Stored \cup {NoId} /\ q \in Stored \cup {NoId}
    /\ DOMAIN given' = Stored \cup {n} /\ given'[n].parent = q
    /\ \A i \in Stored : given'[i] = given[i]
    /\ mem'.writes = mem.writes /\ sql'.writes = sql.writes /\ pg'.writes = pg.writes
    /\ \A ver : ver[2] # n => /\ BlobAt(mem', "delta", ver) = BlobAt(mem, "delta", ver)
                              /\ BlobAt(pg', "delta", ver) = BlobAt(pg, "delta", ver)
    /\ \/ /\ given'[n].versions["delta"][2] = n
          /\ BlobAt(mem', "delta", given'[n].versions["delta"]) = given'[n].values["delta"]
          /\ BlobAt(pg', "delta", given'[n].versions["delta"]) = given'[n].values["delta"]
       \/ given'[n].versions["delta"] = BaseOf(p).versions["delta"]

\* A put of cp on the savers with a history, after q.
DeltaCall(n, p, q, cp, new) ==
    /\ n = puts + 1 /\ puts' = n /\ new \subseteq Channels
    /\ p \in Stored \cup {NoId} /\ q \in Stored \cup {NoId}
    /\ DOMAIN given' = Stored \cup {n} /\ \A i \in Stored : given'[i] = given[i]
    /\ given'[n].parent = q /\ given'[n].values = cp.values /\ given'[n].versions = cp.versions
    /\ \A ch \in new : cp.versions[ch][2] = n
    /\ "delta" \notin new => cp.versions["delta"] = BaseOf(p).versions["delta"]
    /\ IsOf(cp.values["delta"], {"plain", "snapshot"})
    /\ mem' = MemPut(mem, n, q, cp, new)
    /\ sql' = SqlPut(sql, n, q, cp)
    /\ pg' = PgPut(pg, n, q, cp, new)

LEMMA PutsDelta ==
    ASSUME ThreadInv, NEW n, NEW p, NEW q, NEW cp, NEW new, DeltaCall(n, p, q, cp, new)
    PROVE  DeltaStep(n, p, q)
<1> USE DEF DeltaCall
<1>1. puts \in Nat
    BY DEF ThreadInv, Ids
<1>2. /\ mem'.blobs = Over(mem.blobs, Blobs(cp, new)) /\ mem'.writes = mem.writes
      /\ sql'.writes = sql.writes
      /\ pg'.blobs = Over(Blobs(cp, PgMoved(cp, new)), pg.blobs) /\ pg'.writes = pg.writes
    BY DEF ThreadInv, MemInv, SqlInv, PgInv, MemPut, SqlPut, PgPut
<1>3. /\ \A b \in DOMAIN mem.blobs : b[2][2] # n
      /\ \A b \in DOMAIN pg.blobs : b[2][2] # n
    BY <1>1 DEF ThreadInv, MemInv, PgInv, Old
<1>4. /\ \A ver : ver[2] # n => BlobAt(mem', "delta", ver) = BlobAt(mem, "delta", ver)
      /\ "delta" \in new => BlobAt(mem', "delta", cp.versions["delta"]) = cp.values["delta"]
    <2>1. Added(mem, mem', n, cp, new)
        BY <1>2, <1>3, BlobsAdded, Zenon
    <2> QED
        BY <2>1 DEF Added
<1>5. /\ \A ver : ver[2] # n => BlobAt(pg', "delta", ver) = BlobAt(pg, "delta", ver)
      /\ "delta" \in new => BlobAt(pg', "delta", cp.versions["delta"]) = cp.values["delta"]
    <2>1. PICK S : S = PgMoved(cp, new)
        OBVIOUS
    <2>2. pg'.blobs = Over(Blobs(cp, S), pg.blobs)
        BY <1>2, <2>1
    <2>3. S \subseteq new /\ "delta" \in new => ("delta" \in S <=> cp.values["delta"].kind \in Moved)
        BY <2>1 DEF PgMoved, Moved
    <2>4. \A ch \in S : cp.versions[ch][2] = n
        BY <2>1 DEF PgMoved
    <2>5. Added(pg, pg', n, cp, S)
        BY <1>3, <2>2, <2>4, BlobsAdded, Zenon
    <2>6. cp.values["delta"].kind \notin Moved => cp.values["delta"] = Absent
        BY DEF IsOf, Moved
    <2>7. ASSUME "delta" \in new PROVE BlobAt(pg', "delta", cp.versions["delta"]) = cp.values["delta"]
        <3>1. CASE "delta" \in S
            BY <2>5, <3>1 DEF Added
        <3>2. CASE "delta" \notin S
            <4>1. cp.values["delta"] = Absent
                BY <2>1, <2>6, <2>7, <3>2 DEF PgMoved, Moved
            <4> QED
                BY <2>5, <2>7, <3>2, <4>1 DEF Added
        <3> QED
            BY <3>1, <3>2
    <2> QED
        BY <2>1, <2>5, <2>7 DEF Added
<1>6. "delta" \in Channels
    BY DEF Channels
<1> QED
    BY <1>2, <1>4, <1>5, <1>6 DEF DeltaStep

LEMMA PutIsDelta ==
    ASSUME ThreadInv, NEW p \in Bases, NEW to, NEW gone, NEW live, NEW applied, NEW snap, NEW info,
           PlainSets(to, gone), Put(puts + 1, p, to, gone, live, applied, snap, info)
    PROVE  /\ DeltaStep(puts + 1, p, p)
           /\ given'[puts + 1].live = live
           /\ given'[puts + 1].values["delta"] = ValueOf(puts + 1, p, to, gone, live, snap, "delta")
           /\ given'[puts + 1].versions["delta"] # BaseOf(p).versions["delta"]
                 => (snap /\ migrated) \/ applied # <<>>
           /\ given'[puts + 1].versions["delta"] = BaseOf(p).versions["delta"]
                 => ~(snap /\ migrated) /\ applied = <<>>
<1>1. PICK n : n = puts + 1
    OBVIOUS
<1>2. PICK cp, new :
         /\ cp = CpOf(n, p, to, gone, live, applied, snap)
         /\ new = NewOf(to, gone, applied, snap)
         /\ given' = Over(given, At(n, [values |-> cp.values, versions |-> cp.versions,
                                        parent |-> p, live |-> live, info |-> info]))
         /\ mem' = MemPut(mem, n, p, cp, new)
         /\ sql' = SqlPut(sql, n, p, cp)
         /\ pg' = PgPut(pg, n, p, cp, new)
    BY <1>1, PutSets
<1>3. puts' = n
    BY <1>1, PutSets
<1>4. /\ puts \in Nat /\ Stored \subseteq 1 .. puts /\ n \notin Stored /\ migrated \in BOOLEAN
      /\ p \in Stored \cup {NoId} /\ "delta" \in Channels
    BY <1>1 DEF ThreadInv, Ids, Bases, Channels
<1>5. /\ new \subseteq Channels
      /\ "delta" \in new <=> (snap /\ migrated) \/ applied # <<>>
    <2>1. Channels = {"obj", "prim", "delta"} /\ "obj" # "delta" /\ "prim" # "delta"
        BY DEF Channels
    <2>2. "delta" \notin to \cup gone /\ to \cup gone \subseteq Channels
        BY <2>1 DEF PlainSets
    <2> QED
        BY <1>2, <2>1, <2>2 DEF NewOf, DeltaChanged
<1>6. /\ cp.values = [ch \in Channels |-> ValueOf(n, p, to, gone, live, snap, ch)]
      /\ cp.versions = [ch \in Channels |-> IF ch \in new THEN NextVersion(BaseOf(p).versions[ch], n)
                                            ELSE BaseOf(p).versions[ch]]
    BY <1>2, Zenon DEF CpOf
<1>7. /\ \A ch \in new : cp.versions[ch][2] = n
      /\ "delta" \notin new => cp.versions["delta"] = BaseOf(p).versions["delta"]
    BY <1>4, <1>5, <1>6 DEF NextVersion
<1>8. cp.values["delta"] = ValueOf(n, p, to, gone, live, snap, "delta")
    BY <1>4, <1>6, Zenon
<1>9. IsOf(cp.values["delta"], {"plain", "snapshot"})
    <2>1. ValuesAre(n, p, to, gone, live, snap)
        BY ValueIs, Zenon
    <2> QED
        BY <1>4, <1>8, <2>1 DEF ValuesAre, IsOf, Value
<1>10. /\ DOMAIN given' = Stored \cup {n}
       /\ \A i \in Stored : given'[i] = given[i]
       /\ given'[n] = [values |-> cp.values, versions |-> cp.versions,
                       parent |-> p, live |-> live, info |-> info]
    <2>1. n \in {n} /\ Stored = DOMAIN given
        BY DEF Stored
    <2> QED
        BY <1>2, <1>4, <2>1 DEF Over, At
<1>11. /\ given'[n].parent = p /\ given'[n].values = cp.values /\ given'[n].versions = cp.versions
       /\ given'[n].live = live
    BY <1>10
<1>12. DeltaStep(n, p, p)
    <2>1. DeltaCall(n, p, p, cp, new)
        BY <1>1, <1>2, <1>3, <1>4, <1>5, <1>7, <1>9, <1>10, <1>11 DEF DeltaCall
    <2> QED
        BY <2>1, PutsDelta
<1>13. BaseOf(p).versions["delta"][2] # n
    <2>1. Proper(BaseOf(p), puts)
        BY <1>4, BaseIs
    <2> QED
        BY <1>1, <1>4, <2>1 DEF Proper
<1> QED
    BY <1>1, <1>5, <1>7, <1>8, <1>11, <1>12, <1>13

LEMMA CopyIsDelta ==
    ASSUME ThreadInv, ParentInv, NEW p \in Stored, UpdateCopy(p)
    PROVE  /\ DeltaStep(puts + 1, p, given[p].parent)
           /\ given'[puts + 1].live = Load(p)
           /\ given'[puts + 1].values = given[p].values
           /\ given'[puts + 1].versions = given[p].versions
<1>1. PICK n, q, cp, info :
         /\ n = puts + 1 /\ q = given[p].parent
         /\ cp = [values |-> SqlTuple(sql, p).values, versions |-> given[p].versions]
         /\ given' = Over(given, At(n, [values |-> cp.values, versions |-> cp.versions, parent |-> q,
                                        live |-> Load(p), info |-> info]))
         /\ mem' = MemPut(mem, n, q, cp, {})
         /\ sql' = SqlPut(sql, n, q, cp)
         /\ pg' = PgPut(pg, n, q, cp, {})
         /\ puts' = n
    BY Zenon DEF UpdateCopy
<1>2. puts \in Nat /\ Stored \subseteq 1 .. puts /\ n \notin Stored
    BY <1>1 DEF ThreadInv, Ids
<1>3. q \in Stored \cup {NoId} /\ BaseOf(p) = given[p] /\ p \in Stored \cup {NoId}
    <2>1. q \in Stored \cup {NoId} /\ p # NoId
        BY <1>1, <1>2 DEF ParentInv, NoId
    <2> QED
        BY <2>1 DEF BaseOf
<1>4. cp.values = given[p].values /\ cp.versions = given[p].versions
    BY <1>1 DEF SqlTuple, ThreadInv, SqlInv
<1>5. IsOf(cp.values["delta"], {"plain", "snapshot"})
    BY <1>4 DEF ThreadInv, GivenInv, Proper
<1>6. /\ DOMAIN given' = Stored \cup {n}
      /\ \A i \in Stored : given'[i] = given[i]
      /\ given'[n] = [values |-> cp.values, versions |-> cp.versions, parent |-> q,
                      live |-> Load(p), info |-> info]
    <2>1. n \in {n} /\ Stored = DOMAIN given
        BY DEF Stored
    <2> QED
        BY <1>1, <1>2, <2>1 DEF Over, At
<1>7. /\ given'[n].parent = q /\ given'[n].values = cp.values /\ given'[n].versions = cp.versions
      /\ given'[n].live = Load(p)
    BY <1>6
<1>8. \A ch \in {} : cp.versions[ch][2] = n
    OBVIOUS
<1>9. cp.versions["delta"] = BaseOf(p).versions["delta"]
    BY <1>3, <1>4
<1>10. DeltaStep(n, p, q)
    <2>1. DeltaCall(n, p, q, cp, {})
        BY <1>1, <1>3, <1>5, <1>6, <1>7, <1>8, <1>9 DEF DeltaCall
    <2> QED
        BY <2>1, PutsDelta
<1> QED
    BY <1>1, <1>4, <1>7, <1>10

\* What a step does for the delta channel: nothing, nothing but writes, a put, a
\* copy, or the end of the thread.
StepsAlike ==
    \/ /\ given' = given /\ mem'.blobs = mem.blobs /\ pg'.blobs = pg.blobs
    \/ given' = None
    \/ \E p \in Bases : DeltaStep(puts + 1, p, p)
    \/ \E p \in Stored : /\ DeltaStep(puts + 1, p, given[p].parent)
                         /\ given'[puts + 1].values = given[p].values
                         /\ given'[puts + 1].versions = given[p].versions

LEMMA SavesAlike ==
    ASSUME ThreadInv, NEW c, NEW t, NEW list, SaveWrites(c, t, list), given' = given
    PROVE  StepsAlike
<1>1. /\ mem' = MemSave(mem, c, t, list)
      /\ pg' = [pg EXCEPT !.writes = SqlWrites(@, NewRows(c, t, list))]
    BY DEF SaveWrites
<1>2. mem'.blobs = mem.blobs /\ pg'.blobs = pg.blobs
    BY <1>1 DEF MemSave, ThreadInv, MemInv, PgInv
<1> QED
    BY <1>2 DEF StepsAlike

LEMMA PutsAlike ==
    ASSUME ThreadInv, NEW p \in Bases, NEW to, NEW gone, NEW live, NEW applied, NEW snap, NEW info,
           PlainSets(to, gone), Put(puts + 1, p, to, gone, live, applied, snap, info)
    PROVE  StepsAlike
<1>1. DeltaStep(puts + 1, p, p)
    BY PutIsDelta
<1> QED
    BY <1>1 DEF StepsAlike

LEMMA CountedAlike ==
    ASSUME ThreadInv, NEW p \in Bases, NEW to, NEW gone, NEW live, NEW applied, NEW source, NEW next,
           PlainSets(to, gone), PutCounted(p, to, gone, live, applied, source, next)
    PROVE  StepsAlike
<1>1. PICK snap, info : Put(puts + 1, p, to, gone, live, applied, snap, info)
    BY Zenon DEF PutCounted
<1> QED
    BY <1>1, PutsAlike

LEMMA NextAlike ==
    ASSUME ThreadInv, ParentInv, [Next]_vars
    PROVE  StepsAlike
<1>0. run.pc # "off" => run.at \in Bases
    BY DEF ThreadInv, RunInv
<1>1. CASE UNCHANGED <<given, mem, pg>>
    BY <1>1 DEF StepsAlike
<1>2. ASSUME NEW p \in Bases, NEW direct \in BOOLEAN, InputRun(p, direct) PROVE StepsAlike
    <2>1. given' = given
        BY <1>2 DEF InputRun
    <2>2. CASE direct /\ migrated
        <3>1. PICK list : SaveWrites(p, NullTask, list)
            BY <1>2, <2>2, Zenon DEF InputRun
        <3> QED
            BY <2>1, <3>1, SavesAlike
    <2>3. CASE ~(direct /\ migrated)
        <3>1. UNCHANGED savers
            BY <1>2, <2>3, Zenon DEF InputRun
        <3> QED
            BY <1>1, <2>1, <3>1 DEF savers
    <2> QED
        BY <2>2, <2>3
<1>3. ASSUME NEW p \in Stored, ResumeRun(p) PROVE StepsAlike
    BY <1>1, <1>3 DEF ResumeRun, savers
<1>4. ASSUME NEW p \in Stored, ForkRun(p) PROVE StepsAlike
    <2>1. PICK live, nulls : PutCounted(p, {}, {}, live, nulls, "fork", TRUE)
        BY <1>4, Zenon DEF ForkRun
    <2>2. p \in Bases /\ PlainSets({}, {})
        BY DEF Bases, PlainSets
    <2> QED
        BY <2>1, <2>2, CountedAlike
<1>5. ASSUME NEW toDelta \in BOOLEAN, TaskDone(toDelta) PROVE StepsAlike
    <2>1. PICK list : SaveWrites(run.at, NodeTask, list)
        BY <1>5, Zenon DEF TaskDone
    <2>2. given' = given
        BY <1>5 DEF TaskDone
    <2> QED
        BY <2>1, <2>2, SavesAlike
<1>6. ASSUME NEW next \in BOOLEAN, Superstep(next) PROVE StepsAlike
    <2>1. PICK live, wrote : PutCounted(run.at, {"obj"}, {"prim"}, live, wrote, "loop", next)
        BY <1>6, Zenon DEF Superstep
    <2>2. run.at \in Bases /\ PlainSets({"obj"}, {"prim"})
        BY <1>0, <1>6 DEF Superstep, PlainSets
    <2> QED
        BY <2>1, <2>2, CountedAlike
<1>7. ASSUME NEW p \in Stored, Update(p) PROVE StepsAlike
    <2>1. PICK task, list : SaveWrites(p, task, list)
        BY <1>7, Zenon DEF Update
    <2>2. given' = given
        BY <1>7 DEF Update
    <2> QED
        BY <2>1, <2>2, SavesAlike
<1>8. ASSUME NEW p \in Stored, UpdateEnd(p) PROVE StepsAlike
    <2>1. PICK live, applied, info : Put(puts + 1, p, {}, {"prim"}, live, applied, FALSE, info)
        BY <1>8, Zenon DEF UpdateEnd
    <2>2. PICK snap : Put(puts + 1, p, {}, {"prim"}, live, applied, snap, info)
        BY <2>1, Zenon
    <2>3. p \in Bases /\ PlainSets({}, {"prim"})
        BY DEF Bases, PlainSets
    <2> QED
        BY <2>2, <2>3, PutsAlike
<1>9. ASSUME NEW p \in Stored, UpdateCopy(p) PROVE StepsAlike
    BY <1>9, CopyIsDelta DEF StepsAlike
<1>10. ASSUME NEW p \in Bases, UpdateInput(p) PROVE StepsAlike
    <2>1. PICK live, applied, info : Put(puts + 1, p, {"prim"}, {}, live, applied, FALSE, info)
        BY <1>10, Zenon DEF UpdateInput
    <2>2. PICK snap : Put(puts + 1, p, {"prim"}, {}, live, applied, snap, info)
        BY <2>1, Zenon
    <2>3. PlainSets({"prim"}, {})
        BY DEF PlainSets
    <2> QED
        BY <2>2, <2>3, PutsAlike
<1>11. CASE InputPut
    <2>1. PICK live, wrote : PutCounted(run.at, {"prim"}, {}, live, wrote, "input", TRUE)
        BY <1>11, Zenon DEF InputPut
    <2>2. run.at \in Bases /\ PlainSets({"prim"}, {})
        BY <1>0, <1>11 DEF InputPut, PlainSets
    <2> QED
        BY <2>1, <2>2, CountedAlike
<1>12. CASE UpdatePut
    <2>1. PICK live, wrote : PutCounted(run.at, {}, {}, live, wrote, "update", TRUE)
        BY <1>12, Zenon DEF UpdatePut
    <2>2. run.at \in Bases /\ PlainSets({}, {})
        BY <1>0, <1>12 DEF UpdatePut, PlainSets
    <2> QED
        BY <2>1, <2>2, CountedAlike
<1>13. CASE UpdateFresh
    <2>1. PICK live, applied : PutCounted(NoId, {"obj"}, {}, live, applied, "update", TRUE)
        BY <1>13, Zenon DEF UpdateFresh
    <2>2. NoId \in Bases /\ PlainSets({"obj"}, {})
        BY <1>13 DEF UpdateFresh, Bases, PlainSets
    <2> QED
        BY <2>1, <2>2, CountedAlike
<1>14. CASE TaskInterrupts
    <2>1. PICK list : SaveWrites(run.at, NodeTask, list)
        BY <1>14, Zenon DEF TaskInterrupts
    <2>2. given' = given
        BY <1>14 DEF TaskInterrupts
    <2> QED
        BY <2>1, <2>2, SavesAlike
<1>15. CASE UpdateInputWrites
    <2>1. PICK list : SaveWrites(run.at, InputTask, list)
        BY <1>15, Zenon DEF UpdateInputWrites
    <2>2. given' = given
        BY <1>15 DEF UpdateInputWrites
    <2> QED
        BY <2>1, <2>2, SavesAlike
<1>16. CASE Crash \/ Migrate \/ Done \/ UNCHANGED vars
    BY <1>1, <1>16 DEF Crash, Migrate, Done, vars, savers
<1>17. CASE DeleteThread
    BY <1>17 DEF DeleteThread, StepsAlike
<1> QED
    BY <1>2, <1>3, <1>4, <1>5, <1>6, <1>7, <1>8, <1>9, <1>10, <1>11, <1>12, <1>13, <1>14,
       <1>15, <1>16, <1>17 DEF Next

LEMMA NextPlain ==
    ASSUME ThreadInv, ParentInv, PlainInv, [Next]_vars
    PROVE  PlainInv'
<1>1. CASE given' = given /\ mem'.blobs = mem.blobs
    BY <1>1 DEF PlainInv, Stored, BlobAt
<1>2. CASE given' = None
    <2>1. Stored' = {}
        BY <1>2 DEF Stored, None
    <2> QED
        BY <2>1 DEF PlainInv
<1>3. ASSUME NEW n, NEW p, NEW q, DeltaStep(n, p, q),
             \/ q = p
             \/ /\ p \in Stored /\ q = given[p].parent
                /\ given'[n].values = given[p].values /\ given'[n].versions = given[p].versions
      PROVE  PlainInv'
    <2>1. /\ puts \in Nat /\ n = puts + 1 /\ n \notin Stored /\ Stored' = Stored \cup {n}
          /\ Stored \subseteq 1 .. puts /\ "delta" \in Channels
        BY <1>3 DEF DeltaStep, ThreadInv, Ids, Stored, Channels
    <2>2. \A i \in Stored : /\ given'[i] = given[i] /\ given[i].versions["delta"][2] # n
                            /\ given[i].parent # n
        <3>1. \A i \in Stored : given[i].versions["delta"][2] \in 0 .. puts
            BY <2>1 DEF ThreadInv, GivenInv, Proper
        <3>2. \A i \in Stored : given[i].parent # n
            BY <2>1 DEF ParentInv, NoId
        <3> QED
            BY <1>3, <2>1, <3>1, <3>2 DEF DeltaStep
    <2>3. \A ver : ver[2] # n => BlobAt(mem', "delta", ver) = BlobAt(mem, "delta", ver)
        BY <1>3 DEF DeltaStep
    <2> DEFINE Fits(i) ==
                   BlobAt(mem, "delta", given[i].versions["delta"]).kind = "plain" =>
                       \/ given[i].values["delta"].kind = "plain"
                       \/ /\ given[i].parent \in Stored
                          /\ given[given[i].parent].versions["delta"] = given[i].versions["delta"]
    <2>4. ASSUME NEW i \in Stored PROVE Fits(i)'
        <3>1. Fits(i)
            BY DEF PlainInv
        <3>2. BlobAt(mem', "delta", given[i].versions["delta"]) = BlobAt(mem, "delta", given[i].versions["delta"])
            BY <2>2, <2>3
        <3>3. given[i].parent \in Stored => given'[given[i].parent] = given[given[i].parent]
            BY <2>2
        <3>4. given'[i] = given[i]
            BY <2>2
        <3> QED
            BY <2>1, <3>1, <3>2, <3>3, <3>4
    <2>5. Fits(n)'
        <3>1. SUFFICES ASSUME BlobAt(mem', "delta", given'[n].versions["delta"]).kind = "plain"
                       PROVE  \/ given'[n].values["delta"].kind = "plain"
                              \/ /\ given'[n].parent \in Stored'
                                 /\ given'[given'[n].parent].versions["delta"] = given'[n].versions["delta"]
            OBVIOUS
        <3>2. CASE BlobAt(mem', "delta", given'[n].versions["delta"]) = given'[n].values["delta"]
            BY <3>1, <3>2
        <3>3. CASE given'[n].versions["delta"] = BaseOf(p).versions["delta"]
            <4>1. p \in Stored \cup {NoId} /\ 0 \notin Stored
                BY <1>3, <2>1 DEF DeltaStep
            <4>2. BaseOf(p).versions["delta"][2] # n
                <5>1. Proper(BaseOf(p), puts)
                    BY <4>1, BaseIs
                <5> QED
                    BY <2>1, <5>1 DEF Proper
            <4>3. BlobAt(mem, "delta", BaseOf(p).versions["delta"]).kind = "plain"
                BY <2>3, <3>1, <3>3, <4>2
            <4>4. p \in Stored
                <5>1. ASSUME p = NoId PROVE FALSE
                    <6>1. MemHolds(mem, BaseOf(p)) /\ BaseOf(p).values["delta"] = Absent
                        BY <2>1, <4>1, <5>1, BaseIs DEF BaseOf
                    <6>2. BaseOf(p).versions["delta"] = NoVersion
                        BY <2>1, <5>1 DEF BaseOf
                    <6>3. NoVersion[2] = 0
                        BY DEF NoVersion
                    <6>4. <<"delta", NoVersion>> \notin DOMAIN mem.blobs
                        <7>1. ASSUME <<"delta", NoVersion>> \in DOMAIN mem.blobs PROVE FALSE
                            <8>1. <<"delta", NoVersion>>[2][2] \in 1 .. puts
                                BY <7>1 DEF ThreadInv, MemInv, Old
                            <8> QED
                                BY <6>3, <8>1
                        <7> QED
                            BY <7>1
                    <6>5. BlobAt(mem, "delta", NoVersion) = Absent
                        BY <6>4 DEF BlobAt
                    <6> QED
                        BY <4>3, <6>2, <6>5 DEF Absent, Value
                <5> QED
                    BY <4>1, <5>1
            <4>5. BaseOf(p) = given[p] /\ given'[p] = given[p] /\ given'[n].parent = q
                BY <1>3, <2>2, <4>1, <4>4 DEF BaseOf, NoId, DeltaStep
            <4>6. CASE q = p
                BY <2>1, <3>3, <4>4, <4>5, <4>6
            <4>7. CASE /\ q = given[p].parent /\ given'[n].values = given[p].values
                       /\ given'[n].versions = given[p].versions
                <5>1. Fits(p)
                    BY <4>4 DEF PlainInv
                <5>2. q \in Stored => given'[q] = given[q]
                    BY <2>2
                <5> QED
                    BY <2>1, <4>3, <4>5, <4>7, <5>1, <5>2
            <4> QED
                BY <1>3, <4>6, <4>7
        <3> QED
            BY <1>3, <3>2, <3>3 DEF DeltaStep
    <2> QED
        BY <2>1, <2>4, <2>5 DEF PlainInv
<1>4. StepsAlike
    BY NextAlike
<1> QED
    BY <1>1, <1>2, <1>3, <1>4 DEF StepsAlike


-----------------------------------------------------------------------------
(* What is rebuilt from a history.                                         *)

LEMMA ListSums ==
    ASSUME NEW a, NEW b, NEW c, IsList(a), IsList(b), IsList(c)
    PROVE  (a \o b) \o c = a \o (b \o c) /\ IsList(a \o b) /\ <<>> \o a = a /\ a \o <<>> = a
<1> DEFINE A == {a[i] : i \in DOMAIN a}
           B == {b[i] : i \in DOMAIN b}
           C == {c[i] : i \in DOMAIN c}
           D == A \cup B \cup C
<1>1. a \in Seq(A) /\ b \in Seq(B) /\ c \in Seq(C)
    BY DEF IsList
<1> HIDE DEF A, B, C
<1>2. a \in Seq(D) /\ b \in Seq(D) /\ c \in Seq(D)
    BY <1>1
<1> HIDE DEF D
<1>3. PICK x \in Seq(D), y \in Seq(D), z \in Seq(D) : x = a /\ y = b /\ z = c
    BY <1>2
<1>4. (x \o y) \o z = x \o (y \o z)
    BY ConcatAssociative
<1>5. <<>> \o x = x /\ x \o <<>> = x
    BY ConcatEmptySeq
<1>6. IsList(a \o b)
    BY ConcatIs
<1> QED
    BY <1>3, <1>4, <1>5, <1>6

LEMMA SumsAre ==
    ASSUME NEW a, NEW b, NEW c, IsList(a), IsList(b), IsList(c)
    PROVE  Sums(a, b, c)
BY ListSums DEF Sums

\* The lists of the first n members of a chain, the last one's first.
JoinsTo(f, lists, c, n) ==
    f = [i \in 0 .. n |-> IF i = 0 THEN <<>> ELSE lists[c[i]] \o f[i - 1]]

LEMMA JoinsExist ==
    ASSUME NEW lists, NEW c, NEW n \in Nat
    PROVE  \E f : JoinsTo(f, lists, c, n)
<1> DEFINE Bad == {k \in Nat : ~ \E f : JoinsTo(f, lists, c, k)}
<1> SUFFICES ASSUME n \in Bad PROVE FALSE
    OBVIOUS
<1>1. PICK k \in Bad : \A m \in Bad : k <= m
    BY NatMin
<1>2. k # 0
    <2> DEFINE f == [i \in 0 .. 0 |-> <<>>]
    <2>1. f = [i \in 0 .. 0 |-> IF i = 0 THEN <<>> ELSE lists[c[i]] \o f[i - 1]]
        OBVIOUS
    <2>2. JoinsTo(f, lists, c, 0)
        BY <2>1 DEF JoinsTo
    <2> QED
        BY <2>2
<1>3. k \in Nat /\ k - 1 \in Nat /\ ~(k <= k - 1)
    BY <1>2
<1>4. PICK f : JoinsTo(f, lists, c, k - 1)
    BY <1>1, <1>3
<1>5. f = [i \in 0 .. k - 1 |-> IF i = 0 THEN <<>> ELSE lists[c[i]] \o f[i - 1]]
    BY <1>4 DEF JoinsTo
<1> DEFINE g == [i \in 0 .. k |-> IF i = 0 THEN <<>> ELSE lists[c[i]] \o f[i - 1]]
<1>6. ASSUME NEW i \in 0 .. k - 1 PROVE g[i] = f[i] /\ i \in 0 .. k
    <2>1. f[i] = IF i = 0 THEN <<>> ELSE lists[c[i]] \o f[i - 1]
        BY <1>5
    <2>2. i \in 0 .. k
        BY <1>3
    <2> QED
        BY <2>1, <2>2
<1>7. \A i \in 0 .. k : i # 0 => i - 1 \in 0 .. k - 1
    BY <1>3
<1>8. \A i \in 0 .. k : g[i] = IF i = 0 THEN <<>> ELSE lists[c[i]] \o g[i - 1]
    BY <1>6, <1>7
<1>9. g = [i \in 0 .. k |-> g[i]]
    OBVIOUS
<1> HIDE DEF g
<1>10. g = [i \in 0 .. k |-> IF i = 0 THEN <<>> ELSE lists[c[i]] \o g[i - 1]]
    BY <1>8, <1>9
<1>11. JoinsTo(g, lists, c, k)
    BY <1>10 DEF JoinsTo
<1> QED
    BY <1>1, <1>11

\* f has the lists of c.
JoinsBy(f, lists, c) ==
    /\ f[0] = <<>> /\ f[Len(c)] = Joined(lists, c)
    /\ \A i \in 1 .. Len(c) : f[i] = lists[c[i]] \o f[i - 1]

LEMMA JoinsAre ==
    ASSUME NEW lists, NEW c, Len(c) \in Nat
    PROVE  \E f : JoinsBy(f, lists, c)
<1> DEFINE n == Len(c)
           f == CHOOSE g : g = [i \in 0 .. n |-> IF i = 0 THEN <<>> ELSE lists[c[i]] \o g[i - 1]]
<1>1. Joined(lists, c) = f[n]
    BY DEF Joined
<1>2. \E g : g = [i \in 0 .. n |-> IF i = 0 THEN <<>> ELSE lists[c[i]] \o g[i - 1]]
    <2>1. PICK g : JoinsTo(g, lists, c, n)
        BY JoinsExist
    <2> QED
        BY <2>1 DEF JoinsTo
<1>3. f = [i \in 0 .. n |-> IF i = 0 THEN <<>> ELSE lists[c[i]] \o f[i - 1]]
    BY <1>2, Zenon
<1> HIDE DEF f
<1>4. 0 \in 0 .. n /\ \A i \in 1 .. n : i \in 0 .. n /\ i # 0
    OBVIOUS
<1>5. f[0] = <<>> /\ \A i \in 1 .. n : f[i] = lists[c[i]] \o f[i - 1]
    BY <1>3, <1>4
<1>6. JoinsBy(f, lists, c)
    BY <1>1, <1>5 DEF JoinsBy
<1> QED
    BY <1>6

\* Only the lists of the chain matter.
LEMMA JoinedAlike ==
    ASSUME NEW A, NEW B, NEW T, NEW c \in Seq(T),
           \A i \in 1 .. Len(c) : A[c[i]] = B[c[i]]
    PROVE  Joined(A, c) = Joined(B, c)
<1>0. PICK n \in Nat : n = Len(c)
    OBVIOUS
<1>1. PICK f : /\ f[0] = <<>> /\ f[n] = Joined(A, c)
               /\ \A i \in 1 .. n : f[i] = A[c[i]] \o f[i - 1]
    <2>1. PICK f : JoinsBy(f, A, c)
        BY <1>0, JoinsAre
    <2> QED
        BY <1>0, <2>1, Zenon DEF JoinsBy
<1>2. PICK g : /\ g[0] = <<>> /\ g[n] = Joined(B, c)
               /\ \A i \in 1 .. n : g[i] = B[c[i]] \o g[i - 1]
    <2>1. PICK g : JoinsBy(g, B, c)
        BY <1>0, JoinsAre
    <2> QED
        BY <1>0, <2>1, Zenon DEF JoinsBy
<1> DEFINE Bad == {i \in 0 .. n : f[i] # g[i]}
<1>3. SUFFICES ASSUME Bad # {} PROVE FALSE
    BY <1>1, <1>2
<1>4. PICK i \in Bad : \A m \in Bad : i <= m
    <2>1. Bad \in SUBSET Nat
        OBVIOUS
    <2> QED
        BY <1>3, <2>1, NatMin
<1>5. i # 0
    BY <1>1, <1>2, <1>4
<1>6. i \in 1 .. n /\ i - 1 \in 0 .. n /\ ~(i <= i - 1)
    BY <1>4, <1>5
<1>7. f[i - 1] = g[i - 1]
    BY <1>4, <1>6
<1>8. f[i] = g[i]
    BY <1>0, <1>1, <1>2, <1>6, <1>7
<1> QED
    BY <1>4, <1>8

\* f has the rows of c.
RowsBy(f, ws, c) ==
    /\ f[0] = <<>> /\ f[Len(c)] = RowsOf(ws, c)
    /\ \A i \in 1 .. Len(c) : f[i] = DeltaRows(ws, c[i]) \o f[i - 1]

LEMMA RowsAre ==
    ASSUME NEW ws, NEW T, NEW c \in Seq(T)
    PROVE  \E f : RowsBy(f, ws, c)
<1>1. PICK lists : lists = [x \in ToSet(c) |-> DeltaRows(ws, x)]
    OBVIOUS
<1>2. PICK f : JoinsBy(f, lists, c)
    <2>1. Len(c) \in Nat
        OBVIOUS
    <2> QED
        BY <2>1, JoinsAre, Zenon
<1>3. \A i \in 1 .. Len(c) : lists[c[i]] = DeltaRows(ws, c[i])
    BY <1>1 DEF ToSet
<1>4. RowsOf(ws, c) = Joined(lists, c)
    BY <1>1, Zenon DEF RowsOf
<1>5. f[0] = <<>> /\ f[Len(c)] = Joined(lists, c)
      /\ \A i \in 1 .. Len(c) : f[i] = lists[c[i]] \o f[i - 1]
    BY <1>2 DEF JoinsBy
<1>6. RowsBy(f, ws, c)
    BY <1>3, <1>4, <1>5, Zenon DEF RowsBy
<1> QED
    BY <1>6

LEMMA NoRows == ASSUME NEW ws PROVE RowsOf(ws, <<>>) = <<>>
<1>1. Len(<<>>) = 0
    OBVIOUS
<1>2. PICK f : RowsBy(f, ws, <<>>)
    <2>1. <<>> \in Seq({})
        OBVIOUS
    <2> QED
        BY <2>1, RowsAre
<1>3. f[0] = <<>> /\ f[Len(<<>>)] = RowsOf(ws, <<>>)
    BY <1>2, Zenon DEF RowsBy
<1> QED
    BY <1>1, <1>3

\* The rows of a longer chain come after.
LEMMA RowsOfMore ==
    ASSUME NEW ws, IsFiniteSet(DOMAIN ws), NEW T, NEW p \in T, NEW c \in Seq(T)
    PROVE  /\ IsList(RowsOf(ws, c))
           /\ RowsOf(ws, <<p>> \o c) = RowsOf(ws, c) \o DeltaRows(ws, p)
<1>0. <<p>> \o c \in Seq(T)
    OBVIOUS
<1>1. PICK d \in Seq(T) : d = <<p>> \o c
    BY <1>0
<1>2. PICK n \in Nat : n = Len(c)
    OBVIOUS
<1>3. Len(d) = n + 1 /\ d[1] = p /\ \A k \in 1 .. n : d[k + 1] = c[k]
    BY <1>1, <1>2
<1>4. PICK f : /\ f[0] = <<>> /\ f[n] = RowsOf(ws, c)
               /\ \A i \in 1 .. n : f[i] = DeltaRows(ws, c[i]) \o f[i - 1]
    <2>1. PICK f : RowsBy(f, ws, c)
        BY <1>2, RowsAre
    <2> QED
        BY <1>2, <2>1, Zenon DEF RowsBy
<1>5. PICK g : /\ g[0] = <<>> /\ g[n + 1] = RowsOf(ws, d)
               /\ \A i \in 1 .. n + 1 : g[i] = DeltaRows(ws, d[i]) \o g[i - 1]
    <2>1. Len(d) \in Nat
        BY <1>3
    <2>2. PICK g : RowsBy(g, ws, d)
        BY <2>1, RowsAre
    <2>3. Len(d) = n + 1
        BY <1>3
    <2> QED
        BY <2>2, <2>3, Zenon DEF RowsBy
<1>6. \A x : IsList(DeltaRows(ws, x))
    BY RowsAreSeq
<1>7. IsList(<<>>)
    BY ShortLists
<1> DEFINE Fits(i) == IsList(f[i]) /\ g[i + 1] = f[i] \o DeltaRows(ws, p)
           Bad == {i \in 0 .. n : ~Fits(i)}
<1>8. SUFFICES ASSUME Bad # {} PROVE FALSE
    <2>1. n \in 0 .. n
        OBVIOUS
    <2>2. Bad = {} => Fits(n)
        BY <2>1
    <2> QED
        BY <1>1, <1>4, <1>5, <2>2
<1>9. PICK i \in Bad : \A m \in Bad : i <= m
    <2>1. Bad \in SUBSET Nat
        OBVIOUS
    <2> QED
        BY <1>8, <2>1, NatMin
<1>10. i # 0
    <2>1. g[1] = DeltaRows(ws, p) \o <<>>
        <3>1. 1 \in 1 .. n + 1 /\ 1 - 1 = 0
            OBVIOUS
        <3> QED
            BY <1>3, <1>5, <3>1
    <2>2. <<>> \o DeltaRows(ws, p) = DeltaRows(ws, p) /\ DeltaRows(ws, p) \o <<>> = DeltaRows(ws, p)
        BY <1>6, <1>7, ListSums
    <2>3. Fits(0)
        BY <1>4, <1>7, <2>1, <2>2
    <2> QED
        BY <1>9, <2>3
<1>11. i \in 1 .. n /\ i - 1 \in 0 .. n /\ ~(i <= i - 1) /\ (i - 1) + 1 = i
       /\ i + 1 \in 1 .. n + 1 /\ (i + 1) - 1 = i
    BY <1>9, <1>10
<1>12. Fits(i - 1)
    BY <1>9, <1>11
<1>13. PICK a, b, e : a = DeltaRows(ws, c[i]) /\ b = f[i - 1] /\ e = DeltaRows(ws, p)
    OBVIOUS
<1>14. IsList(a) /\ IsList(b) /\ IsList(e)
    BY <1>6, <1>12, <1>13
<1>15. f[i] = a \o b /\ g[i + 1] = a \o (b \o e)
    <2>1. f[i] = a \o b
        BY <1>4, <1>11, <1>13
    <2>2. d[i + 1] = c[i]
        BY <1>3, <1>11
    <2>3. g[i + 1] = DeltaRows(ws, d[i + 1]) \o g[i]
        BY <1>5, <1>11
    <2>4. g[i] = b \o e
        BY <1>11, <1>12, <1>13
    <2> QED
        BY <1>13, <2>1, <2>2, <2>3, <2>4
<1>16. IsList(a \o b) /\ (a \o b) \o e = a \o (b \o e)
    <2>1. IsList(a \o b)
        BY <1>14, ConcatIs, Zenon
    <2>2. Sums(a, b, e)
        BY <1>14, SumsAre, Zenon
    <2> QED
        BY <2>1, <2>2, Zenon DEF Sums
<1>17. Fits(i)
    BY <1>13, <1>15, <1>16
<1> QED
    BY <1>9, <1>17

-----------------------------------------------------------------------------
(* The writes of InMemorySaver, as saved and as sorted.                    *)

\* Every two members of K are in the order R, one way.
Orders(R, K) ==
    /\ \A j \in K : <<j, j>> \notin R
    /\ \A i, j, k \in K : <<i, j>> \in R /\ <<j, k>> \in R => <<i, k>> \in R
    /\ \A j, k \in K : j = k \/ <<j, k>> \in R \/ <<k, j>> \in R

\* A list in any order has every row once.
LEMMA ListedLen ==
    ASSUME NEW table, NEW R, IsFiniteSet(DOMAIN table)
    PROVE  IsList(Listed(table, R)) /\ Len(Listed(table, R)) = Cardinality(DOMAIN table)
<1>1. PICK n \in Nat : n = Cardinality(DOMAIN table)
    BY FS_CardinalityType
<1>2. PICK s : s = Listed(table, R)
    OBVIOUS
<1>3. s = [i \in 1 .. n |-> s[i]]
    BY <1>1, <1>2 DEF Listed
<1>4. IsList(s)
    BY <1>3, SeqMap
<1>5. Len(s) = n
    <2>1. s \in Seq({s[i] : i \in DOMAIN s})
        BY <1>4 DEF IsList
    <2>2. Len(s) \in Nat /\ DOMAIN s = 1 .. Len(s)
        BY <2>1
    <2>3. PICK m \in Nat : m = Len(s) /\ 1 .. m = 1 .. n
        BY <1>3, <2>2
    <2>4. ~(m < n)
        <3>1. m < n => n \in 1 .. n /\ n \notin 1 .. m
            OBVIOUS
        <3> QED
            BY <2>3, <3>1
    <2>5. ~(n < m)
        <3>1. n < m => m \in 1 .. m /\ m \notin 1 .. n
            OBVIOUS
        <3> QED
            BY <2>3, <3>1
    <2> QED
        BY <2>3, <2>4, <2>5
<1> QED
    BY <1>1, <1>2, <1>4, <1>5

\* The places of a finite set in an order are 1 .. n.
LEMMA PlacesAre ==
    ASSUME NEW K, IsFiniteSet(K), NEW R, Orders(R, K), NEW n \in Nat, n = Cardinality(K),
           NEW f, f = [k \in K |-> Cardinality({j \in K : <<j, k>> \in R}) + 1]
    PROVE  f \in Injection(K, 1 .. n) /\ f \in Surjection(K, 1 .. n)
<1> DEFINE Below(k) == {j \in K : <<j, k>> \in R}
<1>1. ASSUME NEW k \in K
      PROVE  IsFiniteSet(Below(k)) /\ Cardinality(Below(k)) \in Nat /\ Cardinality(Below(k)) < n
    <2>1. Below(k) \in SUBSET K /\ k \notin Below(k)
        BY DEF Orders
    <2> HIDE DEF Below
    <2>2. /\ IsFiniteSet(Below(k)) /\ Cardinality(Below(k)) <= Cardinality(K)
          /\ (Cardinality(K) = Cardinality(Below(k)) => K = Below(k))
        BY <2>1, FS_Subset
    <2>3. Cardinality(Below(k)) \in Nat
        BY <2>2, FS_CardinalityType
    <2>4. Cardinality(Below(k)) # n
        BY <2>1, <2>2
    <2> QED
        BY <2>2, <2>3, <2>4
<1>2. ASSUME NEW j \in K, NEW k \in K, <<j, k>> \in R
      PROVE  Cardinality(Below(j)) < Cardinality(Below(k))
    <2>1. Below(j) \in SUBSET Below(k)
        BY <1>2 DEF Orders
    <2>2. j \in Below(k) /\ j \notin Below(j)
        BY <1>2 DEF Orders
    <2>3. IsFiniteSet(Below(k)) /\ Cardinality(Below(k)) \in Nat /\ Cardinality(Below(j)) \in Nat
        BY <1>1
    <2> HIDE DEF Below
    <2>4. /\ Cardinality(Below(j)) <= Cardinality(Below(k))
          /\ (Cardinality(Below(k)) = Cardinality(Below(j)) => Below(k) = Below(j))
        BY <2>1, <2>3, FS_Subset
    <2> QED
        BY <2>2, <2>3, <2>4
<1>3. \A k \in K : f[k] = Cardinality(Below(k)) + 1
    OBVIOUS
<1> HIDE DEF Below
<1>4. DOMAIN f = K /\ \A k \in K : f[k] \in 1 .. n
    BY <1>1, <1>3
<1>5. f \in [K -> 1 .. n]
    BY <1>4
<1>6. ASSUME NEW j \in K, NEW k \in K, j # k PROVE f[j] # f[k]
    <2>1. <<j, k>> \in R \/ <<k, j>> \in R
        BY <1>6 DEF Orders
    <2>2. PICK x \in Nat, y \in Nat : x = Cardinality(Below(j)) /\ y = Cardinality(Below(k))
        BY <1>1
    <2>3. x # y
        BY <1>2, <2>1, <2>2
    <2>4. f[j] = x + 1 /\ f[k] = y + 1
        BY <1>3, <2>2
    <2> QED
        BY <2>3, <2>4
<1>7. f \in Injection(K, 1 .. n)
    BY <1>5, <1>6 DEF Injection, IsInjective
<1>8. IsFiniteSet(1 .. n) /\ Cardinality(1 .. n) = n
    BY FS_Interval
<1>9. Cardinality(K) = Cardinality(1 .. n)
    BY <1>8
<1>10. f \in Surjection(K, 1 .. n)
    BY <1>7, <1>8, <1>9, FS_Injection
<1> QED
    BY <1>7, <1>10

\* A list in an order has the values of all rows.
LEMMA ListedSet ==
    ASSUME NEW table, NEW R, IsFiniteSet(DOMAIN table), Orders(R, DOMAIN table)
    PROVE  ToSet(Listed(table, R)) = {table[k] : k \in DOMAIN table}
<1>1. PICK K : K = DOMAIN table
    OBVIOUS
<1>2. PICK n \in Nat : n = Cardinality(K)
    BY <1>1, FS_CardinalityType
<1>3. PICK f : f = [k \in K |-> Cardinality({j \in K : <<j, k>> \in R}) + 1]
    OBVIOUS
<1>4. f \in Injection(K, 1 .. n) /\ f \in Surjection(K, 1 .. n)
    <2>1. IsFiniteSet(K) /\ Orders(R, K)
        BY <1>1
    <2> QED
        BY <1>2, <1>3, <2>1, PlacesAre, Zenon
<1>5. \A j, k \in K : f[j] = f[k] => j = k
    BY <1>4 DEF Injection, IsInjective
<1>6. \A i \in 1 .. n : \E k \in K : f[k] = i
    BY <1>4 DEF Surjection
<1>7. \A k \in K : f[k] \in 1 .. n
    BY <1>4 DEF Injection
<1>8. Listed(table, R) = [i \in 1 .. n |-> table[CHOOSE k \in K : f[k] = i]]
    <2>1. Listed(table, R)
          = [i \in 1 .. n |-> table[CHOOSE k \in K : Cardinality({j \in K : <<j, k>> \in R}) + 1 = i]]
        BY <1>1, <1>2 DEF Listed
    <2>2. \A i \in 1 .. n : (CHOOSE k \in K : Cardinality({j \in K : <<j, k>> \in R}) + 1 = i)
                            = (CHOOSE k \in K : f[k] = i)
        <3>1. \A i : \A k : (k \in K /\ Cardinality({j \in K : <<j, k>> \in R}) + 1 = i)
                            <=> (k \in K /\ f[k] = i)
            BY <1>3
        <3> QED
            BY <3>1
    <2> QED
        BY <2>1, <2>2
<1>9. \A i \in 1 .. n : (CHOOSE k \in K : f[k] = i) \in K /\ f[CHOOSE k \in K : f[k] = i] = i
    BY <1>6
<1>10. \A k \in K : (CHOOSE j \in K : f[j] = f[k]) = k
    BY <1>5
<1>11. PICK s : s = Listed(table, R)
    OBVIOUS
<1>12. DOMAIN s = 1 .. n /\ \A i \in 1 .. n : s[i] = table[CHOOSE k \in K : f[k] = i]
    BY <1>8, <1>11
<1>13. \A i \in 1 .. n : s[i] \in {table[k] : k \in K}
    BY <1>9, <1>12
<1>14. ASSUME NEW k \in K PROVE \E i \in 1 .. n : s[i] = table[k]
    <2>1. PICK i \in 1 .. n : i = f[k]
        BY <1>7
    <2>2. (CHOOSE j \in K : f[j] = i) = k
        BY <1>10, <2>1, Zenon
    <2>3. s[i] = table[k]
        BY <1>12, <2>2
    <2> QED
        BY <2>3
<1>15. ToSet(s) = {s[i] : i \in 1 .. n}
    BY <1>12 DEF ToSet
<1>16. {s[i] : i \in 1 .. n} = {table[k] : k \in K}
    BY <1>13, <1>14
<1> QED
    BY <1>1, <1>11, <1>15, <1>16

LEMMA ConcatSets ==
    ASSUME NEW a, NEW b, IsList(a), IsList(b)
    PROVE  /\ Len(a \o b) = Len(a) + Len(b) /\ Len(a) \in Nat /\ Len(b) \in Nat
           /\ ToSet(a \o b) = ToSet(a) \cup ToSet(b)
<1> DEFINE T == {a[i] : i \in DOMAIN a} \cup {b[i] : i \in DOMAIN b}
<1>1. a \in Seq({a[i] : i \in DOMAIN a}) /\ b \in Seq({b[i] : i \in DOMAIN b})
    BY DEF IsList
<1>2. a \in Seq(T) /\ b \in Seq(T)
    BY <1>1
<1> HIDE DEF T
<1>3. PICK m \in Nat, n \in Nat : m = Len(a) /\ n = Len(b)
    BY <1>2
<1>4. PICK c : c = a \o b
    OBVIOUS
<1>5. /\ Len(c) = m + n /\ DOMAIN c = 1 .. m + n /\ DOMAIN a = 1 .. m /\ DOMAIN b = 1 .. n
      /\ \A i \in 1 .. m + n : c[i] = IF i <= m THEN a[i] ELSE b[i - m]
    BY <1>2, <1>3, <1>4
<1>6. \A i \in 1 .. m + n : c[i] \in ToSet(a) \cup ToSet(b)
    <2>1. \A i \in 1 .. m + n : i <= m => i \in 1 .. m
        OBVIOUS
    <2>2. \A i \in 1 .. m + n : ~(i <= m) => i - m \in 1 .. n
        OBVIOUS
    <2> QED
        BY <1>5, <2>1, <2>2 DEF ToSet
<1>7. \A i \in 1 .. m : a[i] \in ToSet(c)
    <2>1. \A i \in 1 .. m : i \in 1 .. m + n /\ i <= m
        OBVIOUS
    <2>2. \A i \in 1 .. m : c[i] = a[i]
        BY <1>5, <2>1
    <2> QED
        BY <1>5, <2>1, <2>2 DEF ToSet
<1>8. \A i \in 1 .. n : b[i] \in ToSet(c)
    <2>1. \A i \in 1 .. n : m + i \in 1 .. m + n /\ ~(m + i <= m) /\ (m + i) - m = i
        OBVIOUS
    <2>2. \A i \in 1 .. n : c[m + i] = b[i]
        BY <1>5, <2>1
    <2> QED
        BY <1>5, <2>1, <2>2 DEF ToSet
<1>9. ToSet(c) = ToSet(a) \cup ToSet(b)
    BY <1>5, <1>6, <1>7, <1>8 DEF ToSet
<1> QED
    BY <1>3, <1>4, <1>5, <1>9

\* a has what b has, not always in its order.
Alike(a, b) == IsList(a) /\ IsList(b) /\ Len(a) = Len(b) /\ ToSet(a) = ToSet(b)

LEMMA ConcatAlike ==
    ASSUME NEW a, NEW b, NEW c, NEW d, Alike(a, b), Alike(c, d)
    PROVE  Alike(a \o c, b \o d)
<1>1. IsList(a) /\ IsList(b) /\ IsList(c) /\ IsList(d)
      /\ Len(a) = Len(b) /\ Len(c) = Len(d) /\ ToSet(a) = ToSet(b) /\ ToSet(c) = ToSet(d)
    BY DEF Alike
<1>2. IsList(a \o c) /\ IsList(b \o d)
    BY <1>1, ConcatIs
<1>3. Len(a \o c) = Len(a) + Len(c) /\ ToSet(a \o c) = ToSet(a) \cup ToSet(c)
    BY <1>1, ConcatSets, Zenon
<1>4. Len(b \o d) = Len(b) + Len(d) /\ ToSet(b \o d) = ToSet(b) \cup ToSet(d)
    BY <1>1, ConcatSets, Zenon
<1> QED
    BY <1>1, <1>2, <1>3, <1>4, Zenon DEF Alike

LEMMA JoinedSame ==
    ASSUME NEW A, NEW B, NEW T, NEW c \in Seq(T),
           \A i \in 1 .. Len(c) : Alike(A[c[i]], B[c[i]])
    PROVE  Alike(Joined(A, c), Joined(B, c))
<1>0. PICK n \in Nat : n = Len(c)
    OBVIOUS
<1>1. PICK f : /\ f[0] = <<>> /\ f[n] = Joined(A, c)
               /\ \A i \in 1 .. n : f[i] = A[c[i]] \o f[i - 1]
    <2>1. PICK f : JoinsBy(f, A, c)
        BY <1>0, JoinsAre
    <2> QED
        BY <1>0, <2>1, Zenon DEF JoinsBy
<1>2. PICK g : /\ g[0] = <<>> /\ g[n] = Joined(B, c)
               /\ \A i \in 1 .. n : g[i] = B[c[i]] \o g[i - 1]
    <2>1. PICK g : JoinsBy(g, B, c)
        BY <1>0, JoinsAre
    <2> QED
        BY <1>0, <2>1, Zenon DEF JoinsBy
<1> DEFINE Bad == {i \in 0 .. n : ~Alike(f[i], g[i])}
<1>3. SUFFICES ASSUME Bad # {} PROVE FALSE
    <2>1. n \in 0 .. n
        OBVIOUS
    <2>2. Bad = {} => Alike(f[n], g[n])
        BY <2>1
    <2> QED
        BY <1>1, <1>2, <2>2
<1>4. PICK i \in Bad : \A m \in Bad : i <= m
    <2>1. Bad \in SUBSET Nat
        OBVIOUS
    <2> QED
        BY <1>3, <2>1, NatMin
<1>5. i # 0
    <2>1. Alike(<<>>, <<>>)
        BY ShortLists DEF Alike
    <2> QED
        BY <1>1, <1>2, <1>4, <2>1
<1>6. i \in 1 .. n /\ i - 1 \in 0 .. n /\ ~(i <= i - 1)
    BY <1>4, <1>5
<1>7. Alike(f[i - 1], g[i - 1])
    BY <1>4, <1>6
<1>8. Alike(A[c[i]], B[c[i]])
    BY <1>0, <1>6
<1>9. Alike(A[c[i]] \o f[i - 1], B[c[i]] \o g[i - 1])
    BY <1>7, <1>8, ConcatAlike, Zenon
<1>10. f[i] = A[c[i]] \o f[i - 1] /\ g[i] = B[c[i]] \o g[i - 1]
    BY <1>1, <1>2, <1>6
<1>11. Alike(f[i], g[i])
    BY <1>9, <1>10, Zenon
<1> QED
    BY <1>4, <1>11

\* Every key of the dict has a place, and the writes that a task saved without
\* special ones are in the order of their slots.
Keyed(ws) ==
    \A k \in DOMAIN ws :
        /\ k = <<k[1], k[2], k[3]>> /\ k[2] \in Nat /\ (k[3] = Special \/ k[3] \in Nat)
        /\ k[3] = Special => ws[k].ch # "delta"

Placed(D, place) ==
    /\ DOMAIN place = D /\ \A k \in D : place[k] \in Nat
    /\ \A j, k \in D : place[j] = place[k] => j = k
    /\ \E b \in Nat : \A k \in D : place[k] <= b

Rising(D, place, M) ==
    \A k \in D : (k[3] # Special /\ <<k[1], k[2]>> \notin M) =>
        \A s \in Nat : s < k[3] => <<k[1], k[2], s>> \in D /\ place[<<k[1], k[2], s>>] < place[k]

OrderInv ==
    /\ Keyed(mem.writes) /\ Placed(DOMAIN mem.writes, mem.order)
    /\ Rising(DOMAIN mem.writes, mem.order, mixed)

\* The rows of a list: the slots of its regular writes are 0, 1, ...
LEMMA SlotsAre ==
    ASSUME NEW c, NEW t, NEW list, IsList(list)
    PROVE  \E n \in Nat :
              /\ DOMAIN list = 1 .. n
              /\ \A i \in 1 .. n : /\ SlotOf(list, i) = Special \/ SlotOf(list, i) = i - 1
                                   /\ <<c, t, SlotOf(list, i)>> \in DOMAIN NewRows(c, t, list)
              /\ \A k \in DOMAIN NewRows(c, t, list) :
                    /\ k = <<c, t, k[3]>> /\ k[1] = c /\ k[2] = t
                    /\ \E i \in 1 .. n : SlotOf(list, i) = k[3]
<1>1. PICK n \in Nat : DOMAIN list = 1 .. n
    <2>1. list \in Seq({list[i] : i \in DOMAIN list})
        BY DEF IsList
    <2> QED
        BY <2>1
<1>2. DOMAIN NewRows(c, t, list) = {<<c, t, SlotOf(list, i)>> : i \in 1 .. n}
    BY <1>1 DEF NewRows
<1>3. \A i \in 1 .. n : SlotOf(list, i) = Special \/ SlotOf(list, i) = i - 1
    BY DEF SlotOf
<1> QED
    BY <1>1, <1>2, <1>3

\* The places of old keys are kept, those of new ones follow in the list's order.
LEMMA PlacesGrow ==
    ASSUME NEW D, NEW place, Placed(D, place), NEW c, NEW t, NEW list, IsList(list)
    PROVE  LET new == MemOrder(place, c, t, list)
               N == DOMAIN NewRows(c, t, list)
           IN  /\ Placed(D \cup N, new)
               /\ \A k \in D : new[k] = place[k]
               /\ \A j \in D, k \in N \ D : new[j] < new[k]
               /\ \A j, k \in N \ D : (j[3] \in Nat /\ k[3] \in Nat /\ j[3] < k[3]) => new[j] < new[k]
<1> DEFINE N == DOMAIN NewRows(c, t, list)
           idx(k) == CHOOSE i \in DOMAIN list : SlotOf(list, i) = k[3]
           end == Max({place[k] : k \in DOMAIN place} \cup {0})
<1>1. PICK n \in Nat :
          /\ DOMAIN list = 1 .. n
          /\ \A i \in 1 .. n : /\ SlotOf(list, i) = Special \/ SlotOf(list, i) = i - 1
                               /\ <<c, t, SlotOf(list, i)>> \in N
          /\ \A k \in N : /\ k = <<c, t, k[3]>> /\ k[1] = c /\ k[2] = t
                          /\ \E i \in 1 .. n : SlotOf(list, i) = k[3]
    <2>1. IsList(list)
        OBVIOUS
    <2>2. PICK M : M = N
        OBVIOUS
    <2> QED
        BY <2>1, <2>2, SlotsAre
<1>2. DOMAIN place = D /\ (\A k \in D : place[k] \in Nat)
      /\ (\A j, k \in D : place[j] = place[k] => j = k)
    BY DEF Placed
<1>3. end \in Nat /\ \A k \in D : place[k] <= end
    <2>1. PICK b \in Nat : \A k \in D : place[k] <= b
        BY DEF Placed
    <2> DEFINE S == {place[k] : k \in DOMAIN place} \cup {0}
    <2>2. S \in SUBSET (0 .. b) /\ S # {}
        BY <1>2, <2>1
    <2>3. \A k \in D : place[k] \in S
        BY <1>2
    <2> HIDE DEF S
    <2>4. Max(S) \in S /\ \A y \in S : y <= Max(S)
        BY <2>2, MaxFact
    <2>5. PICK m : m = Max(S)
        OBVIOUS
    <2>6. m \in S /\ \A y \in S : y <= m
        BY <2>4, <2>5
    <2>7. m \in Nat
        BY <2>2, <2>6
    <2>8. \A k \in D : place[k] <= m
        BY <2>3, <2>6, Zenon
    <2> QED
        BY <2>5, <2>7, <2>8 DEF S
<1>4. MemOrder(place, c, t, list) = Over(place, [k \in N \ D |-> end + idx(k)])
    BY <1>2 DEF MemOrder
<1> HIDE DEF end
<1>5. ASSUME NEW k \in N PROVE idx(k) \in 1 .. n /\ SlotOf(list, idx(k)) = k[3]
    <2>1. \E i \in DOMAIN list : SlotOf(list, i) = k[3]
        BY <1>1
    <2> QED
        BY <1>1, <2>1
<1>6. ASSUME NEW k \in N, k[3] \in Nat PROVE idx(k) = k[3] + 1
    <2>1. k[3] # Special
        BY <1>6 DEF Special
    <2>2. PICK i \in 1 .. n : i = idx(k) /\ SlotOf(list, i) = k[3]
        BY <1>5
    <2>3. k[3] = i - 1
        BY <1>1, <2>1, <2>2
    <2> QED
        BY <2>2, <2>3
<1>7. ASSUME NEW j \in N, NEW k \in N, idx(j) = idx(k) PROVE j = k
    <2>1. SlotOf(list, idx(j)) = j[3] /\ SlotOf(list, idx(k)) = k[3]
        BY <1>5
    <2>2. j[3] = k[3]
        BY <1>7, <2>1
    <2>3. j = <<c, t, j[3]>> /\ k = <<c, t, k[3]>>
        BY <1>1
    <2> QED
        BY <2>2, <2>3
<1> HIDE DEF N, idx
<1>8. PICK new : new = MemOrder(place, c, t, list)
    OBVIOUS
<1>9. DOMAIN new = D \cup N
    BY <1>2, <1>4, <1>8 DEF Over
<1>10. \A k \in D : new[k] = place[k]
    BY <1>2, <1>4, <1>8 DEF Over
<1>11. \A k \in N \ D : new[k] = end + idx(k) /\ idx(k) \in 1 .. n /\ new[k] \in Nat /\ new[k] > end /\ new[k] <= end + n
    <2>1. \A k \in N \ D : new[k] = end + idx(k)
        BY <1>2, <1>4, <1>8 DEF Over
    <2> QED
        BY <1>3, <1>5, <2>1
<1>12. \A j \in D, k \in N \ D : new[j] < new[k]
    <2>1. \A j \in D : new[j] \in Nat /\ new[j] <= end
        BY <1>2, <1>3, <1>10
    <2> QED
        BY <1>3, <1>11, <2>1
<1>13. ASSUME NEW j \in N \ D, NEW k \in N \ D, j[3] \in Nat, k[3] \in Nat, j[3] < k[3]
       PROVE  new[j] < new[k]
    <2>1. idx(j) = j[3] + 1 /\ idx(k) = k[3] + 1
        BY <1>6, <1>13
    <2>2. new[j] = end + idx(j) /\ new[k] = end + idx(k)
        BY <1>11
    <2> QED
        BY <1>3, <1>13, <2>1, <2>2
<1>14. Placed(D \cup N, new)
    <2>1. \A k \in D \cup N : new[k] \in Nat
        BY <1>2, <1>10, <1>11
    <2>2. ASSUME NEW j \in D \cup N, NEW k \in D \cup N, new[j] = new[k] PROVE j = k
        <3>1. CASE j \in D /\ k \in D
            BY <1>2, <1>10, <2>2, <3>1
        <3>2. CASE j \in D /\ k \in N \ D
            BY <1>12, <2>1, <2>2, <3>2
        <3>3. CASE j \in N \ D /\ k \in D
            BY <1>12, <2>1, <2>2, <3>3
        <3>4. CASE j \in N \ D /\ k \in N \ D
            <4>1. PICK x \in 1 .. n, y \in 1 .. n : x = idx(j) /\ y = idx(k)
                BY <1>11, <3>4
            <4>2. new[j] = end + x /\ new[k] = end + y
                BY <1>11, <3>4, <4>1
            <4>3. x = y
                <5>1. PICK e \in Nat : e = end
                    BY <1>3
                <5>2. e + x = e + y
                    BY <2>2, <4>2, <5>1
                <5> QED
                    BY <5>2
            <4> QED
                BY <1>7, <3>4, <4>1, <4>3
        <3> QED
            BY <3>1, <3>2, <3>3, <3>4
    <2>3. \A k \in D \cup N : new[k] <= end + n
        <3>1. \A k \in D : new[k] \in Nat /\ new[k] <= end
            BY <1>2, <1>3, <1>10
        <3> QED
            BY <1>3, <1>11, <3>1
    <2>4. end + n \in Nat
        BY <1>3
    <2> QED
        BY <1>9, <2>1, <2>2, <2>3, <2>4 DEF Placed
<1> QED
    BY <1>8, <1>10, <1>12, <1>13, <1>14 DEF N

\* put_writes.
LEMMA SaveOrders ==
    ASSUME ThreadInv, OrderInv, NEW c, NEW t, NEW list, SaveCall(c, t, list)
    PROVE  OrderInv'
<1>1. IsList(list) /\ t \in Nat /\ mixed \subseteq mixed'
    BY DEF SaveCall
<1>2. /\ \/ \A i \in DOMAIN list : SlotOf(list, i) # Special
         \/ \A i \in DOMAIN list : SlotOf(list, i) = Special
         \/ <<c, t>> \in mixed'
      /\ mem' = MemSave(mem, c, t, list)
    BY DEF SaveCall, SaveWrites
<1>3. PICK N : N = DOMAIN NewRows(c, t, list)
    OBVIOUS
<1>4. PICK D : D = DOMAIN mem.writes
    OBVIOUS
<1>5. mem'.writes = MemWrites(mem.writes, NewRows(c, t, list)) /\ mem'.order = MemOrder(mem.order, c, t, list)
    BY <1>2 DEF MemSave, ThreadInv, MemInv
<1>6. PICK n \in Nat :
          /\ DOMAIN list = 1 .. n
          /\ \A i \in 1 .. n : /\ SlotOf(list, i) = Special \/ SlotOf(list, i) = i - 1
                               /\ <<c, t, SlotOf(list, i)>> \in N
          /\ \A k \in N : /\ k = <<c, t, k[3]>> /\ k[1] = c /\ k[2] = t
                          /\ \E i \in 1 .. n : SlotOf(list, i) = k[3]
    BY <1>1, <1>3, SlotsAre
<1>7. \A k \in N : k[3] = Special \/ k[3] \in Nat
    BY <1>6
<1>8. /\ DOMAIN mem'.writes = D \cup N
      /\ \A k \in D \cup N : \/ k \in D /\ mem'.writes[k] = mem.writes[k]
                             \/ k \in N /\ mem'.writes[k] = NewRows(c, t, list)[k]
    BY <1>3, <1>4, <1>5 DEF MemWrites, Over
<1>9. Keyed(mem.writes)'
    <2>1. ASSUME NEW k \in D \cup N
          PROVE  k = <<k[1], k[2], k[3]>> /\ k[2] \in Nat /\ (k[3] = Special \/ k[3] \in Nat)
        <3>1. CASE k \in D
            BY <1>4, <3>1 DEF OrderInv, Keyed
        <3>2. CASE k \in N
            BY <1>1, <1>6, <1>7, <3>2
        <3> QED
            BY <3>1, <3>2
    <2>2. ASSUME NEW k \in D \cup N, k[3] = Special PROVE mem'.writes[k].ch # "delta"
        <3>1. CASE k \in D /\ mem'.writes[k] = mem.writes[k]
            BY <1>4, <2>2, <3>1 DEF OrderInv, Keyed
        <3>2. CASE k \in N /\ mem'.writes[k] = NewRows(c, t, list)[k]
            BY <1>1, <1>3, <2>2, <3>2, SpecialRows
        <3> QED
            BY <1>8, <3>1, <3>2
    <2> QED
        BY <1>8, <2>1, <2>2 DEF Keyed
<1>10. Placed(D, mem.order)
    BY <1>4 DEF OrderInv
<1>11. PICK new : new = mem'.order
    OBVIOUS
<1>12. /\ Placed(D \cup N, new)
       /\ \A k \in D : new[k] = mem.order[k]
       /\ \A j \in D, k \in N \ D : new[j] < new[k]
       /\ \A j, k \in N \ D : (j[3] \in Nat /\ k[3] \in Nat /\ j[3] < k[3]) => new[j] < new[k]
    <2>1. PICK place : place = mem.order
        OBVIOUS
    <2>2. Placed(D, place) /\ new = MemOrder(place, c, t, list)
        BY <1>5, <1>10, <1>11, <2>1
    <2>3. /\ Placed(D \cup N, MemOrder(place, c, t, list))
          /\ \A k \in D : MemOrder(place, c, t, list)[k] = place[k]
          /\ \A j \in D, k \in N \ D : MemOrder(place, c, t, list)[j] < MemOrder(place, c, t, list)[k]
          /\ \A j, k \in N \ D : (j[3] \in Nat /\ k[3] \in Nat /\ j[3] < k[3])
                                   => MemOrder(place, c, t, list)[j] < MemOrder(place, c, t, list)[k]
        BY <1>1, <1>3, <2>2, PlacesGrow
    <2> QED
        BY <2>1, <2>2, <2>3
<1>13. ASSUME NEW k \in D \cup N, k[3] # Special, <<k[1], k[2]>> \notin mixed', NEW s \in Nat, s < k[3]
       PROVE  <<k[1], k[2], s>> \in D \cup N /\ new[<<k[1], k[2], s>>] < new[k]
    <2>1. CASE k \in D
        <3>1. <<k[1], k[2]>> \notin mixed
            BY <1>1, <1>13
        <3>2. <<k[1], k[2], s>> \in D /\ mem.order[<<k[1], k[2], s>>] < mem.order[k]
            BY <1>4, <1>13, <2>1, <3>1 DEF OrderInv, Rising
        <3> QED
            BY <1>12, <2>1, <3>2
    <2>2. CASE k \in N \ D
        <3>1. k[1] = c /\ k[2] = t /\ k[3] \in Nat
            BY <1>6, <1>7, <1>13, <2>2
        <3>2. PICK i \in 1 .. n : SlotOf(list, i) = k[3]
            BY <1>6, <2>2
        <3>3. k[3] = i - 1
            BY <1>6, <1>13, <3>2
        <3>4. \A m \in 1 .. n : SlotOf(list, m) # Special
            <4>1. <<c, t>> \notin mixed'
                BY <1>13, <3>1
            <4>2. SlotOf(list, i) # Special
                BY <1>13, <3>2
            <4> QED
                BY <1>2, <1>6, <4>1, <4>2
        <3>5. PICK m \in 1 .. n : m = s + 1
            BY <1>13, <3>3
        <3>6. SlotOf(list, m) = s
            <4>1. SlotOf(list, m) = m - 1
                BY <1>6, <3>4
            <4> QED
                BY <3>5, <4>1
        <3>7. PICK j : j = <<c, t, s>>
            OBVIOUS
        <3>8. j \in N /\ j[3] = s
            BY <1>6, <3>6, <3>7
        <3>9. new[j] < new[k]
            <4>1. CASE j \in D
                BY <1>12, <2>2, <4>1
            <4>2. CASE j \notin D
                BY <1>12, <1>13, <2>2, <3>1, <3>8, <4>2
            <4> QED
                BY <4>1, <4>2
        <3> QED
            BY <3>1, <3>7, <3>8, <3>9
    <2> QED
        BY <2>1, <2>2
<1>14. Rising(D \cup N, new, mixed')
    BY <1>13 DEF Rising
<1> QED
    BY <1>8, <1>9, <1>11, <1>12, <1>14 DEF OrderInv

LEMMA OrderStays ==
    ASSUME OrderInv, mem'.writes = mem.writes, mem'.order = mem.order, mixed' = mixed
    PROVE  OrderInv'
BY DEF OrderInv

\* A put leaves the writes alone.
LEMMA PutOrders ==
    ASSUME ThreadInv, OrderInv, mixed' = mixed, NEW n, NEW p, NEW cp, NEW new,
           mem' = MemPut(mem, n, p, cp, new)
    PROVE  OrderInv'
<1>1. mem'.writes = mem.writes /\ mem'.order = mem.order
    BY DEF MemPut, ThreadInv, MemInv
<1> QED
    BY <1>1, OrderStays

LEMMA CountedOrders ==
    ASSUME ThreadInv, OrderInv, mixed' = mixed, NEW p, NEW to, NEW gone, NEW live, NEW applied,
           NEW source, NEW next, PutCounted(p, to, gone, live, applied, source, next)
    PROVE  OrderInv'
<1>1. PICK snap, info : Put(puts + 1, p, to, gone, live, applied, snap, info)
    BY Zenon DEF PutCounted
<1>2. PICK cp, new : mem' = MemPut(mem, puts + 1, p, cp, new)
    BY <1>1, Zenon DEF Put
<1> QED
    BY <1>2, PutOrders

LEMMA EmptyOrders == ASSUME mem' = MemEmpty PROVE OrderInv'
<1>1. DOMAIN mem'.writes = {} /\ DOMAIN mem'.order = {}
    BY DEF MemEmpty, None
<1> QED
    BY <1>1 DEF OrderInv, Keyed, Placed, Rising

LEMMA NextOrder ==
    ASSUME ThreadInv, OrderInv, [Next]_vars
    PROVE  OrderInv'
<1>1. CASE UNCHANGED <<mem, mixed>>
    BY <1>1, OrderStays
<1>2. ASSUME NEW p \in Bases, NEW direct \in BOOLEAN, InputRun(p, direct) PROVE OrderInv'
    <2>1. CASE direct /\ migrated
        BY <1>2, <2>1, InputSaves, SaveOrders
    <2>2. CASE ~(direct /\ migrated)
        <3>1. UNCHANGED savers
            BY <1>2, <2>2, Zenon DEF InputRun
        <3>2. mixed' = mixed
            BY <1>2 DEF InputRun
        <3> QED
            BY <1>1, <3>1, <3>2 DEF savers
    <2> QED
        BY <2>1, <2>2
<1>3. ASSUME NEW p \in Stored, ResumeRun(p) PROVE OrderInv'
    BY <1>1, <1>3 DEF ResumeRun, savers
<1>4. ASSUME NEW p \in Stored, ForkRun(p) PROVE OrderInv'
    <2>1. PICK live, nulls : PutCounted(p, {}, {}, live, nulls, "fork", TRUE)
        BY <1>4, Zenon DEF ForkRun
    <2>2. mixed' = mixed
        BY <1>4 DEF ForkRun
    <2> QED
        BY <2>1, <2>2, CountedOrders
<1>5. ASSUME NEW toDelta \in BOOLEAN, TaskDone(toDelta) PROVE OrderInv'
    BY <1>5, TaskSaves, SaveOrders
<1>6. ASSUME NEW next \in BOOLEAN, Superstep(next) PROVE OrderInv'
    <2>1. PICK live, wrote : PutCounted(run.at, {"obj"}, {"prim"}, live, wrote, "loop", next)
        BY <1>6, Zenon DEF Superstep
    <2>2. mixed' = mixed
        BY <1>6 DEF Superstep
    <2> QED
        BY <2>1, <2>2, CountedOrders
<1>7. ASSUME NEW p \in Stored, Update(p) PROVE OrderInv'
    BY <1>7, UpdateSaves, SaveOrders
<1>8. ASSUME NEW p \in Stored, UpdateEnd(p) PROVE OrderInv'
    <2>1. PICK live, applied, info : Put(puts + 1, p, {}, {"prim"}, live, applied, FALSE, info)
        BY <1>8, Zenon DEF UpdateEnd
    <2>2. PICK cp, new : mem' = MemPut(mem, puts + 1, p, cp, new)
        BY <2>1, Zenon DEF Put
    <2>3. mixed' = mixed
        BY <1>8 DEF UpdateEnd
    <2> QED
        BY <2>2, <2>3, PutOrders
<1>9. ASSUME NEW p \in Stored, UpdateCopy(p) PROVE OrderInv'
    <2>1. PICK n, q, cp : mem' = MemPut(mem, n, q, cp, {})
        BY <1>9, Zenon DEF UpdateCopy
    <2>2. mixed' = mixed
        BY <1>9 DEF UpdateCopy
    <2> QED
        BY <2>1, <2>2, PutOrders
<1>10. ASSUME NEW p \in Bases, UpdateInput(p) PROVE OrderInv'
    <2>1. PICK live, applied, info : Put(puts + 1, p, {"prim"}, {}, live, applied, FALSE, info)
        BY <1>10, Zenon DEF UpdateInput
    <2>2. PICK cp, new : mem' = MemPut(mem, puts + 1, p, cp, new)
        BY <2>1, Zenon DEF Put
    <2>3. mixed' = mixed
        BY <1>10 DEF UpdateInput
    <2> QED
        BY <2>2, <2>3, PutOrders
<1>11. CASE InputPut
    <2>1. PICK live, wrote : PutCounted(run.at, {"prim"}, {}, live, wrote, "input", TRUE)
        BY <1>11, Zenon DEF InputPut
    <2>2. mixed' = mixed
        BY <1>11 DEF InputPut
    <2> QED
        BY <2>1, <2>2, CountedOrders
<1>12. CASE UpdatePut
    <2>1. PICK live, wrote : PutCounted(run.at, {}, {}, live, wrote, "update", TRUE)
        BY <1>12, Zenon DEF UpdatePut
    <2>2. mixed' = mixed
        BY <1>12 DEF UpdatePut
    <2> QED
        BY <2>1, <2>2, CountedOrders
<1>13. CASE UpdateFresh
    <2>1. PICK live, applied : PutCounted(NoId, {"obj"}, {}, live, applied, "update", TRUE)
        BY <1>13, Zenon DEF UpdateFresh
    <2>2. mixed' = mixed
        BY <1>13 DEF UpdateFresh
    <2> QED
        BY <2>1, <2>2, CountedOrders
<1>14. CASE TaskInterrupts
    BY <1>14, InterruptSaves, SaveOrders
<1>15. CASE UpdateInputWrites
    BY <1>15, UpdateInputSaves, SaveOrders
<1>16. CASE Crash \/ Migrate \/ Done \/ UNCHANGED vars
    BY <1>1, <1>16 DEF Crash, Migrate, Done, vars, savers
<1>17. CASE DeleteThread
    <2>1. mem' = MemEmpty
        BY <1>17 DEF DeleteThread, MemDeleted
    <2> QED
        BY <2>1, EmptyOrders
<1> QED
    BY <1>2, <1>3, <1>4, <1>5, <1>6, <1>7, <1>8, <1>9, <1>10, <1>11, <1>12, <1>13, <1>14,
       <1>15, <1>16, <1>17 DEF Next

\* InMemorySaver returns the writes of a checkpoint in the dict's order, all that
\* there are; they are sorted when they are one task's.
LEMMA DictAlike ==
    ASSUME ThreadInv, OrderInv, NEW c
    PROVE  /\ Alike(DeltaRows(mem.writes, c), DictRows(mem, c))
           /\ OneWriter(c) => DeltaRows(mem.writes, c) = DictRows(mem, c)
<1>1. PICK table : table = DeltaOf(mem.writes, c)
    OBVIOUS
<1>2. PICK K : K = DOMAIN table
    OBVIOUS
<1>3. PICK place : place = mem.order
    OBVIOUS
<1>4. DeltaRows(mem.writes, c) = Listed(table, ByTask(K)) /\ DictRows(mem, c) = Listed(table, AsSaved(K, place))
    BY <1>1, <1>2, <1>3 DEF DeltaRows, DictRows
<1>5. \A k \in K : k \in DOMAIN mem.writes /\ k[1] = c /\ mem.writes[k].ch = "delta"
    BY <1>1, <1>2 DEF DeltaOf
<1>6. IsFiniteSet(K)
    <2>1. IsFiniteSet(DOMAIN mem.writes) /\ K \in SUBSET DOMAIN mem.writes
        BY <1>5 DEF ThreadInv, WritesInv
    <2> QED
        BY <2>1, FS_Subset
<1>7. \A k \in K : k = <<c, k[2], k[3]>> /\ k[2] \in Nat /\ k[3] \in Nat
    <2>1. \A k \in K : k = <<k[1], k[2], k[3]>> /\ k[2] \in Nat /\ (k[3] = Special \/ k[3] \in Nat)
                       /\ (k[3] = Special => mem.writes[k].ch # "delta")
        BY <1>5 DEF OrderInv, Keyed
    <2> QED
        BY <1>5, <2>1
<1>8. \A j, k \in K : /\ place[j] \in Nat /\ place[k] \in Nat /\ (place[j] = place[k] => j = k)
    BY <1>3, <1>5 DEF OrderInv, Placed
<1>9. \A j, k \in K : <<j, k>> \in AsSaved(K, place) <=> place[j] < place[k]
    BY DEF AsSaved
<1>10. \A j, k \in K : <<j, k>> \in ByTask(K) <=> (j[2] < k[2] \/ (j[2] = k[2] /\ j[3] < k[3]))
    BY DEF ByTask
<1>11. Orders(AsSaved(K, place), K)
    BY <1>8, <1>9 DEF Orders
<1>12. Orders(ByTask(K), K)
    <2>1. \A j \in K : <<j, j>> \notin ByTask(K)
        BY <1>7, <1>10
    <2>2. ASSUME NEW i \in K, NEW j \in K, NEW k \in K, <<i, j>> \in ByTask(K), <<j, k>> \in ByTask(K)
          PROVE  <<i, k>> \in ByTask(K)
        BY <1>7, <1>10, <2>2
    <2>3. ASSUME NEW j \in K, NEW k \in K
          PROVE  j = k \/ <<j, k>> \in ByTask(K) \/ <<k, j>> \in ByTask(K)
        <3>1. CASE j[2] = k[2] /\ j[3] = k[3]
            BY <1>7, <3>1
        <3>2. CASE ~(j[2] = k[2] /\ j[3] = k[3])
            BY <1>7, <1>10, <3>2
        <3> QED
            BY <3>1, <3>2
    <2> QED
        BY <2>1, <2>2, <2>3 DEF Orders
<1>13. Alike(DeltaRows(mem.writes, c), DictRows(mem, c))
    <2>1. /\ IsList(Listed(table, ByTask(K))) /\ Len(Listed(table, ByTask(K))) = Cardinality(K)
          /\ ToSet(Listed(table, ByTask(K))) = {table[k] : k \in K}
        BY <1>2, <1>6, <1>12, ListedLen, ListedSet
    <2>2. /\ IsList(Listed(table, AsSaved(K, place))) /\ Len(Listed(table, AsSaved(K, place))) = Cardinality(K)
          /\ ToSet(Listed(table, AsSaved(K, place))) = {table[k] : k \in K}
        BY <1>2, <1>6, <1>11, ListedLen, ListedSet
    <2> QED
        BY <1>4, <2>1, <2>2, Zenon DEF Alike
<1>14. ASSUME OneWriter(c) PROVE ByTask(K) = AsSaved(K, place)
    <2>1. \A j, k \in K : j[2] = k[2] /\ <<c, j[2]>> \notin mixed
        BY <1>1, <1>2, <1>14 DEF OneWriter
    <2>2. ASSUME NEW j \in K, NEW k \in K, j[3] < k[3] PROVE place[j] < place[k]
        <3>1. k[3] # Special /\ <<k[1], k[2]>> \notin mixed /\ j[3] \in Nat
            BY <1>5, <1>7, <2>1 DEF Special
        <3>2. <<k[1], k[2], j[3]>> = j
            BY <1>5, <1>7, <2>1
        <3>3. place[<<k[1], k[2], j[3]>>] < place[k]
            BY <1>3, <1>5, <2>2, <3>1 DEF OrderInv, Rising
        <3> QED
            BY <3>2, <3>3
    <2>3. ASSUME NEW j \in K, NEW k \in K, place[j] < place[k] PROVE j[3] < k[3]
        <3>1. j[3] \in Nat /\ k[3] \in Nat /\ place[j] \in Nat /\ place[k] \in Nat
            BY <1>7, <1>8
        <3>2. j[3] # k[3]
            <4>1. j[3] = k[3] => j = k
                BY <1>7, <2>1
            <4> QED
                BY <2>3, <3>1, <4>1
        <3>3. ~(k[3] < j[3])
            <4>1. k[3] < j[3] => place[k] < place[j]
                BY <2>2
            <4> QED
                BY <2>3, <3>1, <4>1
        <3> QED
            BY <3>1, <3>2, <3>3
    <2>4. \A j, k \in K : <<j, k>> \in ByTask(K) <=> <<j, k>> \in AsSaved(K, place)
        <3>1. ASSUME NEW j \in K, NEW k \in K
              PROVE  <<j, k>> \in ByTask(K) <=> <<j, k>> \in AsSaved(K, place)
            <4>1. j[2] \in Nat /\ j[2] = k[2]
                BY <1>7, <2>1
            <4> QED
                BY <1>9, <1>10, <2>2, <2>3, <4>1
        <3> QED
            BY <3>1
    <2>5. ByTask(K) \subseteq K \X K /\ AsSaved(K, place) \subseteq K \X K
        BY DEF ByTask, AsSaved
    <2> QED
        BY <2>4, <2>5
<1> QED
    BY <1>4, <1>13, <1>14

LEMMA UpToSeq ==
    ASSUME NEW T, NEW c \in Seq(T), NEW S
    PROVE  UpTo(c, S) \in Seq(T)
<1> DEFINE hits == {i \in DOMAIN c : c[i] \in S}
<1>1. DOMAIN c = 1 .. Len(c) /\ Len(c) \in Nat
    OBVIOUS
<1>2. CASE hits = {}
    BY <1>2 DEF UpTo
<1>3. CASE hits # {}
    <2>1. Min(hits) \in hits
        <3>1. hits \in SUBSET Nat
            BY <1>1
        <3> QED
            BY <1>3, <3>1, MinFact
    <2>2. PICK m \in 1 .. Len(c) : m = Min(hits)
        BY <1>1, <2>1
    <2>3. UpTo(c, S) = SubSeq(c, 1, m)
        BY <1>3, <2>2 DEF UpTo
    <2>4. SubSeq(c, 1, m) \in Seq(T)
        <3>1. \A i \in 1 .. m : i \in 1 .. Len(c)
            BY <1>1, <2>2
        <3>2. \A i \in 1 .. m : c[i] \in T
            BY <3>1
        <3>3. 1 \in Int /\ m \in Int
            BY <1>1
        <3> QED
            BY <3>2, <3>3, SubSeqProperties
    <2> QED
        BY <2>3, <2>4
<1> QED
    BY <1>2, <1>3

\* The walk through the tuples, and the one with sorted rows, have one chain.
Walked(tuples, ws, t, chain, seed, A, B) ==
    /\ chain \in Seq(Past(t))
    /\ BaseHistory(tuples, t) = History(seed, Joined(A, chain))
    /\ SortedHistory(tuples, ws, t) = History(seed, Joined(B, chain))
    /\ \A i \in 1 .. Len(chain) :
          /\ chain[i] \in Past(t)
          /\ A[chain[i]] = tuples[chain[i]].pending /\ B[chain[i]] = DeltaRows(ws, chain[i])

LEMMA BothWalks ==
    ASSUME Ids, ParentInv, NEW tuples, DOMAIN tuples = Stored, Parents(tuples) = Lineage,
           NEW ws, NEW t \in Stored
    PROVE  /\ Past(t) \subseteq Stored
           /\ \E chain, seed, A, B : Walked(tuples, ws, t, chain, seed, A, B)
<1>1. PICK up \in Seq(Stored) : up = Ancestors(Lineage, t)
    BY LineageIs DEF ParentInv
<1>2. Past(t) = ToSet(up)
    BY <1>1 DEF Past, Lineage
<1>3. Past(t) \subseteq Stored
    BY <1>1, <1>2 DEF ToSet
<1>4. up \in Seq(Past(t))
    <2>1. \A i \in 1 .. Len(up) : up[i] \in Past(t)
        BY <1>1, <1>2 DEF ToSet
    <2>2. up = [i \in 1 .. Len(up) |-> up[i]] /\ Len(up) \in Nat
        BY <1>1
    <2> QED
        BY <2>1, <2>2
<1>5. PICK chain \in Seq(Past(t)) : chain = UpTo(up, Holding(tuples))
    BY <1>4, UpToSeq
<1>6. PICK seed : seed = IF chain = <<>> THEN Absent ELSE tuples[Last(chain)].values["delta"]
    OBVIOUS
<1>7. PICK A : A = [i \in Stored |-> tuples[i].pending]
    OBVIOUS
<1>8. PICK B : B = [c \in ToSet(chain) |-> DeltaRows(ws, c)]
    OBVIOUS
<1>9. BaseHistory(tuples, t) = History(seed, Joined(A, chain))
    BY <1>1, <1>5, <1>6, <1>7, Zenon DEF BaseHistory, Holding
<1>10. SortedHistory(tuples, ws, t) = History(seed, Joined(B, chain))
    BY <1>1, <1>5, <1>6, <1>8, Zenon DEF SortedHistory, RowsOf
<1>11. \A i \in 1 .. Len(chain) : chain[i] \in Past(t) /\ chain[i] \in ToSet(chain)
    BY <1>5 DEF ToSet
<1>12. \A i \in 1 .. Len(chain) :
           A[chain[i]] = tuples[chain[i]].pending /\ B[chain[i]] = DeltaRows(ws, chain[i])
    BY <1>3, <1>7, <1>8, <1>11
<1>13. \A i \in 1 .. Len(chain) :
          /\ chain[i] \in Past(t)
          /\ A[chain[i]] = tuples[chain[i]].pending /\ B[chain[i]] = DeltaRows(ws, chain[i])
    BY <1>11, <1>12, Zenon
<1>14. Walked(tuples, ws, t, chain, seed, A, B)
    BY <1>5, <1>9, <1>10, <1>13 DEF Walked
<1> QED
    BY <1>3, <1>14, Zenon

\* The parents and the pending writes in the tuples of a saver.
LEMMA TuplesAre ==
    ASSUME ThreadInv
    PROVE  /\ DOMAIN SqlTuples = Stored /\ Parents(SqlTuples) = Lineage
           /\ \A i \in Stored : SqlTuples[i].pending = DeltaRows(sql.writes, i)
           /\ DOMAIN MemTuples = Stored /\ Parents(MemTuples) = Lineage
           /\ \A i \in Stored : MemTuples[i].pending = DictRows(mem, i)
<1>1. \A i \in Stored : Tuple("sql", i) = SqlTuple(sql, i) /\ Tuple("mem", i) = MemTuple(mem, i)
    BY SaverTuple
<1>2. \A i \in Stored : SqlTuples[i] = SqlTuple(sql, i) /\ MemTuples[i] = MemTuple(mem, i)
    BY <1>1 DEF SqlTuples, MemTuples
<1>3. \A i \in Stored : SqlTuple(sql, i).parent = given[i].parent /\ SqlTuple(sql, i).pending = DeltaRows(sql.writes, i)
    BY DEF SqlTuple, ThreadInv, SqlInv
<1>4. \A i \in Stored : MemTuple(mem, i).parent = given[i].parent /\ MemTuple(mem, i).pending = DictRows(mem, i)
    BY DEF MemTuple, ThreadInv, MemInv
<1>5. DOMAIN SqlTuples = Stored /\ DOMAIN MemTuples = Stored
    BY DEF SqlTuples, MemTuples
<1>6. \A i \in Stored : SqlTuples[i].parent = given[i].parent /\ MemTuples[i].parent = given[i].parent
    BY <1>2, <1>3, <1>4
<1>7. Parents(SqlTuples) = Lineage /\ Parents(MemTuples) = Lineage
    BY <1>5, <1>6 DEF Parents, Lineage
<1> QED
    BY <1>2, <1>3, <1>4, <1>5, <1>7

LEMMA SqlWalk ==
    ASSUME ThreadInv, ParentInv, NEW t \in Stored
    PROVE  SortedHistory(SqlTuples, sql.writes, t) = BaseHistory(SqlTuples, t)
<1>1. PICK tuples, ws : tuples = SqlTuples /\ ws = sql.writes
    OBVIOUS
<1>2. DOMAIN tuples = Stored /\ Parents(tuples) = Lineage /\ \A i \in Stored : tuples[i].pending = DeltaRows(ws, i)
    BY <1>1, TuplesAre
<1>3. Past(t) \subseteq Stored
    BY <1>2, BothWalks DEF ThreadInv
<1>4. PICK chain, seed, A, B : Walked(tuples, ws, t, chain, seed, A, B)
    BY <1>2, BothWalks DEF ThreadInv
<1>5. /\ chain \in Seq(Past(t))
      /\ BaseHistory(tuples, t) = History(seed, Joined(A, chain))
      /\ SortedHistory(tuples, ws, t) = History(seed, Joined(B, chain))
      /\ \A i \in 1 .. Len(chain) :
            /\ chain[i] \in Past(t)
            /\ A[chain[i]] = tuples[chain[i]].pending /\ B[chain[i]] = DeltaRows(ws, chain[i])
    BY <1>4 DEF Walked
<1>6. \A i \in 1 .. Len(chain) : A[chain[i]] = B[chain[i]]
    BY <1>2, <1>3, <1>5
<1>7. Joined(A, chain) = Joined(B, chain)
    BY <1>5, <1>6, JoinedAlike
<1> QED
    BY <1>1, <1>5, <1>7, Zenon

LEMMA MemWalk ==
    ASSUME ThreadInv, ParentInv, OrderInv, NEW t \in Stored
    PROVE  LET own == SortedHistory(MemTuples, mem.writes, t)
               walk == BaseHistory(MemTuples, t)
           IN  /\ own.seed = walk.seed /\ Alike(own.writes, walk.writes)
               /\ (\A c \in Past(t) : OneWriter(c)) => own = walk
<1>1. PICK tuples, ws : tuples = MemTuples /\ ws = mem.writes
    OBVIOUS
<1>2. DOMAIN tuples = Stored /\ Parents(tuples) = Lineage /\ \A i \in Stored : tuples[i].pending = DictRows(mem, i)
    BY <1>1, TuplesAre
<1>3. Past(t) \subseteq Stored
    BY <1>2, BothWalks DEF ThreadInv
<1>4. PICK chain, seed, A, B : Walked(tuples, ws, t, chain, seed, A, B)
    BY <1>2, BothWalks DEF ThreadInv
<1>5. /\ chain \in Seq(Past(t))
      /\ BaseHistory(tuples, t) = History(seed, Joined(A, chain))
      /\ SortedHistory(tuples, ws, t) = History(seed, Joined(B, chain))
      /\ \A i \in 1 .. Len(chain) :
            /\ chain[i] \in Past(t)
            /\ A[chain[i]] = tuples[chain[i]].pending /\ B[chain[i]] = DeltaRows(ws, chain[i])
    BY <1>4 DEF Walked
<1>6. \A c : /\ Alike(DeltaRows(ws, c), DictRows(mem, c))
             /\ OneWriter(c) => DeltaRows(ws, c) = DictRows(mem, c)
    BY <1>1, DictAlike
<1>7. \A i \in 1 .. Len(chain) : A[chain[i]] = DictRows(mem, chain[i]) /\ B[chain[i]] = DeltaRows(ws, chain[i])
                                 /\ chain[i] \in Past(t)
    BY <1>2, <1>3, <1>5
<1>8. \A i \in 1 .. Len(chain) : Alike(B[chain[i]], A[chain[i]])
    BY <1>6, <1>7
<1>9. Alike(Joined(B, chain), Joined(A, chain))
    BY <1>5, <1>8, JoinedSame
<1>10. ASSUME \A c \in Past(t) : OneWriter(c) PROVE Joined(A, chain) = Joined(B, chain)
    <2>1. \A i \in 1 .. Len(chain) : A[chain[i]] = B[chain[i]]
        BY <1>6, <1>7, <1>10
    <2> QED
        BY <1>5, <2>1, JoinedAlike
<1>11. \A ws1 : History(seed, ws1).seed = seed /\ History(seed, ws1).writes = ws1
    BY DEF History
<1> QED
    BY <1>1, <1>5, <1>9, <1>10, <1>11, Zenon

\* The walks that the savers bring along return what the walk of
\* BaseCheckpointSaver does through their tuples: SqliteSaver's stream of rows for
\* every checkpoint and, from its first page, PostgresSaver's on threads that were
\* not migrated.  InMemorySaver's, on those, returns the same seed and the same
\* writes, and in the same order when those of every checkpoint on the way are of
\* one task; for any tree of checkpoints, any writes and any PageSize.
THEOREM SameHistoryAlways == Spec => []SameHistory
<1> DEFINE Inv == ThreadInv /\ ParentInv /\ CountInv /\ PlainInv /\ OrderInv
<1>1. Init => Inv
    <2>1. Init => ParentInv /\ CountInv /\ PlainInv
        BY DEF Init, None, Stored, ParentInv, CountInv, PlainInv
    <2>2. Init => OrderInv
        <3>1. Init => DOMAIN mem.writes = {} /\ DOMAIN mem.order = {}
            BY DEF Init, MemEmpty, None
        <3> QED
            BY <3>1 DEF OrderInv, Keyed, Placed, Rising
    <2> QED
        BY <2>1, <2>2, InitThread
<1>2. Inv /\ [Next]_vars => Inv'
    BY NextThread, NextCounted, NextPlain, NextOrder
<1>3. Inv => SameHistory
    <2> SUFFICES ASSUME ThreadInv, ParentInv, PlainInv, OrderInv, NEW t \in Stored
                 PROVE  /\ SqlHistory(sql, t) = BaseHistory(SqlTuples, t)
                        /\ ~WasPlain(t) =>
                               /\ MemHistory(mem, t).seed = BaseHistory(MemTuples, t).seed
                               /\ Alike(MemHistory(mem, t).writes, BaseHistory(MemTuples, t).writes)
                               /\ (\A c \in Past(t) : OneWriter(c))
                                      => MemHistory(mem, t) = BaseHistory(MemTuples, t)
                        /\ (~WasPlain(t) /\ t \in FirstPage(Stored)) =>
                               \/ PgHistory(pg, t) = BaseHistory(PgTuples, t)
                               \/ PgHistory(pg, t) = BaseHistory(SqlTuples, t)
        BY Zenon DEF SameHistory, Tuples, SqlTuples, MemTuples, PgTuples, Alike
    <2>1. SqlHistory(sql, t) = BaseHistory(SqlTuples, t)
        BY SqlSame, SqlWalk DEF ThreadInv
    <2>2. ASSUME ~WasPlain(t)
          PROVE  /\ MemHistory(mem, t).seed = BaseHistory(MemTuples, t).seed
                 /\ Alike(MemHistory(mem, t).writes, BaseHistory(MemTuples, t).writes)
                 /\ (\A c \in Past(t) : OneWriter(c)) => MemHistory(mem, t) = BaseHistory(MemTuples, t)
        <3>1. MemHistory(mem, t) = SortedHistory(MemTuples, mem.writes, t)
            BY <2>2, MemSame DEF ThreadInv
        <3> QED
            BY <3>1, MemWalk
    <2>3. ASSUME ~WasPlain(t), t \in FirstPage(Stored)
          PROVE  PgHistory(pg, t) = BaseHistory(SqlTuples, t)
        BY <2>3, PgSame, SqlWalk DEF ThreadInv
    <2> QED
        BY <2>1, <2>2, <2>3, Zenon
<1> QED
    BY <1>1, <1>2, <1>3, PTL DEF Spec

\* A set of checkpoints with all that is above them, none of which lost writes
\* that were saved for it.
Sound(S) ==
    \A i \in S : /\ given[i].parent \notin lossy
                 /\ given[i].parent = NoId \/ given[i].parent \in S

Clean(t) == \E S \in SUBSET Stored : t \in S /\ Sound(S)

\* The value of the delta channel when the checkpoint was put.
LiveOf(p) == IF p = NoId THEN <<>> ELSE given[p].live

\* What is stored of a clean checkpoint.
Lives(t) ==
    LET v == given[t].values["delta"]
        p == given[t].parent
    IN  /\ IsList(given[t].live)
        /\ v # Absent \/ ~migrated => v.is = given[t].live
        /\ v = Absent => given[t].live = LiveOf(p) \o SavedAt(p)
        /\ \A tab \in {mem, pg} :
              LET b == BlobAt(tab, "delta", given[t].versions["delta"])
              IN  b # Absent => b.is = given[t].live

LiveInv == \A t \in Stored : Clean(t) => Lives(t)

LEMMA CleanUp ==
    ASSUME Ids, NEW t \in Stored, Clean(t)
    PROVE  /\ given[t].parent \notin lossy
           /\ given[t].parent # NoId => given[t].parent \in Stored /\ Clean(given[t].parent)
<1>1. PICK S \in SUBSET Stored : t \in S /\ Sound(S)
    BY DEF Clean
<1>2. given[t].parent \notin lossy /\ (given[t].parent = NoId \/ given[t].parent \in S)
    BY <1>1 DEF Sound
<1> QED
    BY <1>1, <1>2 DEF Clean

\* tuples and ws give back what is stored of a clean checkpoint.
Recalls(tuples, ws) ==
    /\ DOMAIN tuples = Stored /\ Parents(tuples) = Lineage /\ IsFiniteSet(DOMAIN ws)
    /\ \A i \in Stored :
          /\ DeltaRows(ws, i) = DeltaRows(sql.writes, i)
          /\ tuples[i].values["delta"] = Absent => given[i].values["delta"] = Absent
          /\ Clean(i) /\ tuples[i].values["delta"] # Absent
                => tuples[i].values["delta"].is = given[i].live

\* The walk from t finds the value its parent had and the writes saved there.
Finds(tuples, ws, t, chain, seed) ==
    /\ Ends(tuples, t, chain, seed) /\ chain \in Seq(Stored)
    /\ IsList(seed.is) /\ IsList(RowsOf(ws, chain))
    /\ seed.is \o RowsOf(ws, chain) = LiveOf(given[t].parent) \o SavedAt(given[t].parent)

LEMMA FindsFirst ==
    ASSUME Ids, ParentInv, NEW tuples, NEW ws, Recalls(tuples, ws), NEW t \in Stored,
           given[t].parent = NoId
    PROVE  Finds(tuples, ws, t, <<>>, Absent)
<1>1. Ancestors(Parents(tuples), t) = <<>>
    BY LineageIs DEF Recalls
<1>2. Passes(<<>>, Holding(tuples))
    <2>1. Len(<<>>) = 0
        OBVIOUS
    <2> QED
        BY <2>1 DEF Passes
<1>3. <<>> \in Seq(DOMAIN tuples) /\ <<>> \in Seq(Stored)
    OBVIOUS
<1>4. Ends(tuples, t, <<>>, Absent)
    BY <1>1, <1>2, <1>3, Zenon DEF Ends
<1>5. Absent.is = <<>>
    BY DEF Absent, Value
<1>6. RowsOf(ws, <<>>) = <<>> /\ IsList(<<>>)
    BY NoRows, ShortLists
<1>7. LiveOf(given[t].parent) = <<>> /\ SavedAt(given[t].parent) = <<>>
    BY DEF LiveOf, SavedAt
<1> QED
    BY <1>3, <1>4, <1>5, <1>6, <1>7, Zenon DEF Finds

LEMMA StoredIds == ASSUME Ids, NEW p \in Stored PROVE p # NoId
BY DEF Ids, NoId

LEMMA FindsHeld ==
    ASSUME Ids, ParentInv, WritesInv, LiveInv, NEW tuples, NEW ws, Recalls(tuples, ws), NEW t \in Stored,
           NEW p \in Stored, p = given[t].parent, Clean(p), tuples[p].values["delta"] # Absent
    PROVE  Finds(tuples, ws, t, <<p>>, tuples[p].values["delta"])
<1>1. /\ Ancestors(Parents(tuples), t) = <<p>> \o Chains(Lineage)[given[p].parent]
      /\ Chains(Lineage)[given[p].parent] \in Seq(Stored)
    BY LineageIs DEF Recalls, ParentInv
<1>2. <<p>> \in Seq(Stored) /\ (p \in Holding(tuples) => StopsAt(<<p>>, Holding(tuples)))
    BY OneStep
<1>3. DOMAIN tuples = Stored /\ p \in Holding(tuples)
    BY DEF Recalls, Holding
<1>4. <<p>>[Len(<<p>>)] = p
    OBVIOUS
<1>5. Ends(tuples, t, <<p>>, tuples[p].values["delta"])
    BY <1>1, <1>2, <1>3, <1>4, Zenon DEF Ends
<1>6. tuples[p].values["delta"].is = given[p].live /\ IsList(given[p].live)
    BY DEF Recalls, LiveInv, Lives
<1>7. RowsOf(ws, <<p>>) = DeltaRows(ws, p) /\ IsList(DeltaRows(ws, p))
    <2>1. IsFiniteSet(DOMAIN ws) /\ <<>> \in Seq(Stored) /\ <<p>> \o <<>> = <<p>>
        BY DEF Recalls
    <2>2. RowsOf(ws, <<p>> \o <<>>) = RowsOf(ws, <<>>) \o DeltaRows(ws, p)
        BY <2>1, RowsOfMore
    <2>3. IsList(DeltaRows(ws, p)) /\ IsList(<<>>)
        BY <2>1, RowsAreSeq, ShortLists
    <2>4. <<>> \o DeltaRows(ws, p) = DeltaRows(ws, p)
        BY <2>3, ListSums
    <2>5. RowsOf(ws, <<>>) = <<>>
        BY NoRows
    <2> QED
        BY <2>1, <2>2, <2>3, <2>4, <2>5
<1>8. DeltaRows(ws, p) = SavedAt(p) /\ LiveOf(p) = given[p].live
    <2>1. p # NoId
        BY StoredIds, Zenon
    <2>2. DeltaRows(ws, p) = DeltaRows(sql.writes, p)
        BY Zenon DEF Recalls
    <2> QED
        BY <2>1, <2>2, Zenon DEF SavedAt, LiveOf
<1> QED
    BY <1>2, <1>5, <1>6, <1>7, <1>8, Zenon DEF Finds

LEMMA LastOfMore ==
    ASSUME NEW T, NEW p \in T, NEW c \in Seq(T)
    PROVE  /\ Len(c) \in Nat /\ Len(<<p>> \o c) = Len(c) + 1
           /\ c # <<>> => (<<p>> \o c)[Len(<<p>> \o c)] = c[Len(c)]
OBVIOUS

LEMMA FindsOn ==
    ASSUME Ids, ParentInv, NEW tuples, NEW ws, Recalls(tuples, ws), NEW t \in Stored,
           NEW p \in Stored, p = given[t].parent, tuples[p].values["delta"] = Absent,
           given[p].live = LiveOf(given[p].parent) \o SavedAt(given[p].parent),
           NEW chain, NEW seed, Finds(tuples, ws, p, chain, seed)
    PROVE  Finds(tuples, ws, t, <<p>> \o chain, seed)
<1>1. /\ DOMAIN tuples = Stored /\ Parents(tuples) = Lineage /\ IsFiniteSet(DOMAIN ws)
      /\ DeltaRows(ws, p) = DeltaRows(sql.writes, p)
    BY DEF Recalls
<1>2. PICK up : up = Chains(Lineage)[given[p].parent]
    OBVIOUS
<1>3. Ancestors(Lineage, t) = <<p>> \o up /\ Ancestors(Lineage, p) = up
    BY <1>2, LineageIs DEF ParentInv
<1>4. chain \in Seq(Stored) /\ Ends(tuples, p, chain, seed)
    BY DEF Finds
<1>5. PICK c \in Seq(Stored) : c = chain
    BY <1>4
<1>6. PICK d \in Seq(Stored) : d = <<p>> \o c
    <2>1. <<p>> \in Seq(Stored)
        BY OneStep, Zenon
    <2>2. <<p>> \o c \in Seq(Stored)
        BY <2>1, ConcatProperties, Zenon
    <2> QED
        BY <2>2, Zenon
<1>7. p \notin Holding(tuples)
    BY <1>1 DEF Holding
<1>8. <<p>> \in Seq(Stored) /\ Passes(<<p>>, Holding(tuples))
    BY <1>7, OneStep
<1>9. /\ Passes(c, Holding(tuples)) => Passes(d, Holding(tuples))
      /\ StopsAt(c, Holding(tuples)) => StopsAt(d, Holding(tuples))
    BY <1>6, <1>8, PassesOn
<1>10. /\ Len(c) \in Nat /\ Len(d) = Len(c) + 1
       /\ c # <<>> => d[Len(d)] = c[Len(c)]
    BY <1>6, LastOfMore, Zenon
<1>11. Ends(tuples, t, d, seed)
    <2>1. CASE /\ \E e \in Seq(Stored) : up = c \o e
               /\ StopsAt(c, Holding(tuples))
               /\ seed = tuples[c[Len(c)]].values["delta"]
        <3>1. PICK e \in Seq(Stored) : up = c \o e
            BY <2>1
        <3>2. <<p>> \o up = d \o e
            <4>1. PICK x \in Seq(Stored) : x = <<p>>
                BY <1>8
            <4>2. IsList(x) /\ IsList(c) /\ IsList(e)
                BY ListOf
            <4>3. Sums(x, c, e)
                BY <4>2, SumsAre, Zenon
            <4>4. (x \o c) \o e = x \o (c \o e)
                BY <4>3, Zenon DEF Sums
            <4> QED
                BY <1>6, <3>1, <4>1, <4>4, Zenon
        <3>3. \E e1 \in Seq(Stored) : Ancestors(Lineage, t) = d \o e1
            BY <1>3, <3>2
        <3>4. c # <<>>
            BY <2>1 DEF StopsAt
        <3>5. seed = tuples[d[Len(d)]].values["delta"]
            BY <1>10, <2>1, <3>4
        <3> QED
            BY <1>1, <1>6, <1>9, <2>1, <3>3, <3>5, Zenon DEF Ends
    <2>2. CASE up = c /\ Passes(c, Holding(tuples)) /\ seed = Absent
        <3>1. Ancestors(Lineage, t) = d
            BY <1>3, <1>6, <2>2
        <3> QED
            BY <1>1, <1>6, <1>9, <2>2, <3>1, Zenon DEF Ends
    <2>3. \/ /\ \E e \in Seq(Stored) : up = c \o e
             /\ StopsAt(c, Holding(tuples))
             /\ seed = tuples[c[Len(c)]].values["delta"]
          \/ up = c /\ Passes(c, Holding(tuples)) /\ seed = Absent
        BY <1>1, <1>3, <1>4, <1>5, Zenon DEF Ends
    <2> QED
        BY <2>1, <2>2, <2>3
<1>12. PICK a, b, e : a = seed.is /\ b = RowsOf(ws, c) /\ e = DeltaRows(ws, p)
    OBVIOUS
<1>13. a \o b = given[p].live
    BY <1>5, <1>12, Zenon DEF Finds
<1>14. IsList(a) /\ IsList(b) /\ IsList(e)
    BY <1>1, <1>5, <1>12, RowsAreSeq, Zenon DEF Finds
<1>15. RowsOf(ws, d) = b \o e
    BY <1>1, <1>6, <1>12, RowsOfMore
<1>16. (a \o b) \o e = a \o (b \o e) /\ IsList(b \o e)
    <2>1. IsList(b \o e)
        BY <1>14, ConcatIs, Zenon
    <2>2. Sums(a, b, e)
        BY <1>14, SumsAre, Zenon
    <2>3. (a \o b) \o e = a \o (b \o e)
        BY <2>2, Zenon DEF Sums
    <2> QED
        BY <2>1, <2>3, Zenon
<1>17. LiveOf(p) = given[p].live /\ SavedAt(p) = e
    <2>1. p # NoId
        BY StoredIds, Zenon
    <2> QED
        BY <1>1, <1>12, <2>1, Zenon DEF LiveOf, SavedAt
<1>18. a \o (b \o e) = LiveOf(p) \o SavedAt(p) /\ p = given[t].parent
    BY <1>13, <1>16, <1>17
<1>19. Finds(tuples, ws, t, d, seed)
    BY <1>2, <1>6, <1>11, <1>12, <1>14, <1>15, <1>16, <1>18, Zenon DEF Finds
<1> QED
    BY <1>5, <1>6, <1>19

\* Above a clean checkpoint, every walk finds what the checkpoint started from.
LEMMA FindsAll ==
    ASSUME Ids, ParentInv, WritesInv, LiveInv, NEW tuples, NEW ws, Recalls(tuples, ws),
           NEW t \in Stored, Clean(t)
    PROVE  \E chain, seed : Finds(tuples, ws, t, chain, seed)
<1> DEFINE Bad == {i \in Stored : Clean(i) /\ ~ \E chain, seed : Finds(tuples, ws, i, chain, seed)}
<1>0. SUFFICES ASSUME Bad # {} PROVE FALSE
    OBVIOUS
<1>1. PICK i \in Bad : \A m \in Bad : i <= m
    <2>1. Stored \in SUBSET Nat
        BY DEF Ids
    <2>2. Bad \in SUBSET Nat
        BY <2>1
    <2> QED
        BY <1>0, <2>2, NatMin
<1>2. PICK p : p = given[i].parent
    OBVIOUS
<1>3. i \in Stored /\ Clean(i) /\ i \in Nat /\ p \in Nat /\ ~(i <= p)
    <2>1. i \in Stored /\ Clean(i)
        BY <1>1
    <2>2. Stored \in SUBSET Nat /\ p \in Stored \cup {0} /\ p < i
        BY <1>2, <2>1 DEF Ids, ParentInv, NoId
    <2> QED
        BY <2>1, <2>2
<1>4. p # NoId
    BY <1>1, <1>2, FindsFirst
<1>5. p \in Stored /\ Clean(p)
    BY <1>2, <1>3, <1>4, CleanUp
<1>6. tuples[p].values["delta"] = Absent
    <2>1. ASSUME tuples[p].values["delta"] # Absent PROVE FALSE
        <3>1. Finds(tuples, ws, i, <<p>>, tuples[p].values["delta"])
            BY <1>2, <1>3, <1>5, <2>1, FindsHeld
        <3> QED
            BY <1>1, <3>1
    <2> QED
        BY <2>1
<1>7. PICK chain, seed : Finds(tuples, ws, p, chain, seed)
    BY <1>1, <1>3, <1>5
<1>8. given[p].live = LiveOf(given[p].parent) \o SavedAt(given[p].parent)
    BY <1>5, <1>6 DEF Recalls, LiveInv, Lives
<1>9. Finds(tuples, ws, i, <<p>> \o chain, seed)
    BY <1>2, <1>3, <1>5, <1>6, <1>7, <1>8, FindsOn
<1> QED
    BY <1>1, <1>9

\* So what BaseCheckpointSaver finds makes the value of a clean checkpoint that
\* stores none.
LEMMA FindsLive ==
    ASSUME Ids, ParentInv, WritesInv, LiveInv, NEW tuples, NEW ws, Recalls(tuples, ws),
           NEW t \in Stored, Clean(t), tuples[t].values["delta"] = Absent,
           NEW h, h = SortedHistory(tuples, ws, t)
    PROVE  h.seed.is \o h.writes = given[t].live
<1>1. PICK chain, seed : Finds(tuples, ws, t, chain, seed)
    BY FindsAll
<1>2. SortedHistory(tuples, ws, t) = History(seed, RowsOf(ws, chain))
    BY <1>1, WalkEnds DEF Finds
<1>3. h.seed = seed /\ h.writes = RowsOf(ws, chain)
    BY <1>2 DEF History
<1>4. seed.is \o RowsOf(ws, chain) = LiveOf(given[t].parent) \o SavedAt(given[t].parent)
    BY <1>1 DEF Finds
<1>5. given[t].live = LiveOf(given[t].parent) \o SavedAt(given[t].parent)
    BY DEF Recalls, LiveInv, Lives
<1> QED
    BY <1>3, <1>4, <1>5


\* A special write is not one of the delta channel.
SpecialInv ==
    \A k \in DOMAIN sql.writes :
        k[3] = Special => sql.writes[k].ch # "delta" /\ mem.writes[k].ch # "delta"

\* InMemorySaver has the writes of the delta channel that SqliteSaver has.
LEMMA SameRows ==
    ASSUME WritesInv, SpecialInv, NEW c
    PROVE  DeltaRows(mem.writes, c) = DeltaRows(sql.writes, c)
<1> DEFINE K(w) == {j \in DOMAIN w : j[1] = c /\ w[j].ch = "delta"}
<1>1. DOMAIN mem.writes = DOMAIN sql.writes
    BY DEF WritesInv
<1>2. ASSUME NEW k \in DOMAIN sql.writes
      PROVE  \/ mem.writes[k] = sql.writes[k]
             \/ sql.writes[k].ch # "delta" /\ mem.writes[k].ch # "delta"
    BY DEF WritesInv, SpecialInv, Counted
<1>3. K(mem.writes) = K(sql.writes)
    BY <1>1, <1>2
<1>4. \A k \in K(sql.writes) : mem.writes[k].v = sql.writes[k].v
    BY <1>2
<1>5. DeltaOf(mem.writes, c) = DeltaOf(sql.writes, c)
    <2>1. [k \in K(mem.writes) |-> mem.writes[k].v] = [k \in K(sql.writes) |-> sql.writes[k].v]
        BY <1>3, <1>4
    <2> QED
        BY <2>1, Zenon DEF DeltaOf
<1> QED
    BY <1>5 DEF DeltaRows

LEMMA SqlRecalls ==
    ASSUME ThreadInv, ParentInv, LiveInv
    PROVE  Recalls(SqlTuples, sql.writes)
<1>1. \A i \in Stored : Tuple("sql", i) = SqlTuple(sql, i)
    BY SaverTuple
<1>2. /\ DOMAIN SqlTuples = Stored
      /\ \A i \in Stored : /\ SqlTuples[i].parent = given[i].parent
                           /\ SqlTuples[i].values = given[i].values
    BY <1>1 DEF SqlTuples, SqlTuple, ThreadInv, SqlInv
<1>3. Parents(SqlTuples) = Lineage
    BY <1>2 DEF Parents, Lineage
<1>4. IsFiniteSet(DOMAIN sql.writes)
    BY DEF ThreadInv, WritesInv
<1>5. ASSUME NEW i \in Stored, Clean(i), given[i].values["delta"] # Absent
      PROVE  given[i].values["delta"].is = given[i].live
    BY <1>5 DEF LiveInv, Lives
<1> QED
    BY <1>2, <1>3, <1>4, <1>5 DEF Recalls

LEMMA MemRecalls ==
    ASSUME ThreadInv, ParentInv, LiveInv, SpecialInv
    PROVE  /\ Recalls(MemTuples, mem.writes)
           /\ \A i \in Stored : MemTuples[i].values["delta"]
                                    = BlobAt(mem, "delta", given[i].versions["delta"])
<1>1. \A i \in Stored : Tuple("mem", i) = MemTuple(mem, i)
    BY SaverTuple
<1>2. "delta" \in Channels /\ DOMAIN mem.storage = Stored
      /\ \A i \in Stored : mem.storage[i].parent = given[i].parent /\ mem.storage[i].versions = given[i].versions
    BY DEF ThreadInv, MemInv, Channels
<1>3. /\ DOMAIN MemTuples = Stored
      /\ \A i \in Stored : /\ MemTuples[i].parent = given[i].parent
                           /\ MemTuples[i].values["delta"]
                                  = BlobAt(mem, "delta", given[i].versions["delta"])
    BY <1>1, <1>2 DEF MemTuples, MemTuple
<1>4. Parents(MemTuples) = Lineage
    BY <1>3 DEF Parents, Lineage
<1>5. IsFiniteSet(DOMAIN mem.writes)
    BY DEF ThreadInv, WritesInv
<1>6. \A i \in Stored : DeltaRows(mem.writes, i) = DeltaRows(sql.writes, i)
    BY SameRows DEF ThreadInv
<1>7. ASSUME NEW i \in Stored, BlobAt(mem, "delta", given[i].versions["delta"]) = Absent
      PROVE  given[i].values["delta"] = Absent
    <2>1. MemHolds(mem, given[i])
        BY DEF ThreadInv, MemInv
    <2> QED
        BY <1>2, <1>7, <2>1 DEF MemHolds
<1>8. ASSUME NEW i \in Stored, Clean(i), BlobAt(mem, "delta", given[i].versions["delta"]) # Absent
      PROVE  BlobAt(mem, "delta", given[i].versions["delta"]).is = given[i].live
    BY <1>8 DEF LiveInv, Lives
<1> QED
    BY <1>3, <1>4, <1>5, <1>6, <1>7, <1>8, Zenon DEF Recalls

\* What a saver loads for a clean checkpoint.
LEMMA LoadsLive ==
    ASSUME NEW v, NEW h, NEW live, ~migrated \/ v # Absent => v.is = live,
           migrated /\ v = Absent => h.seed.is \o h.writes = live
    PROVE  (IF v # Absent \/ ~migrated THEN v.is ELSE h.seed.is \o h.writes) = live
OBVIOUS

LEMMA SqlLoads ==
    ASSUME ThreadInv, ParentInv, LiveInv, NEW t \in Stored, Clean(t)
    PROVE  LoadFrom("sql", t) = given[t].live
<1>1. PICK v : v = Tuple("sql", t).values["delta"]
    OBVIOUS
<1>2. PICK h : h = SqlHistory(sql, t)
    OBVIOUS
<1>3. DeltaHistory("sql", t) = h
    BY <1>2 DEF DeltaHistory
<1>4. v = given[t].values["delta"] /\ SqlTuples[t].values["delta"] = v
    <2>1. Tuple("sql", t) = SqlTuple(sql, t)
        BY SaverTuple
    <2> QED
        BY <1>1, <2>1 DEF SqlTuples, SqlTuple, ThreadInv, SqlInv
<1>5. ~migrated \/ v # Absent => v.is = given[t].live
    BY <1>4 DEF LiveInv, Lives
<1>6. ASSUME v = Absent PROVE h.seed.is \o h.writes = given[t].live
    <2>1. h = SortedHistory(SqlTuples, sql.writes, t)
        BY <1>2, SqlSame DEF ThreadInv
    <2>2. Recalls(SqlTuples, sql.writes)
        BY SqlRecalls
    <2> QED
        BY <1>4, <1>6, <2>1, <2>2, FindsLive DEF ThreadInv
<1>7. (IF v # Absent \/ ~migrated THEN v.is ELSE h.seed.is \o h.writes) = given[t].live
    BY <1>5, <1>6, LoadsLive
<1> QED
    BY <1>1, <1>3, <1>7, Zenon DEF LoadFrom

LEMMA MemLoads ==
    ASSUME ThreadInv, ParentInv, PlainInv, LiveInv, SpecialInv, NEW t \in Stored, Clean(t), ~WasPlain(t)
    PROVE  LoadFrom("mem", t) = given[t].live
<1>1. PICK v : v = Tuple("mem", t).values["delta"]
    OBVIOUS
<1>2. PICK h : h = MemHistory(mem, t)
    OBVIOUS
<1>3. DeltaHistory("mem", t) = h
    BY <1>2 DEF DeltaHistory
<1>4. MemTuples[t].values["delta"] = v /\ v = BlobAt(mem, "delta", given[t].versions["delta"])
    BY <1>1, MemRecalls DEF MemTuples
<1>5. Recalls(MemTuples, mem.writes)
    BY MemRecalls
<1>6. ~migrated \/ v # Absent => v.is = given[t].live
    <2>1. v # Absent => v.is = given[t].live
        BY <1>4 DEF LiveInv, Lives
    <2>2. v = Absent => v = given[t].values["delta"]
        BY <1>4, <1>5 DEF Recalls
    <2>3. ~migrated => given[t].values["delta"].is = given[t].live
        BY DEF LiveInv, Lives
    <2> QED
        BY <2>1, <2>2, <2>3
<1>7. ASSUME v = Absent PROVE h.seed.is \o h.writes = given[t].live
    <2>1. h = SortedHistory(MemTuples, mem.writes, t)
        BY <1>2, MemSame DEF ThreadInv
    <2> QED
        BY <1>4, <1>5, <1>7, <2>1, FindsLive DEF ThreadInv
<1>8. (IF v # Absent \/ ~migrated THEN v.is ELSE h.seed.is \o h.writes) = given[t].live
    BY <1>6, <1>7, LoadsLive
<1> QED
    BY <1>1, <1>3, <1>8, Zenon DEF LoadFrom


LEMMA PgLoads ==
    ASSUME ThreadInv, ParentInv, LiveInv, NEW t \in Stored, Clean(t), ~WasPlain(t),
           t \in FirstPage(Stored)
    PROVE  LoadFrom("pg", t) = given[t].live
<1>1. PICK v : v = Tuple("pg", t).values["delta"]
    OBVIOUS
<1>2. PICK h : h = PgHistory(pg, t)
    OBVIOUS
<1>3. DeltaHistory("pg", t) = h
    BY <1>2 DEF DeltaHistory
<1>4. PICK b : b = BlobAt(pg, "delta", given[t].versions["delta"])
    OBVIOUS
<1>5. PICK own : own = given[t].values["delta"]
    OBVIOUS
<1>6. "delta" \in Channels
    BY DEF Channels
<1>7. v = IF b # Absent THEN b ELSE PgInline(given[t])["delta"]
    <2>1. Tuple("pg", t) = PgTuple(pg, t)
        BY SaverTuple
    <2>2. pg.checkpoints[t].inline = PgInline(given[t]) /\ pg.checkpoints[t].versions = given[t].versions
        BY DEF ThreadInv, PgInv
    <2> QED
        BY <1>1, <1>4, <1>6, <2>1, <2>2 DEF PgTuple
<1>8. own.kind \in Moved => b # Absent
    <2>1. own.kind \in Moved => b = own
        BY <1>4, <1>5, <1>6 DEF ThreadInv, PgInv, PgHolds
    <2> QED
        BY <2>1 DEF Absent, Value, Moved
<1>9. ASSUME b = Absent PROVE own = Absent /\ v = own
    <2>1. own = Absent
        BY <1>5, <1>6, <1>8, <1>9 DEF ThreadInv, GivenInv, Proper, IsOf, Moved
    <2>2. PgInline(given[t])["delta"] = own
        <3>1. own.kind = "absent"
            BY <2>1 DEF Absent, Value
        <3> QED
            BY <1>5, <1>6, <3>1 DEF PgInline
    <2> QED
        BY <1>7, <1>9, <2>1, <2>2
<1>10. /\ b # Absent => b.is = given[t].live
       /\ ~migrated => own.is = given[t].live
    BY <1>4, <1>5 DEF LiveInv, Lives
<1>11. ~migrated \/ v # Absent => v.is = given[t].live
    BY <1>7, <1>9, <1>10
<1>12. ASSUME v = Absent PROVE h.seed.is \o h.writes = given[t].live
    <2>1. own = Absent
        BY <1>7, <1>9, <1>12
    <2>2. SqlTuples[t].values["delta"] = Absent
        <3>1. SqlTuples[t] = SqlTuple(sql, t)
            BY SaverTuple DEF SqlTuples
        <3>2. SqlTuple(sql, t).values = given[t].values
            BY DEF SqlTuple, ThreadInv, SqlInv
        <3> QED
            BY <1>5, <2>1, <3>1, <3>2
    <2>3. h = SortedHistory(SqlTuples, sql.writes, t)
        BY <1>2, PgSame DEF ThreadInv
    <2>4. Recalls(SqlTuples, sql.writes)
        BY SqlRecalls
    <2> QED
        BY <2>2, <2>3, <2>4, FindsLive DEF ThreadInv
<1>13. (IF v # Absent \/ ~migrated THEN v.is ELSE h.seed.is \o h.writes) = given[t].live
    BY <1>11, <1>12, LoadsLive
<1> QED
    BY <1>1, <1>3, <1>13, Zenon DEF LoadFrom

\* A version that no put has made has no blob.
LEMMA NoBlob ==
    ASSUME ThreadInv, NEW tab \in {mem, pg}
    PROVE  BlobAt(tab, "delta", NoVersion) = Absent
<1>1. puts \in Nat /\ NoVersion[2] = 0
    BY DEF ThreadInv, Ids, NoVersion
<1>2. ASSUME <<"delta", NoVersion>> \in DOMAIN tab.blobs PROVE FALSE
    <2>1. <<"delta", NoVersion>>[2][2] \in 1 .. puts
        BY <1>2 DEF ThreadInv, MemInv, PgInv, Old
    <2> QED
        BY <1>1, <2>1
<1> QED
    BY <1>2 DEF BlobAt

\* What is clean after a step was clean before it.
LEMMA CleanStays ==
    ASSUME ParentInv, Stored \subseteq Stored', \A i \in Stored : given'[i] = given[i],
           lossy \subseteq lossy', NEW t \in Stored, Clean(t)'
    PROVE  Clean(t)
<1>1. PICK S \in SUBSET Stored' : t \in S /\ Sound(S)'
    BY DEF Clean
<1>2. PICK R \in SUBSET Stored : R = S \cap Stored
    OBVIOUS
<1>3. ASSUME NEW i \in R
      PROVE  given[i].parent \notin lossy /\ (given[i].parent = NoId \/ given[i].parent \in R)
    <2>1. i \in S /\ given'[i] = given[i] /\ given[i].parent \in Stored \cup {NoId}
        BY <1>2 DEF ParentInv
    <2>2. given'[i].parent \notin lossy' /\ (given'[i].parent = NoId \/ given'[i].parent \in S)
        BY <1>1, <2>1 DEF Sound
    <2> QED
        BY <1>2, <2>1, <2>2
<1>4. Sound(R) /\ t \in R
    BY <1>1, <1>2, <1>3 DEF Sound
<1> QED
    BY <1>4 DEF Clean

\* A step that puts nothing: writes may be saved, where no child has lost them.
PutsNothing ==
    /\ given' = given /\ mem'.blobs = mem.blobs /\ pg'.blobs = pg.blobs
    /\ lossy \subseteq lossy' /\ (migrated => migrated')
    /\ \A t \in Stored : given[t].parent \notin lossy' =>
                             SavedAt(given[t].parent)' = SavedAt(given[t].parent)

LEMMA QuietLives ==
    ASSUME ThreadInv, ParentInv, LiveInv, PutsNothing
    PROVE  LiveInv'
<1>1. Stored' = Stored /\ given' = given
    BY DEF PutsNothing, Stored
<1>2. SUFFICES ASSUME NEW t \in Stored, Clean(t)' PROVE Lives(t)'
    BY <1>1 DEF LiveInv
<1>3. Clean(t)
    <2>1. lossy \subseteq lossy' /\ \A i \in Stored : given'[i] = given[i]
        BY DEF PutsNothing
    <2> QED
        BY <1>1, <1>2, <2>1, CleanStays
<1>4. given[t].parent \notin lossy'
    <2>1. PICK S \in SUBSET Stored' : t \in S /\ Sound(S)'
        BY <1>2 DEF Clean
    <2> QED
        BY <1>1, <2>1 DEF Sound
<1>5. Lives(t)
    BY <1>3 DEF LiveInv
<1>6. SavedAt(given[t].parent)' = SavedAt(given[t].parent) /\ LiveOf(given[t].parent)' = LiveOf(given[t].parent)
    BY <1>1, <1>4 DEF PutsNothing, LiveOf
<1>7. \A ver : /\ BlobAt(mem', "delta", ver) = BlobAt(mem, "delta", ver)
               /\ BlobAt(pg', "delta", ver) = BlobAt(pg, "delta", ver)
    BY DEF PutsNothing, BlobAt
<1>8. ~migrated' => ~migrated
    BY DEF PutsNothing
<1> QED
    BY <1>1, <1>5, <1>6, <1>7, <1>8 DEF Lives

\* What a put after a clean p stores of the delta channel.
NewLives(n, p) ==
    LET v == given'[n].values["delta"]
    IN  /\ IsList(given'[n].live)
        /\ v # Absent \/ ~migrated => v.is = given'[n].live
        /\ v = Absent => given'[n].live = LiveOf(p) \o SavedAt(p)
        /\ given'[n].versions["delta"] = BaseOf(p).versions["delta"] => given'[n].live = LiveOf(p)

\* A put or a copy.
Adds ==
    \E p, q : /\ DeltaStep(puts + 1, p, q)
              /\ lossy \subseteq lossy' /\ migrated' = migrated
              /\ q \notin lossy' /\ (q = NoId \/ Clean(q)) => q = p /\ NewLives(puts + 1, p)

LEMMA AddsLive ==
    ASSUME ThreadInv, ParentInv, LiveInv, Adds
    PROVE  LiveInv'
<1>1. PICK n, p, q : /\ n = puts + 1 /\ DeltaStep(n, p, q)
                     /\ lossy \subseteq lossy' /\ migrated' = migrated
                     /\ q \notin lossy' /\ (q = NoId \/ Clean(q)) => q = p /\ NewLives(n, p)
    BY DEF Adds
<1>2. /\ puts \in Nat /\ Stored \subseteq 1 .. puts /\ Stored' = Stored \cup {n} /\ n \notin Stored
      /\ \A i \in Stored : given'[i] = given[i]
      /\ given'[n].parent = q /\ p \in Stored \cup {NoId} /\ q \in Stored \cup {NoId}
      /\ sql'.writes = sql.writes
    BY <1>1 DEF DeltaStep, ThreadInv, Ids, Stored
<1>3. /\ \A x : SavedAt(x)' = SavedAt(x)
      /\ \A x \in Stored \cup {NoId} : LiveOf(x)' = LiveOf(x)
    BY <1>2 DEF SavedAt, LiveOf
<1>4. \A ver : ver[2] # n => /\ BlobAt(mem', "delta", ver) = BlobAt(mem, "delta", ver)
                             /\ BlobAt(pg', "delta", ver) = BlobAt(pg, "delta", ver)
    BY <1>1 DEF DeltaStep
<1>5. \A i \in Stored : given[i].versions["delta"][2] # n
    <2>1. \A i \in Stored : given[i].versions["delta"][2] \in 0 .. puts
        BY DEF ThreadInv, GivenInv, Proper, Channels
    <2> QED
        BY <1>1, <1>2, <2>1
<1>6. \A t \in Stored : Clean(t)' => Clean(t)
    BY <1>1, <1>2, CleanStays
<1>7. ASSUME NEW t \in Stored, Clean(t)' PROVE Lives(t)'
    <2>1. Lives(t)
        BY <1>6, <1>7 DEF LiveInv
    <2>2. given[t].parent \in Stored \cup {NoId}
        BY DEF ParentInv
    <2> QED
        BY <1>1, <1>2, <1>3, <1>4, <1>5, <2>1, <2>2 DEF Lives
<1>8. ASSUME Clean(n)' PROVE Lives(n)'
    <2>1. PICK S \in SUBSET Stored' : n \in S /\ Sound(S)'
        BY <1>8 DEF Clean
    <2>2. q \notin lossy' /\ (q = NoId \/ q \in S)
        BY <1>2, <2>1 DEF Sound
    <2>3. q = NoId \/ Clean(q)
        <3>1. q # NoId => q \in Stored /\ Clean(q)'
            BY <1>2, <2>1, <2>2 DEF Clean
        <3> QED
            BY <1>6, <3>1
    <2>4. q = p /\ NewLives(n, p)
        BY <1>1, <2>2, <2>3
    <2>5. /\ IsList(given'[n].live)
          /\ given'[n].values["delta"] # Absent \/ ~migrated => given'[n].values["delta"].is = given'[n].live
          /\ given'[n].values["delta"] = Absent => given'[n].live = LiveOf(p) \o SavedAt(p)
          /\ given'[n].versions["delta"] = BaseOf(p).versions["delta"] => given'[n].live = LiveOf(p)
        BY <2>4 DEF NewLives
    <2>6. ASSUME given'[n].versions["delta"] = BaseOf(p).versions["delta"]
          PROVE  \A tab \in {mem', pg'} :
                    LET b == BlobAt(tab, "delta", given'[n].versions["delta"])
                    IN  b # Absent => b.is = given'[n].live
        <3>1. CASE p = NoId
            <4>1. BaseOf(p).versions["delta"] = NoVersion /\ NoVersion[2] = 0
                BY <3>1 DEF BaseOf, NoVersion, Channels
            <4>2. BlobAt(mem, "delta", NoVersion) = Absent /\ BlobAt(pg, "delta", NoVersion) = Absent
                BY NoBlob
            <4> QED
                BY <1>1, <1>2, <1>4, <2>6, <4>1, <4>2
        <3>2. CASE p # NoId
            <4>1. p \in Stored /\ BaseOf(p) = given[p] /\ LiveOf(p) = given[p].live /\ Clean(p)
                BY <1>2, <2>3, <2>4, <3>2 DEF BaseOf, LiveOf
            <4>2. Lives(p)
                BY <4>1 DEF LiveInv
            <4>3. /\ BlobAt(mem', "delta", given[p].versions["delta"]) = BlobAt(mem, "delta", given[p].versions["delta"])
                  /\ BlobAt(pg', "delta", given[p].versions["delta"]) = BlobAt(pg, "delta", given[p].versions["delta"])
                BY <1>4, <1>5, <4>1
            <4> QED
                BY <2>5, <2>6, <4>1, <4>2, <4>3 DEF Lives
        <3> QED
            BY <3>1, <3>2
    <2>7. ASSUME BlobAt(mem', "delta", given'[n].versions["delta"]) = given'[n].values["delta"],
                 BlobAt(pg', "delta", given'[n].versions["delta"]) = given'[n].values["delta"]
          PROVE  \A tab \in {mem', pg'} :
                    LET b == BlobAt(tab, "delta", given'[n].versions["delta"])
                    IN  b # Absent => b.is = given'[n].live
        BY <2>5, <2>7
    <2>8. \A tab \in {mem', pg'} :
              LET b == BlobAt(tab, "delta", given'[n].versions["delta"])
              IN  b # Absent => b.is = given'[n].live
        BY <1>1, <2>6, <2>7 DEF DeltaStep
    <2>9. given'[n].parent = p /\ LiveOf(p)' = LiveOf(p) /\ SavedAt(p)' = SavedAt(p)
        BY <1>2, <1>3, <2>4
    <2> QED
        BY <1>1, <2>5, <2>8, <2>9 DEF Lives
<1> QED
    BY <1>2, <1>7, <1>8 DEF LiveInv


\* Writes that are saved do not change what was saved elsewhere.
RowsFrom(new, c) == \A k \in DOMAIN new : k[1] = c

LEMMA RowsApart ==
    ASSUME NEW old, NEW new, NEW c, NEW x, x # c, RowsFrom(new, c)
    PROVE  /\ DeltaRows(Over(old, new), x) = DeltaRows(old, x)
           /\ DeltaRows(Over(new, old), x) = DeltaRows(old, x)
<1> DEFINE K(w) == {j \in DOMAIN w : j[1] = x /\ w[j].ch = "delta"}
<1>1. ASSUME NEW w, DOMAIN w = DOMAIN old \cup DOMAIN new, \A k \in DOMAIN w : k[1] = x => w[k] = old[k]
      PROVE  DeltaRows(w, x) = DeltaRows(old, x)
    <2>1. \A k \in DOMAIN w : k[1] = x => k \in DOMAIN old
        BY <1>1 DEF RowsFrom
    <2>2. K(w) = K(old) /\ \A k \in K(old) : w[k] = old[k]
        BY <1>1, <2>1
    <2>3. [k \in K(w) |-> w[k].v] = [k \in K(old) |-> old[k].v]
        BY <2>2
    <2>4. DeltaOf(w, x) = DeltaOf(old, x)
        BY <2>3, Zenon DEF DeltaOf
    <2> QED
        BY <2>4 DEF DeltaRows
<1>2. \A k \in DOMAIN old \cup DOMAIN new : k[1] = x => k \notin DOMAIN new /\ k \in DOMAIN old
    BY DEF RowsFrom
<1>3. /\ DOMAIN Over(old, new) = DOMAIN old \cup DOMAIN new
      /\ \A k \in DOMAIN Over(old, new) : k[1] = x => Over(old, new)[k] = old[k]
    BY <1>2 DEF Over
<1>4. /\ DOMAIN Over(new, old) = DOMAIN old \cup DOMAIN new
      /\ \A k \in DOMAIN Over(new, old) : k[1] = x => Over(new, old)[k] = old[k]
    BY <1>2 DEF Over
<1> QED
    BY <1>1, <1>3, <1>4

LEMMA SaveLives ==
    ASSUME ThreadInv, ParentInv, SpecialInv, NEW c, NEW t, NEW list, SaveCall(c, t, list)
    PROVE  PutsNothing /\ SpecialInv'
<1> DEFINE new == NewRows(c, t, list)
<1>1. /\ mem' = MemSave(mem, c, t, list)
      /\ sql' = [sql EXCEPT !.writes = SqlWrites(@, new)]
      /\ pg' = [pg EXCEPT !.writes = SqlWrites(@, new)]
      /\ lossy' = IF Children(c) # {} THEN lossy \cup {c} ELSE lossy
      /\ given' = given /\ migrated' = migrated /\ IsList(list)
    BY DEF SaveCall, SaveWrites
<1>2. (\A k \in DOMAIN new : k[1] = c) /\ \A k \in DOMAIN new : k[3] = Special => new[k].ch # "delta"
    BY <1>1, NewRowsFacts, SpecialRows
<1> HIDE DEF new
<1>3. /\ mem'.blobs = mem.blobs /\ pg'.blobs = pg.blobs
      /\ mem'.writes = MemWrites(mem.writes, new) /\ sql'.writes = SqlWrites(sql.writes, new)
    BY <1>1 DEF MemSave, new, ThreadInv, MemInv, SqlInv, PgInv
<1>4. ASSUME NEW x, x # c PROVE SavedAt(x)' = SavedAt(x)
    <2>1. sql'.writes = Over(sql.writes, new) \/ sql'.writes = Over(new, sql.writes)
        BY <1>3 DEF SqlWrites
    <2>2. RowsFrom(new, c)
        BY <1>2 DEF RowsFrom
    <2>3. PICK old : old = sql.writes
        OBVIOUS
    <2>4. /\ DeltaRows(Over(old, new), x) = DeltaRows(old, x)
          /\ DeltaRows(Over(new, old), x) = DeltaRows(old, x)
        BY <1>4, <2>2, RowsApart
    <2>5. DeltaRows(sql'.writes, x) = DeltaRows(sql.writes, x)
        BY <2>1, <2>3, <2>4
    <2> QED
        BY <2>5 DEF SavedAt
<1>5. ASSUME NEW i \in Stored, given[i].parent = c PROVE c \in lossy'
    BY <1>1, <1>5 DEF Children
<1>6. PutsNothing
    BY <1>1, <1>3, <1>4, <1>5 DEF PutsNothing
<1>7. SpecialInv'
    <2>1. /\ DOMAIN mem.writes = DOMAIN sql.writes
          /\ \A k \in DOMAIN sql.writes : k[3] = Special => sql.writes[k].ch # "delta" /\ mem.writes[k].ch # "delta"
        BY DEF SpecialInv, ThreadInv, WritesInv
    <2>2. SUFFICES ASSUME NEW k \in DOMAIN sql'.writes, k[3] = Special
                   PROVE  sql'.writes[k].ch # "delta" /\ mem'.writes[k].ch # "delta"
        BY DEF SpecialInv
    <2>3. /\ k \in DOMAIN sql.writes \cup DOMAIN new
          /\ \/ k \in DOMAIN sql.writes /\ sql'.writes[k] = sql.writes[k]
             \/ k \in DOMAIN new /\ sql'.writes[k] = new[k]
        BY <1>3, <2>2 DEF SqlWrites, Over
    <2>4. IF k \in DOMAIN new THEN mem'.writes[k] = new[k] ELSE mem'.writes[k] = mem.writes[k]
        BY <1>3, <2>1, <2>2, <2>3 DEF MemWrites, Over
    <2> QED
        BY <1>2, <2>1, <2>2, <2>3, <2>4
<1> QED
    BY <1>6, <1>7

\* What Put loses of the writes saved at p.
LEMMA PutLoses ==
    ASSUME NEW n, NEW p, NEW to, NEW gone, NEW live, NEW applied, NEW snap, NEW info,
           Put(n, p, to, gone, live, applied, snap, info)
    PROVE  lossy' = IF Children(p) # {} \/ (/\ CpOf(n, p, to, gone, live, applied, snap).values["delta"] = Absent
                                            /\ applied # SavedAt(p))
                    THEN lossy \cup {p} ELSE lossy
BY Zenon DEF Put, CpOf, NewOf, ValueOf, BaseOf

\* What Put is called with: the value of p and the writes it got since.
GoesOn(p, live, applied) ==
    /\ p \in Bases /\ migrated' = migrated /\ IsList(applied)
    /\ p = NoId \/ Clean(p) => IsList(LiveOf(p)) /\ live = LiveOf(p) \o applied

LEMMA PutAdds ==
    ASSUME ThreadInv, ParentInv, SpecialInv,
           NEW p, NEW to, NEW gone, NEW live, NEW applied, NEW snap, NEW info,
           PlainSets(to, gone), GoesOn(p, live, applied),
           Put(puts + 1, p, to, gone, live, applied, snap, info)
    PROVE  Adds /\ SpecialInv' /\ given'[puts + 1].live = live
<1>1. PICK n : n = puts + 1
    OBVIOUS
<1>2. p \in Bases /\ migrated' = migrated /\ IsList(applied)
    BY DEF GoesOn
<1>3. PICK v : v = ValueOf(n, p, to, gone, live, snap, "delta")
    OBVIOUS
<1>4. /\ DeltaStep(n, p, p) /\ given'[n].live = live /\ given'[n].values["delta"] = v
      /\ given'[n].versions["delta"] = BaseOf(p).versions["delta"] => applied = <<>>
    BY <1>1, <1>2, <1>3, PutIsDelta
<1>5. lossy \subseteq lossy' /\ (p \notin lossy' /\ v = Absent => applied = SavedAt(p))
    <2>1. CpOf(n, p, to, gone, live, applied, snap).values["delta"] = v
        <3>1. "delta" \in Channels
            BY DEF Channels
        <3> QED
            BY <1>3, <3>1, Zenon DEF CpOf
    <2>2. lossy' = IF Children(p) # {} \/ (v = Absent /\ applied # SavedAt(p))
                   THEN lossy \cup {p} ELSE lossy
        BY <1>1, <2>1, PutLoses
    <2> QED
        BY <2>2
<1>6. ASSUME p \notin lossy', p = NoId \/ Clean(p) PROVE NewLives(n, p)
    <2>1. IsList(LiveOf(p)) /\ live = LiveOf(p) \o applied
        BY <1>6 DEF GoesOn
    <2>2. IsList(live) /\ LiveOf(p) \o <<>> = LiveOf(p)
        BY <1>2, <2>1, ConcatIs
    <2>3. ValuesAre(n, p, to, gone, live, snap)
        BY ValueIs, Zenon
    <2>4. v # Absent \/ ~migrated => v.is = live
        <3>1. /\ migrated /\ snap => v = Value("snapshot", live)
              /\ migrated /\ ~snap => v = Absent
              /\ ~migrated /\ live # <<>> => v = Value("plain", live)
              /\ ~migrated /\ live = <<>> => v = Absent
            BY <1>3, <2>3, Zenon DEF ValuesAre
        <3>2. Value("snapshot", live).is = live /\ Value("plain", live).is = live /\ Absent.is = <<>>
            BY DEF Value, Absent
        <3> QED
            BY <3>1, <3>2
    <2>5. v = Absent => live = LiveOf(p) \o SavedAt(p)
        BY <1>5, <1>6, <2>1
    <2>6. given'[n].versions["delta"] = BaseOf(p).versions["delta"] => live = LiveOf(p)
        BY <1>4, <2>1, <2>2
    <2> QED
        BY <1>4, <2>2, <2>4, <2>5, <2>6 DEF NewLives
<1>7. Adds
    BY <1>1, <1>2, <1>4, <1>5, <1>6 DEF Adds
<1>8. SpecialInv'
    BY <1>4 DEF DeltaStep, SpecialInv
<1> QED
    BY <1>1, <1>4, <1>7, <1>8


\* The run that goes on from a clean checkpoint has the value of its delta channel.
RunLive ==
    /\ IsList(run.wrote)
    /\ run.pc \in {"input", "tasks", "update"} /\ (run.at = NoId \/ Clean(run.at)) =>
          run.live = LiveOf(run.at)

LEMMA BaseLive ==
    ASSUME ThreadInv, ParentInv, LiveInv, NEW p \in Bases, p = NoId \/ Clean(p)
    PROVE  IsList(LiveOf(p)) /\ Load(p) = LiveOf(p)
<1>1. CASE p = NoId
    BY <1>1, ShortLists DEF LiveOf, Load
<1>2. CASE p # NoId
    <2>1. p \in Stored /\ Clean(p) /\ LiveOf(p) = given[p].live
        BY <1>2 DEF Bases, LiveOf
    <2>2. IsList(given[p].live)
        BY <2>1 DEF LiveInv, Lives
    <2>3. Load(p) = given[p].live
        BY <1>2, <2>1, SqlLoads DEF Load
    <2> QED
        BY <2>1, <2>2, <2>3
<1> QED
    BY <1>1, <1>2

LEMMA LoadGoesOn ==
    ASSUME ThreadInv, ParentInv, LiveInv, NEW p \in Bases, NEW applied, IsList(applied),
           migrated' = migrated
    PROVE  GoesOn(p, Load(p) \o applied, applied)
<1>1. ASSUME p = NoId \/ Clean(p) PROVE IsList(LiveOf(p)) /\ Load(p) = LiveOf(p)
    BY <1>1, BaseLive
<1> QED
    BY <1>1 DEF GoesOn

LEMMA RunGoesOn ==
    ASSUME ThreadInv, ParentInv, LiveInv, RunLive, run.pc \in {"input", "tasks", "update"},
           migrated' = migrated
    PROVE  GoesOn(run.at, run.live \o run.wrote, run.wrote)
<1>1. run.at \in Bases /\ IsList(run.wrote)
    BY DEF ThreadInv, RunInv, RunLive
<1>2. ASSUME run.at = NoId \/ Clean(run.at) PROVE IsList(LiveOf(run.at)) /\ run.live = LiveOf(run.at)
    BY <1>1, <1>2, BaseLive DEF RunLive
<1> QED
    BY <1>1, <1>2 DEF GoesOn

LEMMA RunLiveOff == ASSUME run' = Off PROVE RunLive'
<1>1. run'.pc = "off" /\ run'.wrote = <<>>
    BY DEF Off
<1> QED
    BY <1>1, ShortLists DEF RunLive

LEMMA RunLiveIdle == ASSUME RunLive, run' = run, run.pc = "off" PROVE RunLive'
BY DEF RunLive

LEMMA RunLiveNext ==
    ASSUME ThreadInv, NEW live, given'[puts + 1].live = live,
           run' = [pc |-> "tasks", at |-> puts + 1, live |-> live, done |-> FALSE, wrote |-> <<>>]
    PROVE  RunLive'
<1>1. puts + 1 # NoId
    BY DEF ThreadInv, Ids, NoId
<1>2. run'.live = live /\ run'.at = puts + 1 /\ run'.wrote = <<>>
    OBVIOUS
<1>3. LiveOf(run.at)' = live
    BY <1>1, <1>2 DEF LiveOf
<1> QED
    BY <1>2, <1>3, ShortLists DEF RunLive

LEMMA RunLiveAt ==
    ASSUME ThreadInv, ParentInv, LiveInv, PutsNothing, NEW p \in Bases, NEW pc, NEW done, NEW wrote,
           IsList(wrote),
           run' = [pc |-> pc, at |-> p, live |-> Load(p), done |-> done, wrote |-> wrote]
    PROVE  RunLive'
<1>1. Stored' = Stored /\ given' = given /\ lossy \subseteq lossy'
    BY DEF PutsNothing, Stored
<1>2. run'.at = p /\ run'.live = Load(p) /\ run'.wrote = wrote
    OBVIOUS
<1>3. ASSUME p = NoId \/ Clean(p)' PROVE Load(p) = LiveOf(p)
    <2>1. CASE p = NoId
        BY <2>1, BaseLive
    <2>2. CASE Clean(p)'
        <3>1. p \in Stored
            BY <1>1, <2>2 DEF Clean
        <3>2. Clean(p)
            BY <1>1, <2>2, <3>1, CleanStays
        <3> QED
            BY <3>2, BaseLive
    <2> QED
        BY <1>3, <2>1, <2>2
<1>4. LiveOf(p)' = LiveOf(p)
    BY <1>1 DEF LiveOf
<1>5. ASSUME run'.at = NoId \/ Clean(run.at)' PROVE run'.live = LiveOf(run.at)'
    <2>1. p = NoId \/ Clean(p)'
        BY <1>2, <1>5 DEF Clean
    <2>2. LiveOf(run.at)' = LiveOf(p)'
        BY <1>2 DEF LiveOf
    <2> QED
        BY <1>2, <1>3, <1>4, <2>1, <2>2
<1> QED
    BY <1>2, <1>5 DEF RunLive

\* A step that leaves the savers alone.
LEMMA SaversKept ==
    ASSUME SpecialInv, UNCHANGED <<given, lossy, savers>>, migrated => migrated'
    PROVE  PutsNothing /\ SpecialInv'
<1>1. mem' = mem /\ sql' = sql /\ pg' = pg /\ given' = given /\ lossy' = lossy
    BY DEF savers
<1> QED
    BY <1>1 DEF PutsNothing, SpecialInv, SavedAt

\* What is kept of the delta channel's value.
LossInv == LiveInv /\ SpecialInv /\ RunLive

LEMMA CountedAdds ==
    ASSUME ThreadInv, ParentInv, SpecialInv, NEW p, NEW to, NEW gone, NEW live, NEW applied,
           NEW source, NEW next, PlainSets(to, gone), GoesOn(p, live, applied),
           PutCounted(p, to, gone, live, applied, source, next)
    PROVE  Adds /\ SpecialInv' /\ given'[puts + 1].live = live
<1>1. PICK snap, info : Put(puts + 1, p, to, gone, live, applied, snap, info)
    BY Zenon DEF PutCounted
<1> QED
    BY <1>1, PutAdds


\* Where a step leaves what is stored, and the run.
Keeps == (PutsNothing \/ Adds \/ given' = None) /\ SpecialInv' /\ RunLive'

LEMMA InputRunKeeps ==
    ASSUME ThreadInv, ParentInv, LossInv, NEW p \in Bases, NEW direct, InputRun(p, direct)
    PROVE  Keeps
<1> DEFINE wrote == Saved(p, NullTask) \o (IF direct THEN <<NextValue>> ELSE <<>>)
<1>1. /\ run' = [pc |-> "input", at |-> p, live |-> Load(p), done |-> FALSE, wrote |-> wrote]
      /\ UNCHANGED <<given, migrated>>
      /\ ~(direct /\ migrated) => UNCHANGED <<savers, lossy>>
    BY Zenon DEF InputRun
<1>2. IsList(wrote)
    BY SavedIsSeq, ShortLists, ConcatIs DEF ThreadInv
<1> HIDE DEF wrote
<1>3. PutsNothing /\ SpecialInv'
    <2>1. CASE direct /\ migrated
        BY <2>1, InputSaves, SaveLives DEF LossInv
    <2>2. CASE ~(direct /\ migrated)
        BY <1>1, <2>2, SaversKept DEF LossInv
    <2> QED
        BY <2>1, <2>2
<1>4. RunLive'
    BY <1>1, <1>2, <1>3, RunLiveAt DEF LossInv
<1> QED
    BY <1>3, <1>4 DEF Keeps

LEMMA ResumeRunKeeps ==
    ASSUME ThreadInv, ParentInv, LossInv, NEW p \in Stored, ResumeRun(p)
    PROVE  Keeps
<1> DEFINE wrote == Saved(p, NullTask) \o Saved(p, NodeTask)
<1>1. PICK done :
         /\ run' = [pc |-> "tasks", at |-> p, live |-> Load(p), done |-> done, wrote |-> wrote]
         /\ UNCHANGED <<given, puts, migrated, forks, mixed, lossy, writes, savers>>
    BY Zenon DEF ResumeRun
<1>2. IsList(wrote) /\ p \in Bases
    BY SavedIsSeq, ConcatIs DEF ThreadInv, Bases
<1> HIDE DEF wrote
<1>3. PutsNothing /\ SpecialInv'
    BY <1>1, SaversKept DEF LossInv
<1>4. RunLive'
    BY <1>1, <1>2, <1>3, RunLiveAt DEF LossInv
<1> QED
    BY <1>3, <1>4 DEF Keeps

LEMMA ForkRunKeeps ==
    ASSUME ThreadInv, ParentInv, LossInv, NEW p \in Stored, ForkRun(p)
    PROVE  Keeps
<1> DEFINE nulls == Saved(p, NullTask)
<1>1. /\ PutCounted(p, {}, {}, Load(p) \o nulls, nulls, "fork", TRUE)
      /\ run' = [pc |-> "tasks", at |-> puts + 1, live |-> Load(p) \o nulls, done |-> FALSE, wrote |-> <<>>]
      /\ migrated' = migrated
    BY DEF ForkRun
<1>2. IsList(nulls) /\ p \in Bases /\ PlainSets({}, {})
    BY SavedIsSeq DEF ThreadInv, Bases, PlainSets
<1> HIDE DEF nulls
<1>3. GoesOn(p, Load(p) \o nulls, nulls)
    BY <1>1, <1>2, LoadGoesOn DEF LossInv
<1>4. PICK live : live = Load(p) \o nulls
    OBVIOUS
<1>5. Adds /\ SpecialInv' /\ given'[puts + 1].live = live
    BY <1>1, <1>2, <1>3, <1>4, CountedAdds DEF LossInv
<1>6. RunLive'
    BY <1>1, <1>4, <1>5, RunLiveNext
<1> QED
    BY <1>5, <1>6 DEF Keeps

LEMMA TaskDoneKeeps ==
    ASSUME ThreadInv, ParentInv, LossInv, NEW toDelta \in BOOLEAN, TaskDone(toDelta)
    PROVE  Keeps
<1>1. /\ run' = [run EXCEPT !.done = TRUE, !.wrote = IF toDelta THEN Append(@, NextValue) ELSE @]
      /\ run.pc = "tasks"
    BY DEF TaskDone
<1>2. PutsNothing /\ SpecialInv'
    BY TaskSaves, SaveLives DEF LossInv
<1>3. /\ run'.pc = run.pc /\ run'.at = run.at /\ run'.live = run.live
      /\ run'.wrote = IF toDelta THEN Append(run.wrote, NextValue) ELSE run.wrote
    BY <1>1 DEF ThreadInv, RunInv
<1>4. IsList(run'.wrote)
    BY <1>3, AppendIs DEF LossInv, RunLive
<1>5. Stored' = Stored /\ given' = given /\ lossy \subseteq lossy'
    BY <1>2 DEF PutsNothing, Stored
<1>6. LiveOf(run.at)' = LiveOf(run.at)
    BY <1>3, <1>5 DEF LiveOf
<1>7. ASSUME Clean(run.at)' PROVE Clean(run.at)
    <2>1. PICK i : i = run.at
        OBVIOUS
    <2>2. Clean(i)'
        BY <1>3, <1>7, <2>1 DEF Clean
    <2>3. i \in Stored
        BY <1>5, <2>2 DEF Clean
    <2>4. Clean(i)
        BY <1>5, <2>2, <2>3, CleanStays
    <2> QED
        BY <2>1, <2>4
<1>8. RunLive'
    BY <1>1, <1>3, <1>4, <1>6, <1>7 DEF LossInv, RunLive
<1> QED
    BY <1>2, <1>8 DEF Keeps

LEMMA SuperstepKeeps ==
    ASSUME ThreadInv, ParentInv, LossInv, NEW next \in BOOLEAN, Superstep(next)
    PROVE  Keeps
<1>1. PICK live : live = run.live \o run.wrote
    OBVIOUS
<1>2. /\ run.pc = "tasks" /\ PutCounted(run.at, {"obj"}, {"prim"}, live, run.wrote, "loop", next)
      /\ run' = IF next THEN [pc |-> "tasks", at |-> puts + 1, live |-> live, done |-> FALSE,
                              wrote |-> <<>>]
                ELSE Off
      /\ migrated' = migrated
    BY <1>1 DEF Superstep
<1>3. GoesOn(run.at, live, run.wrote) /\ PlainSets({"obj"}, {"prim"})
    BY <1>1, <1>2, RunGoesOn DEF LossInv, PlainSets
<1>4. Adds /\ SpecialInv' /\ given'[puts + 1].live = live
    BY <1>2, <1>3, CountedAdds DEF LossInv
<1>5. RunLive'
    <2>1. CASE next
        BY <1>2, <1>4, <2>1, RunLiveNext
    <2>2. CASE ~next
        BY <1>2, <2>2, RunLiveOff
    <2> QED
        BY <2>1, <2>2
<1> QED
    BY <1>4, <1>5 DEF Keeps

LEMMA InputPutKeeps == ASSUME ThreadInv, ParentInv, LossInv, InputPut PROVE Keeps
<1>1. PICK live : live = run.live \o run.wrote
    OBVIOUS
<1>2. /\ run.pc = "input" /\ PutCounted(run.at, {"prim"}, {}, live, run.wrote, "input", TRUE)
      /\ run' = [pc |-> "tasks", at |-> puts + 1, live |-> live, done |-> FALSE, wrote |-> <<>>]
      /\ migrated' = migrated
    BY <1>1 DEF InputPut
<1>3. GoesOn(run.at, live, run.wrote) /\ PlainSets({"prim"}, {})
    BY <1>1, <1>2, RunGoesOn DEF LossInv, PlainSets
<1>4. Adds /\ SpecialInv' /\ given'[puts + 1].live = live
    BY <1>2, <1>3, CountedAdds DEF LossInv
<1>5. RunLive'
    BY <1>2, <1>4, RunLiveNext
<1> QED
    BY <1>4, <1>5 DEF Keeps

LEMMA UpdateKeeps ==
    ASSUME ThreadInv, ParentInv, LossInv, NEW p \in Stored, Update(p)
    PROVE  Keeps
<1> DEFINE wrote == <<NextValue>>
<1>1. run' = [pc |-> "update", at |-> p, live |-> Load(p), done |-> TRUE, wrote |-> wrote]
    BY DEF Update
<1>2. IsList(wrote) /\ p \in Bases
    BY ShortLists DEF Bases
<1> HIDE DEF wrote
<1>3. PutsNothing /\ SpecialInv'
    BY UpdateSaves, SaveLives DEF LossInv
<1>4. RunLive'
    BY <1>1, <1>2, <1>3, RunLiveAt DEF LossInv
<1> QED
    BY <1>3, <1>4 DEF Keeps

LEMMA UpdatePutKeeps == ASSUME ThreadInv, ParentInv, LossInv, UpdatePut PROVE Keeps
<1>1. PICK live : live = run.live \o run.wrote
    OBVIOUS
<1>2. /\ run.pc = "update" /\ PutCounted(run.at, {}, {}, live, run.wrote, "update", TRUE)
      /\ run' = Off /\ migrated' = migrated
    BY <1>1 DEF UpdatePut
<1>3. GoesOn(run.at, live, run.wrote) /\ PlainSets({}, {})
    BY <1>1, <1>2, RunGoesOn DEF LossInv, PlainSets
<1>4. Adds /\ SpecialInv'
    BY <1>2, <1>3, CountedAdds DEF LossInv
<1> QED
    BY <1>2, <1>4, RunLiveOff DEF Keeps

LEMMA UpdateFreshKeeps == ASSUME ThreadInv, ParentInv, LossInv, UpdateFresh PROVE Keeps
<1>1. PICK live : live = <<NextValue>>
    OBVIOUS
<1>2. /\ PutCounted(NoId, {"obj"}, {}, live, live, "update", TRUE)
      /\ Stored = {} /\ migrated' = migrated /\ run' = run /\ run.pc = "off"
    BY <1>1 DEF UpdateFresh, Idle
<1>3. IsList(live) /\ NoId \in Bases /\ PlainSets({"obj"}, {})
    BY <1>1, <1>2, ShortLists DEF Bases, PlainSets
<1>4. Load(NoId) \o live = live
    BY <1>3, ListSums DEF Load
<1>5. GoesOn(NoId, Load(NoId) \o live, live)
    BY <1>2, <1>3, LoadGoesOn DEF LossInv
<1>6. Adds /\ SpecialInv'
    BY <1>2, <1>3, <1>4, <1>5, CountedAdds DEF LossInv
<1> QED
    BY <1>2, <1>6, RunLiveIdle DEF Keeps, LossInv

LEMMA UpdateInputKeeps ==
    ASSUME ThreadInv, ParentInv, LossInv, NEW p \in Bases, UpdateInput(p)
    PROVE  Keeps
<1>1. PICK applied : applied = <<NextValue>>
    OBVIOUS
<1>2. PICK info : Put(puts + 1, p, {"prim"}, {}, Load(p) \o applied, applied, FALSE, info)
    BY <1>1, Zenon DEF UpdateInput
<1>3. /\ run' = [Off EXCEPT !.pc = "stored", !.at = puts + 1, !.wrote = applied]
      /\ migrated' = migrated
    BY <1>1 DEF UpdateInput
<1>4. IsList(applied) /\ PlainSets({"prim"}, {})
    BY <1>1, ShortLists DEF PlainSets
<1>5. GoesOn(p, Load(p) \o applied, applied)
    BY <1>3, <1>4, LoadGoesOn DEF LossInv
<1>6. Adds /\ SpecialInv'
    BY <1>2, <1>4, <1>5, PutAdds DEF LossInv
<1>7. run'.pc = "stored" /\ run'.wrote = applied
    BY <1>3 DEF Off
<1> QED
    BY <1>4, <1>6, <1>7 DEF Keeps, RunLive

LEMMA UpdateEndKeeps ==
    ASSUME ThreadInv, ParentInv, LossInv, NEW p \in Stored, UpdateEnd(p)
    PROVE  Keeps
<1> DEFINE applied == Saved(p, NullTask) \o (IF given[p].info.next THEN Saved(p, NodeTask) ELSE <<>>)
<1>1. PICK info : Put(puts + 1, p, {}, {"prim"}, Load(p) \o applied, applied, FALSE, info)
    BY Zenon DEF UpdateEnd
<1>2. run.pc = "off" /\ run' = run /\ migrated' = migrated
    BY DEF UpdateEnd, Idle
<1>3. IsList(applied) /\ p \in Bases /\ PlainSets({}, {"prim"})
    BY SavedIsSeq, ShortLists, ConcatIs DEF ThreadInv, Bases, PlainSets
<1> HIDE DEF applied
<1>4. GoesOn(p, Load(p) \o applied, applied)
    BY <1>2, <1>3, LoadGoesOn DEF LossInv
<1>5. Adds /\ SpecialInv'
    BY <1>1, <1>3, <1>4, PutAdds DEF LossInv
<1> QED
    BY <1>2, <1>5, RunLiveIdle DEF Keeps, LossInv

LEMMA UpdateCopyKeeps ==
    ASSUME ThreadInv, ParentInv, LossInv, NEW p \in Stored, UpdateCopy(p)
    PROVE  Keeps
<1>1. PICK q : q = given[p].parent
    OBVIOUS
<1>2. DeltaStep(puts + 1, p, q)
    BY <1>1, CopyIsDelta
<1>3. lossy' = lossy \cup {q} /\ migrated' = migrated /\ run' = run /\ run.pc = "off"
    BY <1>1 DEF UpdateCopy, Idle
<1>4. Adds
    BY <1>2, <1>3 DEF Adds
<1>5. SpecialInv'
    BY <1>2 DEF DeltaStep, SpecialInv, LossInv
<1> QED
    BY <1>3, <1>4, <1>5, RunLiveIdle DEF Keeps, LossInv

LEMMA NextKeeps ==
    ASSUME ThreadInv, ParentInv, LossInv, [Next]_vars
    PROVE  Keeps
<1>1. ASSUME NEW p \in Bases, NEW direct \in BOOLEAN, InputRun(p, direct) PROVE Keeps
    BY <1>1, InputRunKeeps
<1>2. ASSUME NEW p \in Stored, ResumeRun(p) PROVE Keeps
    BY <1>2, ResumeRunKeeps
<1>3. ASSUME NEW p \in Stored, ForkRun(p) PROVE Keeps
    BY <1>3, ForkRunKeeps
<1>4. ASSUME NEW toDelta \in BOOLEAN, TaskDone(toDelta) PROVE Keeps
    BY <1>4, TaskDoneKeeps
<1>5. ASSUME NEW next \in BOOLEAN, Superstep(next) PROVE Keeps
    BY <1>5, SuperstepKeeps
<1>6. ASSUME NEW p \in Stored, Update(p) PROVE Keeps
    BY <1>6, UpdateKeeps
<1>7. ASSUME NEW p \in Stored, UpdateEnd(p) PROVE Keeps
    BY <1>7, UpdateEndKeeps
<1>8. ASSUME NEW p \in Stored, UpdateCopy(p) PROVE Keeps
    BY <1>8, UpdateCopyKeeps
<1>9. ASSUME NEW p \in Bases, UpdateInput(p) PROVE Keeps
    BY <1>9, UpdateInputKeeps
<1>10. CASE InputPut
    BY <1>10, InputPutKeeps
<1>11. CASE TaskInterrupts
    <2>1. PutsNothing /\ SpecialInv'
        BY <1>11, InterruptSaves, SaveLives DEF LossInv
    <2>2. run' = Off
        BY <1>11 DEF TaskInterrupts
    <2> QED
        BY <2>1, <2>2, RunLiveOff DEF Keeps
<1>12. CASE Crash
    <2>1. run' = Off /\ UNCHANGED <<given, migrated, lossy, savers>>
        BY <1>12 DEF Crash
    <2>2. PutsNothing /\ SpecialInv'
        BY <2>1, SaversKept DEF LossInv
    <2> QED
        BY <2>1, <2>2, RunLiveOff DEF Keeps
<1>13. CASE UpdatePut
    BY <1>13, UpdatePutKeeps
<1>14. CASE UpdateFresh
    BY <1>14, UpdateFreshKeeps
<1>15. CASE UpdateInputWrites
    <2>1. PutsNothing /\ SpecialInv'
        BY <1>15, UpdateInputSaves, SaveLives DEF LossInv
    <2>2. run' = Off
        BY <1>15 DEF UpdateInputWrites
    <2> QED
        BY <2>1, <2>2, RunLiveOff DEF Keeps
<1>16. CASE Migrate
    <2>1. run.pc = "off" /\ run' = run /\ migrated' /\ UNCHANGED <<given, lossy, savers>>
        BY <1>16 DEF Migrate, Idle
    <2>2. PutsNothing /\ SpecialInv'
        BY <2>1, SaversKept DEF LossInv
    <2> QED
        BY <2>1, <2>2, RunLiveIdle DEF Keeps, LossInv
<1>17. CASE DeleteThread
    <2>1. given' = None /\ sql' = SqlEmpty /\ run.pc = "off" /\ run' = run
        BY <1>17 DEF DeleteThread, Idle
    <2>2. DOMAIN sql'.writes = {}
        BY <2>1 DEF SqlEmpty, None
    <2>3. SpecialInv'
        BY <2>2 DEF SpecialInv
    <2> QED
        BY <2>1, <2>3, RunLiveIdle DEF Keeps, LossInv
<1>18. CASE Done \/ UNCHANGED vars
    <2>1. run' = run /\ UNCHANGED <<given, migrated, lossy, savers>>
        BY <1>18 DEF Done, vars
    <2>2. PutsNothing /\ SpecialInv'
        BY <2>1, SaversKept DEF LossInv
    <2>3. RunLive'
        BY <2>1 DEF RunLive, LossInv, LiveOf, Clean, Sound, Stored
    <2> QED
        BY <2>2, <2>3 DEF Keeps
<1> QED
    BY <1>1, <1>2, <1>3, <1>4, <1>5, <1>6, <1>7, <1>8, <1>9, <1>10, <1>11, <1>12, <1>13,
       <1>14, <1>15, <1>16, <1>17, <1>18 DEF Next

LEMMA NextLosses ==
    ASSUME ThreadInv, ParentInv, LossInv, [Next]_vars
    PROVE  LossInv'
<1>1. Keeps
    BY NextKeeps
<1>2. CASE PutsNothing
    BY <1>1, <1>2, QuietLives DEF Keeps, LossInv
<1>3. CASE Adds
    BY <1>1, <1>3, AddsLive DEF Keeps, LossInv
<1>4. CASE given' = None
    <2>1. Stored' = {}
        BY <1>4 DEF Stored, None
    <2> QED
        BY <1>1, <2>1 DEF Keeps, LossInv, LiveInv
<1> QED
    BY <1>1, <1>2, <1>3, <1>4 DEF Keeps

\* Loading a checkpoint gives the value that its delta channel had when it was
\* put, from SqliteSaver on every path none of whose checkpoints lost writes,
\* from InMemorySaver and, on its first page, from PostgresSaver where the path
\* was not migrated: for any mix of runs, crashes, snapshots, updates and forks.
THEOREM RebuiltAlways == Spec => []Rebuilt
<1> DEFINE Inv == ThreadInv /\ ParentInv /\ CountInv /\ PlainInv /\ LossInv
<1>1. Init => Inv
    <2> SUFFICES ASSUME Init PROVE Inv
        OBVIOUS
    <2>1. Stored = {} /\ DOMAIN sql.writes = {} /\ run = Off
        BY DEF Init, None, Stored, SqlEmpty
    <2>2. ParentInv /\ CountInv /\ PlainInv /\ LiveInv /\ SpecialInv
        BY <2>1 DEF ParentInv, CountInv, PlainInv, LiveInv, SpecialInv
    <2>3. RunLive
        BY <2>1, ShortLists DEF RunLive, Off
    <2> QED
        BY <2>2, <2>3, InitThread DEF LossInv
<1>2. Inv /\ [Next]_vars => Inv'
    BY NextThread, NextCounted, NextPlain, NextLosses
<1>3. Inv => Rebuilt
    <2> SUFFICES ASSUME Inv, NEW t \in Stored, \A i \in Path(t) : given[i].parent \notin lossy
                 PROVE  /\ LoadFrom("sql", t) = given[t].live
                        /\ ~WasPlain(t) => LoadFrom("mem", t) = given[t].live
                        /\ (~WasPlain(t) /\ t \in FirstPage(Stored)) => LoadFrom("pg", t) = given[t].live
        BY DEF Rebuilt
    <2>1. Clean(t)
        <3>1. Path(t) = ToSet(Chains(Lineage)[t]) /\ Path(t) \in SUBSET Stored /\ t \in Path(t)
            BY PathIs DEF Path, ThreadInv
        <3>2. ASSUME NEW i \in Path(t) PROVE given[i].parent = NoId \/ given[i].parent \in Path(t)
            <4>1. i \in Stored /\ ToSet(Chains(Lineage)[i]) \subseteq Path(t)
                BY <3>1, ChainsNest DEF ThreadInv
            <4>2. given[i].parent \in Stored =>
                      given[i].parent \in ToSet(Chains(Lineage)[given[i].parent])
                BY PathIs DEF Path, ThreadInv
            <4>3. /\ Chains(Lineage)[i] = <<i>> \o Chains(Lineage)[given[i].parent]
                  /\ Chains(Lineage)[given[i].parent] \in Seq(Stored)
                BY <4>1, LineageIs DEF ThreadInv, ParentInv
            <4>4. ToSet(Chains(Lineage)[i]) = {i} \cup ToSet(Chains(Lineage)[given[i].parent])
                BY <4>1, <4>3, ConsSet
            <4>5. given[i].parent \in Stored \cup {NoId}
                BY <4>1 DEF ParentInv
            <4> QED
                BY <4>1, <4>2, <4>4, <4>5
        <3>3. Sound(Path(t))
            BY <3>2 DEF Sound
        <3> QED
            BY <3>1, <3>3 DEF Clean
    <2>2. LoadFrom("sql", t) = given[t].live
        BY <2>1, SqlLoads DEF LossInv
    <2>3. ~WasPlain(t) => LoadFrom("mem", t) = given[t].live
        BY <2>1, MemLoads DEF LossInv
    <2>4. ~WasPlain(t) /\ t \in FirstPage(Stored) => LoadFrom("pg", t) = given[t].live
        BY <2>1, PgLoads DEF LossInv
    <2> QED
        BY <2>2, <2>3, <2>4
<1> QED
    BY <1>1, <1>2, <1>3, PTL DEF Spec

-----------------------------------------------------------------------------
(* The stores.                                                             *)

\* What a caller may ask for.
OpType == [kind : {"put", "delete", "get", "search"}, key : Keys, ttl : BOOLEAN, refresh : BOOLEAN]

OpsAssumption == Ops \subseteq OpType

-----------------------------------------------------------------------------
(* The invariant.                                                          *)

\* Call n writes key k.
WritesKey(n, k) == n \in DOMAIN calls /\ Store!Writes(calls[n].op) /\ calls[n].op.key = k

\* It has been taken into a batch.
Taken(n) == calls[n].state \notin {"queued", "dropped"}

CallType ==
    [op : OpType, state : {"queued", "taken", "dropped", "left", "answered", "raised"},
     floor : [Keys -> Nat], answer : [Keys -> Nat]]

RowType == [num : Nat, live : BOOLEAN, ttl : BOOLEAN, expired : BOOLEAN]

StoreTyped ==
    /\ calls \in Seq(CallType)
    /\ waiting \in Seq(DOMAIN calls)
    /\ rows \in [Keys -> RowType]
    /\ batch = [pc |-> batch.pc, calls |-> batch.calls, ops |-> batch.ops, listen |-> batch.listen,
                results |-> batch.results, refresh |-> batch.refresh]
    /\ batch.pc \in {"idle", "taken", "read", "committed"}

\* The queue is in the order of the calls, and younger than the table.
Queue ==
    /\ \A i, j \in DOMAIN waiting : i < j => waiting[i] < waiting[j]
    /\ \A i \in DOMAIN waiting : ~Taken(waiting[i])
    /\ \A i \in DOMAIN waiting, k \in Keys : rows[k].num < waiting[i]

\* What _dedupe_ops returns: every call listens to an operation that is as good
\* as its own, and the putCalls of a key are merged into the last of them.
Deduped(d) ==
    /\ d.calls \in Seq(DOMAIN calls)
    /\ d.ops \in Seq(Range(d.calls))
    /\ d.listen \in Seq(DOMAIN d.ops)
    /\ Len(d.listen) = Len(d.calls)
    /\ \A i \in DOMAIN d.calls :
          /\ Store!SameOp(d.ops[d.listen[i]], d.calls[i])
          /\ Store!Writes(calls[d.calls[i]].op) => d.calls[i] <= d.ops[d.listen[i]]
    /\ \A i, j \in DOMAIN d.ops : Store!SameOp(d.ops[i], d.ops[j]) => i = j

\* A batch is older than the queue; it is younger than the table until its
\* putCalls are in it.
BatchMade ==
    batch.pc # "idle" =>
        /\ Deduped(batch)
        /\ \A n \in Range(batch.calls) : calls[n].state \in {"taken", "left"}
        /\ \A n \in Range(batch.calls), i \in DOMAIN waiting : n < waiting[i]
        /\ batch.pc # "committed" => \A n \in Range(batch.calls), k \in Keys : rows[k].num < n
        /\ batch.pc = "committed" =>
              \A n \in Range(batch.calls), k \in Keys : WritesKey(n, k) => n <= rows[k].num

\* No floor is above the table, which holds every put that has been answered.
Floored ==
    /\ \A n \in DOMAIN calls, k \in Keys : calls[n].floor[k] <= rows[k].num
    /\ \A n \in DOMAIN calls, k \in Keys :
          calls[n].state = "answered" /\ WritesKey(n, k) => n <= rows[k].num

\* A row is what its put has made of it, or what time has.
RowMade(k) ==
    LET row == rows[k]
    IN  /\ row.num = 0 => ~row.live
        /\ row.num # 0 => WritesKey(row.num, k) /\ Taken(row.num)
        /\ row.live => calls[row.num].op.kind = "put"
        /\ ~row.live /\ row.num # 0 => calls[row.num].op.kind = "delete" \/ row.num \in lapsed
        /\ row.expired => row.live /\ row.num \in lapsed

\* A put that is new enough for call r explains that k was found to be v.
FoundFor(r, k, v) ==
    \E n \in 0 .. Len(calls) :
        /\ calls[r].floor[k] <= n
        /\ n # 0 => Taken(n)
        /\ Store!Explains(n, k, v)

Results ==
    batch.pc \in {"read", "committed"} =>
        /\ batch.results \in [DOMAIN batch.ops -> [Keys -> Nat]]
        /\ \A j \in DOMAIN batch.ops : \A k \in Store!ReadKeys(calls[batch.ops[j]].op) :
           \A r \in Range(batch.calls) : FoundFor(r, k, batch.results[j][k])

Answers ==
    \A r \in DOMAIN calls : calls[r].state = "answered" =>
        \A k \in Store!ReadKeys(calls[r].op) : FoundFor(r, k, calls[r].answer[k])

StoreInv ==
    /\ StoreTyped /\ Queue /\ BatchMade /\ Floored /\ (\A k \in Keys : RowMade(k))
    /\ Results /\ Answers

LEMMA InvImplies == ASSUME StoreInv PROVE Store!FreshReads
<1> SUFFICES ASSUME NEW r \in DOMAIN calls, calls[r].state = "answered",
                    NEW k \in Store!ReadKeys(calls[r].op)
             PROVE  \E n \in calls[r].floor[k] .. Len(calls) : Store!Explains(n, k, calls[r].answer[k])
    BY DEF Store!FreshReads
<1>1. FoundFor(r, k, calls[r].answer[k])
    BY DEF StoreInv, Answers
<1>2. calls[r] \in CallType
    BY DEF StoreInv, StoreTyped
<1>2a. calls[r].op \in OpType
    BY <1>2 DEF CallType
<1>2b. k \in Keys
    BY <1>2a DEF Store!ReadKeys, OpType
<1>3. calls[r].floor[k] \in Nat
    BY <1>2, <1>2b DEF CallType
<1>4. Len(calls) \in Nat
    BY DEF StoreInv, StoreTyped
<1> QED
    BY <1>1, <1>3, <1>4 DEF FoundFor

-----------------------------------------------------------------------------
(* _dedupe_ops.                                                            *)

LEMMA SameOpFacts ==
    ASSUME NEW l \in DOMAIN calls, NEW m \in DOMAIN calls, NEW n \in DOMAIN calls
    PROVE  /\ Store!SameOp(n, n)
           /\ Store!SameOp(m, n) => Store!SameOp(n, m)
           /\ Store!SameOp(l, m) /\ Store!SameOp(m, n) => Store!SameOp(l, n)
           /\ Store!SameOp(m, n) => (Store!Writes(calls[m].op) <=> Store!Writes(calls[n].op))
           /\ Store!SameOp(m, n) /\ ~Store!Writes(calls[n].op) => calls[m].op = calls[n].op
           /\ Store!SameOp(m, n) /\ Store!Writes(calls[n].op) => calls[m].op.key = calls[n].op.key
           /\ Store!Writes(calls[m].op) /\ Store!Writes(calls[n].op) /\ calls[m].op.key = calls[n].op.key
                  => Store!SameOp(m, n)
BY DEF Store!SameOp

LEMMA DedupeStep ==
    ASSUME StoreTyped, NEW acc, Deduped(acc), NEW n \in DOMAIN calls,
           \A m \in Range(acc.calls) : m < n
    PROVE  /\ Deduped(Store!DedupeOp(acc, n))
           /\ Store!DedupeOp(acc, n).calls = Append(acc.calls, n)
<1> DEFINE same == {i \in DOMAIN acc.ops : Store!SameOp(acc.ops[i], n)}
           at   == IF same = {} THEN Len(acc.ops) + 1 ELSE Min(same)
           new  == IF same = {} THEN Append(acc.ops, n)
                   ELSE IF Store!Writes(calls[n].op) THEN [acc.ops EXCEPT ![at] = n] ELSE acc.ops
           d    == Store!DedupeOp(acc, n)
<1>1. /\ d.calls = Append(acc.calls, n)
      /\ d.ops = new
      /\ d.listen = Append(acc.listen, at)
    BY DEF Store!DedupeOp, Store!Min, Min
<1>2. /\ acc.calls \in Seq(DOMAIN calls) /\ acc.ops \in Seq(Range(acc.calls))
      /\ acc.listen \in Seq(DOMAIN acc.ops) /\ Len(acc.listen) = Len(acc.calls)
    BY DEF Deduped
<1>3. DOMAIN calls \subseteq Nat
    BY DEF StoreTyped
<1>4. /\ Range(acc.calls) \subseteq DOMAIN calls
      /\ Range(d.calls) = Range(acc.calls) \cup {n}
      /\ d.calls \in Seq(DOMAIN calls)
      /\ Len(d.calls) = Len(acc.calls) + 1
      /\ \A i \in DOMAIN acc.calls : d.calls[i] = acc.calls[i]
      /\ d.calls[Len(acc.calls) + 1] = n
      /\ DOMAIN acc.calls = 1 .. Len(acc.calls) /\ DOMAIN d.calls = 1 .. Len(acc.calls) + 1
    <2>1. /\ Range(acc.calls) \subseteq DOMAIN calls /\ DOMAIN acc.calls = 1 .. Len(acc.calls)
          /\ Len(acc.calls) \in Nat
        BY <1>2 DEF Range
    <2>2. /\ d.calls \in Seq(DOMAIN calls)
          /\ Len(d.calls) = Len(acc.calls) + 1
          /\ \A i \in DOMAIN acc.calls : d.calls[i] = acc.calls[i]
          /\ d.calls[Len(acc.calls) + 1] = n
          /\ DOMAIN d.calls = 1 .. Len(acc.calls) + 1
        BY <1>1, <1>2, <2>1
    <2>3. Range(d.calls) = Range(acc.calls) \cup {n}
        <3>1. DOMAIN d.calls = DOMAIN acc.calls \cup {Len(acc.calls) + 1}
            BY <2>1, <2>2
        <3> QED
            BY <3>1, <2>1, <2>2 DEF Range
    <2> QED
        BY <2>1, <2>2, <2>3
<1>5. same # {} => at \in same
    <2>1. same \in SUBSET Nat
        BY <1>2
    <2> QED
        BY <2>1, MinFact
<1>6. /\ new \in Seq(Range(d.calls))
      /\ at \in DOMAIN new
      /\ DOMAIN acc.ops \subseteq DOMAIN new
      /\ same # {} => DOMAIN new = DOMAIN acc.ops
      /\ \A j \in DOMAIN new : j = at \/ j \in DOMAIN acc.ops
      /\ \A j \in DOMAIN acc.ops : j # at => new[j] = acc.ops[j]
      /\ same = {} => new[at] = n
      /\ same # {} => new[at] = IF Store!Writes(calls[n].op) THEN n ELSE acc.ops[at]
      /\ \A j \in DOMAIN acc.ops : acc.ops[j] \in DOMAIN calls
    <2>1. CASE same = {}
        BY <2>1, <1>2, <1>4
    <2>0. /\ acc.ops \in Seq(Range(d.calls)) /\ n \in Range(d.calls)
          /\ \A j \in DOMAIN acc.ops : acc.ops[j] \in DOMAIN calls
        BY <1>2, <1>4
    <2>2. CASE same # {} /\ Store!Writes(calls[n].op)
        <3>1. new = [acc.ops EXCEPT ![at] = n] /\ at \in DOMAIN acc.ops
            BY <2>2, <1>5
        <3> HIDE DEF new, at
        <3> QED
            BY <3>1, <2>0, <2>2
    <2>3. CASE same # {} /\ ~Store!Writes(calls[n].op)
        <3>1. new = acc.ops /\ at \in DOMAIN acc.ops
            BY <2>3, <1>5
        <3> HIDE DEF new, at
        <3> QED
            BY <3>1, <2>0, <2>3
    <2> QED
        BY <2>1, <2>2, <2>3
<1> HIDE DEF new, at, d
<1>7. Store!SameOp(new[at], n) /\ new[at] \in DOMAIN calls
    BY <1>5, <1>6, SameOpFacts
<1>8. d.listen \in Seq(DOMAIN d.ops) /\ Len(d.listen) = Len(d.calls)
      /\ (\A i \in DOMAIN acc.calls : d.listen[i] = acc.listen[i])
      /\ d.listen[Len(acc.calls) + 1] = at
    BY <1>1, <1>2, <1>4, <1>6
<1>9. ASSUME NEW i \in DOMAIN d.calls
      PROVE  /\ Store!SameOp(d.ops[d.listen[i]], d.calls[i])
             /\ Store!Writes(calls[d.calls[i]].op) => d.calls[i] <= d.ops[d.listen[i]]
    <2>1. CASE i = Len(acc.calls) + 1
        <3>1. d.ops[d.listen[i]] = new[at] /\ d.calls[i] = n
            BY <2>1, <1>1, <1>4, <1>8
        <3>2. Store!Writes(calls[n].op) => new[at] = n
            BY <1>6
        <3> QED
            BY <3>1, <3>2, <1>3, <1>7
    <2>2. CASE i \in DOMAIN acc.calls
        <3> DEFINE j == acc.listen[i]
        <3>1. j \in DOMAIN acc.ops /\ d.listen[i] = j /\ d.calls[i] = acc.calls[i]
            BY <2>2, <1>2, <1>4, <1>8
        <3>2. /\ Store!SameOp(acc.ops[j], acc.calls[i])
              /\ Store!Writes(calls[acc.calls[i]].op) => acc.calls[i] <= acc.ops[j]
            BY <2>2 DEF Deduped
        <3>3. acc.calls[i] \in DOMAIN calls /\ acc.calls[i] \in Range(acc.calls)
            BY <2>2, <1>2 DEF Range
        <3>4. CASE j # at
            BY <3>1, <3>2, <3>4, <1>1, <1>6
        <3>5. CASE j = at /\ new[at] = acc.ops[at]
            BY <3>1, <3>2, <3>5, <1>1
        <3>6. CASE j = at /\ new[at] = n
            <4>1. same # {}
                BY <3>1, <3>6, <1>2 DEF at
            <4>2. Store!SameOp(acc.ops[j], n)
                BY <4>1, <3>6, <1>5
            <4>3. acc.ops[j] \in DOMAIN calls
                BY <3>1, <1>6
            <4>4. Store!SameOp(n, acc.calls[i])
                BY <4>2, <4>3, <3>2, <3>3, SameOpFacts
            <4>5. acc.calls[i] <= n
                BY <3>3, <1>3
            <4> QED
                BY <4>4, <4>5, <3>1, <3>6, <1>1
        <3> QED
            BY <3>4, <3>5, <3>6, <3>1, <1>5, <1>6, <1>2 DEF at
    <2> QED
        BY <2>1, <2>2, <1>4
<1>10. ASSUME NEW i \in DOMAIN new, NEW j \in DOMAIN new, Store!SameOp(new[i], new[j])
       PROVE  i = j
    <2>1. ASSUME NEW k \in DOMAIN acc.ops, k # at, Store!SameOp(new[k], new[at]) PROVE FALSE
        <3>1. new[k] = acc.ops[k] /\ acc.ops[k] \in DOMAIN calls
            BY <2>1, <1>6
        <3>2. Store!SameOp(acc.ops[k], n)
            BY <3>1, <2>1, <1>7, SameOpFacts
        <3>3. k \in same /\ same # {}
            BY <3>2
        <3>4. Store!SameOp(acc.ops[at], n) /\ at \in DOMAIN acc.ops
            BY <3>3, <1>5
        <3>5. Store!SameOp(acc.ops[k], acc.ops[at])
            BY <3>1, <3>2, <3>4, <1>6, SameOpFacts
        <3> QED
            BY <3>4, <3>5, <2>1 DEF Deduped
    <2>2. \A k \in DOMAIN new : new[k] \in DOMAIN calls
        BY <1>6, <1>7
    <2>3. CASE i = at \/ j = at
        BY <2>1, <2>2, <2>3, <1>6, <1>10, SameOpFacts
    <2>4. CASE i # at /\ j # at
        BY <2>4, <1>6, <1>10 DEF Deduped
    <2> QED
        BY <2>3, <2>4
<1>11. Deduped(d)
    BY <1>1, <1>4, <1>6, <1>8, <1>9, <1>10 DEF Deduped
<1> QED
    BY <1>1, <1>11 DEF d

Empty == [calls |-> <<>>, ops |-> <<>>, listen |-> <<>>]

\* One call more.
MergeStep(acc, i) ==
    IF calls[waiting[i]].state = "queued" THEN Store!DedupeOp(acc, waiting[i]) ELSE acc

\* f is the merging of the first n calls of the queue.
MergesTo(f, n) ==
    f = [i \in 0 .. n |-> IF i = 0 THEN Empty ELSE MergeStep(f[i - 1], i)]

\* The recursion of Merged has a solution: the shortest queue without one would
\* be longer than one that has it.
LEMMA MergedExists ==
    ASSUME NEW n \in Nat
    PROVE  \E f : MergesTo(f, n)
<1> DEFINE Bad == {k \in Nat : ~ \E f : MergesTo(f, k)}
<1> SUFFICES ASSUME n \in Bad PROVE FALSE
    OBVIOUS
<1>1. PICK k \in Bad : \A m \in Bad : k <= m
    BY NatMin
<1>2. k # 0
    <2> DEFINE f == [i \in 0 .. 0 |-> Empty]
    <2>1. 0 .. 0 = {0}
        OBVIOUS
    <2>2. MergesTo(f, 0)
        BY <2>1 DEF MergesTo
    <2> QED
        BY <2>2
<1>3. k \in Nat /\ k - 1 \in Nat /\ ~(k <= k - 1)
    BY <1>2
<1>4. PICK f : MergesTo(f, k - 1)
    BY <1>1, <1>3
<1> DEFINE g == [i \in 0 .. k |-> IF i = k THEN MergeStep(f[k - 1], k) ELSE f[i]]
<1>5. f = [i \in 0 .. k - 1 |-> IF i = 0 THEN Empty ELSE MergeStep(f[i - 1], i)]
    BY <1>4 DEF MergesTo
<1>6. ASSUME NEW i \in 0 .. k
      PROVE  g[i] = IF i = 0 THEN Empty ELSE MergeStep(g[i - 1], i)
    <2>1. CASE i = k
        <3>1. g[i] = MergeStep(f[k - 1], k) /\ g[i - 1] = f[k - 1] /\ i # 0
            BY <1>2, <1>3, <2>1
        <3> QED
            BY <3>1, <2>1
    <2>2. CASE i = 0
        <3>1. g[i] = f[0] /\ 0 \in 0 .. k - 1
            BY <2>2, <1>2, <1>3
        <3> QED
            BY <3>1, <2>2, <1>5
    <2>3. CASE i # 0 /\ i # k
        <3>1. /\ i \in 0 .. k - 1 /\ i - 1 \in 0 .. k
              /\ i - 1 # k
            BY <2>3, <1>3
        <3>2. g[i] = f[i] /\ g[i - 1] = f[i - 1]
            BY <2>3, <3>1
        <3>3. f[i] = MergeStep(f[i - 1], i)
            BY <1>5, <3>1, <2>3
        <3> QED
            BY <3>2, <3>3, <2>3
    <2> QED
        BY <2>1, <2>2, <2>3
<1> DEFINE h == [i \in 0 .. k |-> IF i = 0 THEN Empty ELSE MergeStep(g[i - 1], i)]
<1>7. g = h
    <2>1. \A i \in 0 .. k : g[i] = h[i]
        BY <1>6
    <2> QED
        BY <2>1
<1>8. MergesTo(g, k)
    BY <1>7 DEF MergesTo
<1> QED
    BY <1>1, <1>8

LEMMA MergedFacts ==
    ASSUME Len(waiting) \in Nat
    PROVE  /\ Store!Merged[0] = Empty
           /\ \A i \in 1 .. Len(waiting) : Store!Merged[i] = MergeStep(Store!Merged[i - 1], i)
<1>1. Store!Merged = CHOOSE f : MergesTo(f, Len(waiting))
    BY DEF Store!Merged, MergesTo, MergeStep, Empty
<1>2. MergesTo(Store!Merged, Len(waiting))
    BY <1>1, MergedExists
<1>3. Store!Merged = [i \in 0 .. Len(waiting) |->
                          IF i = 0 THEN Empty ELSE MergeStep(Store!Merged[i - 1], i)]
    BY <1>2 DEF MergesTo
<1> DEFINE f == Store!Merged
<1>4. f = [i \in 0 .. Len(waiting) |-> IF i = 0 THEN Empty ELSE MergeStep(f[i - 1], i)]
    BY <1>3
<1> HIDE DEF f
<1>5. /\ f[0] = Empty
      /\ \A i \in 1 .. Len(waiting) : f[i] = MergeStep(f[i - 1], i)
    BY <1>4
<1> QED
    BY <1>5 DEF f

\* What the merging of a prefix of the queue has kept.
PrefixMerged(i) ==
    /\ Deduped(Store!Merged[i])
    /\ \A n \in Range(Store!Merged[i].calls) :
          calls[n].state = "queued" /\ \E j \in 1 .. i : waiting[j] = n

LEMMA AppendedRange ==
    ASSUME NEW T, NEW c \in Seq(T), NEW n \in T
    PROVE  \A m \in Range(Append(c, n)) : m \in Range(c) \/ m = n
BY DEF Range

LEMMA MergedIsDeduped ==
    ASSUME StoreTyped, Queue
    PROVE  PrefixMerged(Len(waiting))
<1>0. Len(waiting) \in Nat /\ DOMAIN waiting = 1 .. Len(waiting)
      /\ \A i \in DOMAIN waiting : waiting[i] \in DOMAIN calls
    BY DEF StoreTyped
<1> DEFINE Bad == {i \in Nat : i <= Len(waiting) /\ ~PrefixMerged(i)}
<1> SUFFICES ASSUME Len(waiting) \in Bad PROVE FALSE
    BY <1>0
<1>1. PICK k \in Bad : \A m \in Bad : k <= m
    BY NatMin
<1>2. k # 0
    <2>1. Store!Merged[0] = Empty
        BY <1>0, MergedFacts
    <2>2. Empty.calls = <<>> /\ Empty.ops = <<>> /\ Empty.listen = <<>>
        BY DEF Empty
    <2>3. Range(<<>>) = {}
        BY DEF Range
    <2>4. Deduped(Empty)
        BY <2>2, <2>3 DEF Deduped
    <2>5. PrefixMerged(0)
        BY <2>1, <2>2, <2>3, <2>4 DEF PrefixMerged
    <2> QED
        BY <1>1, <2>5
<1>3. k \in Nat /\ k - 1 \in Nat /\ k \in 1 .. Len(waiting) /\ ~(k <= k - 1) /\ k - 1 <= Len(waiting)
      /\ (\A j \in 1 .. k - 1 : j \in DOMAIN waiting /\ j \in 1 .. k /\ j < k)
    BY <1>0, <1>1, <1>2
<1>4. PrefixMerged(k - 1)
    BY <1>1, <1>3
<1>5. Store!Merged[k] = MergeStep(Store!Merged[k - 1], k)
    BY <1>0, <1>3, MergedFacts
<1>6. CASE calls[waiting[k]].state # "queued"
    <2>1. Store!Merged[k] = Store!Merged[k - 1]
        BY <1>5, <1>6 DEF MergeStep
    <2>2. PrefixMerged(k)
        BY <2>1, <1>3, <1>4 DEF PrefixMerged
    <2> QED
        BY <1>1, <2>2
<1>7. CASE calls[waiting[k]].state = "queued"
    <2> DEFINE acc == Store!Merged[k - 1]
               n == waiting[k]
    <2>1. Store!Merged[k] = Store!DedupeOp(acc, n) /\ n \in DOMAIN calls
        BY <1>5, <1>7, <1>0, <1>3 DEF MergeStep
    <2>2. Deduped(acc)
        BY <1>4 DEF PrefixMerged
    <2>3. \A m \in Range(acc.calls) : m < n
        BY <1>0, <1>3, <1>4 DEF PrefixMerged, Queue
    <2>4. Deduped(Store!Merged[k]) /\ Store!Merged[k].calls = Append(acc.calls, n)
        BY <2>1, <2>2, <2>3, DedupeStep
    <2>5. acc.calls \in Seq(DOMAIN calls)
        BY <2>2 DEF Deduped
    <2>6. \A m \in Range(Append(acc.calls, n)) : m \in Range(acc.calls) \/ m = n
        <3>1. PICK c \in Seq(DOMAIN calls), e \in DOMAIN calls : c = acc.calls /\ e = n
            BY <2>1, <2>5, Zenon
        <3>2. \A m \in Range(Append(c, e)) : m \in Range(c) \/ m = e
            BY AppendedRange, Zenon
        <3> QED
            BY <3>1, <3>2, Zenon
    <2>7. PrefixMerged(k)
        <3>1. ASSUME NEW m \in Range(Store!Merged[k].calls)
              PROVE  calls[m].state = "queued" /\ \E j \in 1 .. k : waiting[j] = m
            <4>1. CASE m = n
                BY <4>1, <1>7, <1>3
            <4>2. CASE m \in Range(acc.calls)
                BY <4>2, <1>4, <1>3 DEF PrefixMerged
            <4> QED
                BY <4>1, <4>2, <2>4, <2>6
        <3> QED
            BY <2>4, <3>1 DEF PrefixMerged
    <2> QED
        BY <1>1, <2>7
<1> QED
    BY <1>6, <1>7

-----------------------------------------------------------------------------
(* What every step leaves alone.                                           *)

\* Calls keep what was asked, no call is put back, and what has lapsed stays so.
Later ==
    /\ DOMAIN calls \subseteq DOMAIN calls' /\ Len(calls) <= Len(calls')
    /\ \A n \in DOMAIN calls :
          /\ calls'[n].op = calls[n].op /\ calls'[n].floor = calls[n].floor
          /\ Taken(n) => Taken(n)'
    /\ lapsed \subseteq lapsed'

LEMMA CallFacts ==
    ASSUME StoreTyped
    PROVE  /\ Len(calls) \in Nat /\ DOMAIN calls = 1 .. Len(calls)
           /\ \A n \in DOMAIN calls :
                 /\ calls[n] \in CallType
                 /\ calls[n].op \in OpType /\ Store!ReadKeys(calls[n].op) \subseteq Keys
                 /\ \A k \in Keys : calls[n].floor[k] \in Nat
           /\ \A k \in Keys : rows[k] \in RowType /\ rows[k].num \in Nat
           /\ DOMAIN waiting = 1 .. Len(waiting) /\ Len(waiting) \in Nat
           /\ \A i \in DOMAIN waiting : waiting[i] \in DOMAIN calls
<1>1. /\ Len(calls) \in Nat /\ DOMAIN calls = 1 .. Len(calls)
      /\ \A n \in DOMAIN calls : calls[n] \in CallType
    BY DEF StoreTyped
<1>2. ASSUME NEW n \in DOMAIN calls
      PROVE  calls[n].op \in OpType /\ \A k \in Keys : calls[n].floor[k] \in Nat
    BY <1>1 DEF CallType
<1>3. ASSUME NEW n \in DOMAIN calls
      PROVE  Store!ReadKeys(calls[n].op) \subseteq Keys
    BY <1>2 DEF OpType, Store!ReadKeys
<1>4. \A k \in Keys : rows[k] \in RowType /\ rows[k].num \in Nat
    BY DEF StoreTyped, RowType
<1>5. /\ DOMAIN waiting = 1 .. Len(waiting) /\ Len(waiting) \in Nat
      /\ \A i \in DOMAIN waiting : waiting[i] \in DOMAIN calls
    BY DEF StoreTyped
<1> QED
    BY <1>1, <1>2, <1>3, <1>4, <1>5

LEMMA DedupedStays ==
    ASSUME StoreTyped, Later, NEW d, Deduped(d)
    PROVE  Deduped(d)'
<1>1. /\ d.calls \in Seq(DOMAIN calls) /\ d.ops \in Seq(Range(d.calls))
      /\ d.listen \in Seq(DOMAIN d.ops) /\ Len(d.listen) = Len(d.calls)
    BY DEF Deduped
<1>2. /\ Range(d.calls) \subseteq DOMAIN calls /\ d.calls \in Seq(DOMAIN calls')
      /\ \A i \in DOMAIN d.calls : d.calls[i] \in DOMAIN calls /\ d.listen[i] \in DOMAIN d.ops
      /\ \A j \in DOMAIN d.ops : d.ops[j] \in DOMAIN calls
    <2>1. Range(d.calls) \subseteq DOMAIN calls
        BY <1>1 DEF Range
    <2>2. DOMAIN calls \subseteq DOMAIN calls'
        BY DEF Later
    <2>3. d.calls \in Seq(DOMAIN calls')
        BY <1>1, <2>2
    <2>4. \A i \in DOMAIN d.calls : d.calls[i] \in DOMAIN calls /\ d.listen[i] \in DOMAIN d.ops
        BY <1>1
    <2>5. \A j \in DOMAIN d.ops : d.ops[j] \in Range(d.calls)
        BY <1>1
    <2> QED
        BY <2>1, <2>3, <2>4, <2>5
<1>3. \A m, n \in DOMAIN calls :
          /\ Store!SameOp(m, n)' = Store!SameOp(m, n)
          /\ Store!Writes(calls'[n].op) = Store!Writes(calls[n].op)
    BY DEF Store!SameOp, Later
<1>4. \A i \in DOMAIN d.calls :
          /\ Store!SameOp(d.ops[d.listen[i]], d.calls[i])'
          /\ Store!Writes(calls'[d.calls[i]].op) => d.calls[i] <= d.ops[d.listen[i]]
    BY <1>2, <1>3 DEF Deduped
<1>5. \A i, j \in DOMAIN d.ops : Store!SameOp(d.ops[i], d.ops[j])' => i = j
    BY <1>2, <1>3 DEF Deduped
<1> QED
    BY <1>1, <1>2, <1>4, <1>5 DEF Deduped

LEMMA FoundStays ==
    ASSUME StoreTyped, StoreTyped', Later, NEW r \in DOMAIN calls, NEW k, NEW v, FoundFor(r, k, v)
    PROVE  FoundFor(r, k, v)'
<1>1. PICK n \in 0 .. Len(calls) :
          calls[r].floor[k] <= n /\ (n # 0 => Taken(n)) /\ Store!Explains(n, k, v)
    BY DEF FoundFor
<1>2. n \in 0 .. Len(calls')
    BY CallFacts DEF Later, StoreTyped
<1>3. calls'[r].floor[k] <= n
    BY <1>1 DEF Later
<1>4. n # 0 => n \in DOMAIN calls
    BY CallFacts
<1>5. (n # 0 => Taken(n)') /\ Store!Explains(n, k, v)'
    BY <1>1, <1>4 DEF Later, Store!Explains, Taken
<1> QED
    BY <1>2, <1>3, <1>5 DEF FoundFor

LEMMA WritesKeyStays ==
    ASSUME Later, NEW n \in DOMAIN calls, NEW k
    PROVE  WritesKey(n, k)' <=> WritesKey(n, k)
BY DEF WritesKey, Later

LEMMA RowsStay ==
    ASSUME Later, NEW k \in Keys, RowMade(k), rows'[k] = rows[k]
    PROVE  RowMade(k)'
BY DEF RowMade, WritesKey, Later

\* Steps that leave the queue, the batch and the putCalls in the table alone.
Quiet ==
    /\ waiting' = waiting /\ batch' = batch
    /\ \A k \in Keys : rows'[k].num = rows[k].num /\ RowMade(k)'
    /\ DOMAIN calls' = DOMAIN calls
    /\ \A n \in DOMAIN calls :
          /\ calls'[n].answer = calls[n].answer
          /\ \/ calls'[n].state = calls[n].state
             \/ calls[n].state = "queued" /\ calls'[n].state = "dropped"
             \/ calls[n].state = "taken" /\ calls'[n].state = "left"

LEMMA QuietStep ==
    ASSUME StoreInv, StoreTyped', Later, Quiet
    PROVE  StoreInv'
<1> USE DEF StoreInv
<1>1. Queue'
    BY CallFacts DEF Queue, Quiet, Taken
<1>2. BatchMade'
    <2>1. CASE batch.pc = "idle"
        BY <2>1 DEF BatchMade, Quiet
    <2>2. CASE batch.pc # "idle"
        <3>1. Deduped(batch)'
            <4>1. Deduped(batch) /\ batch' = batch
                BY <2>2 DEF BatchMade, Quiet
            <4> QED
                BY <4>1, DedupedStays
        <3>2. Range(batch.calls) \subseteq DOMAIN calls
            BY <2>2 DEF BatchMade, Deduped, Range
        <3>3. \A n \in Range(batch.calls) : calls'[n].state \in {"taken", "left"}
            BY <2>2, <3>2 DEF BatchMade, Quiet
        <3>4. /\ \A n \in Range(batch.calls), i \in DOMAIN waiting : n < waiting[i]
              /\ batch.pc # "committed" =>
                    \A n \in Range(batch.calls), k \in Keys : rows'[k].num < n
            BY <2>2 DEF BatchMade, Quiet
        <3>5. batch.pc = "committed" =>
                  \A n \in Range(batch.calls), k \in Keys : WritesKey(n, k)' => n <= rows'[k].num
            BY <2>2, <3>2, WritesKeyStays DEF BatchMade, Quiet
        <3>6. waiting' = waiting /\ batch' = batch
            BY DEF Quiet
        <3> QED
            BY <3>1, <3>3, <3>4, <3>5, <3>6 DEF BatchMade
    <2> QED
        BY <2>1, <2>2
<1>3. Floored'
    <2>1. ASSUME NEW n \in DOMAIN calls, NEW k \in Keys
          PROVE  /\ calls'[n].floor[k] <= rows'[k].num
                 /\ calls'[n].state = "answered" /\ WritesKey(n, k)' => n <= rows'[k].num
        BY WritesKeyStays DEF Floored, Quiet, Later
    <2> QED
        BY <2>1 DEF Floored, Quiet
<1>4. Results'
    <2>1. CASE batch.pc \notin {"read", "committed"}
        BY <2>1 DEF Results, Quiet
    <2>2. CASE batch.pc \in {"read", "committed"}
        <3>1. Deduped(batch)
            BY <2>2 DEF BatchMade
        <3>2. /\ Range(batch.calls) \subseteq DOMAIN calls
              /\ \A j \in DOMAIN batch.ops : batch.ops[j] \in DOMAIN calls
            BY <3>1 DEF Deduped, Range
        <3>3. ASSUME NEW j \in DOMAIN batch.ops, NEW k \in Store!ReadKeys(calls'[batch.ops[j]].op),
                     NEW r \in Range(batch.calls)
              PROVE  FoundFor(r, k, batch.results[j][k])'
            <4>1. FoundFor(r, k, batch.results[j][k]) /\ r \in DOMAIN calls
                BY <2>2, <3>2 DEF Results, Later
            <4> DEFINE v == batch.results[j][k]
            <4>2. FoundFor(r, k, v)
                BY <4>1
            <4>3. batch' = batch
                BY DEF Quiet
            <4> QED
                BY <4>1, <4>3, FoundStays
        <3>4. batch.results \in [DOMAIN batch.ops -> [Keys -> Nat]] /\ batch' = batch
            BY <2>2 DEF Results, Quiet
        <3> QED
            BY <3>3, <3>4 DEF Results
    <2> QED
        BY <2>1, <2>2
<1>5. Answers'
    <2>1. ASSUME NEW r \in DOMAIN calls', calls'[r].state = "answered",
                 NEW k \in Store!ReadKeys(calls'[r].op)
          PROVE  FoundFor(r, k, calls[r].answer[k])'
        <3>1. r \in DOMAIN calls /\ calls[r].state = "answered" /\ calls'[r].op = calls[r].op
              /\ calls'[r].answer = calls[r].answer
            BY <2>1 DEF Quiet, Later
        <3>2. FoundFor(r, k, calls[r].answer[k])
            BY <3>1 DEF Answers
        <3> QED
            BY <3>1, <3>2, FoundStays
    <2> QED
        BY <2>1 DEF Answers
<1>6. \A k \in Keys : RowMade(k)'
    BY DEF Quiet
<1> QED
    BY <1>1, <1>2, <1>3, <1>4, <1>5, <1>6

-----------------------------------------------------------------------------
(* The callers, and time.                                                  *)

LEMMA FloorsFact ==
    ASSUME StoreTyped, Floored
    PROVE  /\ Store!Floors \in [Keys -> Nat]
           /\ \A k \in Keys : Store!Floors[k] <= rows[k].num
<1> SUFFICES ASSUME NEW k \in Keys
             PROVE  Store!Floors[k] \in Nat /\ Store!Floors[k] <= rows[k].num
    BY DEF Store!Floors, Store!Max, Max
<1> DEFINE putCalls == {n \in DOMAIN calls : calls[n].state = "answered" /\ Store!Writes(calls[n].op)
                                            /\ calls[n].op.key = k}
           S == {0} \cup putCalls
<1>1. Store!Floors[k] = Max(S)
    BY DEF Store!Floors, Store!Max, Max
<1>2. Len(calls) \in Nat /\ S \in SUBSET (0 .. Len(calls)) /\ S # {}
    BY CallFacts
<1>3. Max(S) \in S
    BY <1>2, MaxFact
<1>4. \A n \in S : n \in Nat /\ n <= rows[k].num
    BY CallFacts DEF Floored, WritesKey
<1> QED
    BY <1>1, <1>3, <1>4

LEMMA CallStep ==
    ASSUME OpsAssumption, StoreInv, NEW op \in Ops, Store!Call(op)
    PROVE  StoreInv'
<1> USE DEF StoreInv
<1> DEFINE N == Len(calls)
           new == [op |-> op, state |-> "queued", floor |-> Store!Floors,
                   answer |-> [k \in Keys |-> Store!None]]
<1>1. /\ calls' = Append(calls, new)
      /\ waiting' = Append(waiting, Len(calls'))
      /\ UNCHANGED <<backend, rows, batch, faults, lapsed>>
    BY DEF Store!Call
<1>2. new \in CallType
    BY FloorsFact DEF OpsAssumption, CallType, Store!None
<1>3. /\ N \in Nat /\ DOMAIN calls = 1 .. N
      /\ calls' \in Seq(CallType) /\ DOMAIN calls' = 1 .. N + 1 /\ Len(calls') = N + 1
      /\ \A n \in DOMAIN calls : calls'[n] = calls[n]
      /\ calls'[N + 1] = new
    <2>1. calls \in Seq(CallType)
        BY DEF StoreTyped
    <2> HIDE DEF new
    <2> QED
        BY <1>1, <1>2, <2>1
<1>4. new.op = op /\ new.state = "queued" /\ new.floor = Store!Floors
    OBVIOUS
<1> HIDE DEF new, N
<1>5. Later
    BY <1>1, <1>3 DEF Later, Taken, N
<1>6. /\ Len(waiting) \in Nat /\ DOMAIN waiting = 1 .. Len(waiting)
      /\ waiting' \in Seq(DOMAIN calls') /\ DOMAIN waiting' = 1 .. Len(waiting) + 1
      /\ \A i \in DOMAIN waiting : waiting'[i] = waiting[i] /\ waiting[i] \in 1 .. N
      /\ waiting'[Len(waiting) + 1] = N + 1
    <2>1. waiting \in Seq(1 .. N)
        BY <1>3 DEF StoreTyped
    <2>2. waiting \in Seq(1 .. N + 1) /\ N + 1 \in 1 .. N + 1
        BY <2>1, <1>3
    <2>3. waiting' = Append(waiting, N + 1)
        BY <1>1, <1>3
    <2> QED
        BY <1>3, <2>1, <2>2, <2>3
<1>7. StoreTyped'
    BY <1>1, <1>3, <1>6 DEF StoreTyped
<1>8. \A k \in Keys : rows[k].num \in Nat /\ rows[k].num < N + 1
    <2> SUFFICES ASSUME NEW k \in Keys PROVE rows[k].num \in Nat /\ rows[k].num < N + 1
        OBVIOUS
    <2>1. rows[k].num \in Nat /\ (rows[k].num = 0 \/ rows[k].num \in 1 .. N)
        BY <1>3, CallFacts DEF RowMade, WritesKey
    <2> QED
        BY <2>1, <1>3
<1>9. Queue'
    <2>1. ASSUME NEW i \in DOMAIN waiting', NEW j \in DOMAIN waiting', i < j
          PROVE  waiting'[i] < waiting'[j]
        <3>1. CASE j \in DOMAIN waiting
            <4>1. i \in DOMAIN waiting
                BY <2>1, <3>1, <1>6
            <4> QED
                BY <4>1, <2>1, <3>1, <1>6 DEF Queue
        <3>2. CASE j = Len(waiting) + 1
            <4>1. i \in DOMAIN waiting
                BY <2>1, <3>2, <1>6
            <4>2. waiting'[i] \in 1 .. N /\ waiting'[j] = N + 1
                BY <4>1, <3>2, <1>6
            <4> QED
                BY <4>2, <1>3
        <3> QED
            BY <3>1, <3>2, <1>6
    <2>2. ASSUME NEW i \in DOMAIN waiting'
          PROVE  calls'[waiting'[i]].state \in {"queued", "dropped"} /\ \A k \in Keys : rows'[k].num < waiting'[i]
        <3>1. CASE i \in DOMAIN waiting
            <4>1. waiting'[i] = waiting[i] /\ waiting[i] \in DOMAIN calls
                BY <3>1, <1>3, <1>6
            <4>2. calls'[waiting'[i]].state \in {"queued", "dropped"}
                BY <4>1, <3>1, <1>3 DEF Queue, Taken
            <4>3. \A k \in Keys : rows[k].num < waiting[i]
                BY <3>1 DEF Queue
            <4> QED
                BY <4>1, <4>2, <4>3, <1>1
        <3>2. CASE i = Len(waiting) + 1
            <4>1. waiting'[i] = N + 1 /\ calls'[N + 1].state = "queued"
                BY <3>2, <1>3, <1>4, <1>6
            <4> QED
                BY <4>1, <1>1, <1>8
        <3> QED
            BY <3>1, <3>2, <1>6
    <2> QED
        BY <2>1, <2>2 DEF Queue, Taken
<1>10. BatchMade'
    <2>1. CASE batch.pc = "idle"
        BY <2>1, <1>1 DEF BatchMade
    <2>2. CASE batch.pc # "idle"
        <3>1. Deduped(batch)'
            <4>1. Deduped(batch) /\ batch' = batch
                BY <2>2, <1>1 DEF BatchMade
            <4> QED
                BY <4>1, <1>5, DedupedStays
        <3>2. Range(batch.calls) \subseteq DOMAIN calls
            BY <2>2 DEF BatchMade, Deduped, Range
        <3>3. \A n \in Range(batch.calls) : calls'[n].state \in {"taken", "left"}
            BY <2>2, <3>2, <1>3 DEF BatchMade
        <3>4. \A n \in Range(batch.calls), i \in DOMAIN waiting' : n < waiting'[i]
            <4> SUFFICES ASSUME NEW n \in Range(batch.calls), NEW i \in DOMAIN waiting'
                         PROVE  n < waiting'[i]
                OBVIOUS
            <4>1. n \in 1 .. N
                BY <3>2, <1>3
            <4>2. CASE i = Len(waiting) + 1
                BY <4>1, <4>2, <1>3, <1>6
            <4>3. CASE i \in DOMAIN waiting
                BY <4>3, <2>2, <1>6 DEF BatchMade
            <4> QED
                BY <4>2, <4>3, <1>6
        <3>5. /\ batch.pc # "committed" =>
                    \A n \in Range(batch.calls), k \in Keys : rows'[k].num < n
              /\ batch.pc = "committed" =>
                    \A n \in Range(batch.calls), k \in Keys : WritesKey(n, k)' => n <= rows'[k].num
            BY <2>2, <3>2, <1>1, <1>5, WritesKeyStays DEF BatchMade
        <3> QED
            BY <3>1, <3>3, <3>4, <3>5, <1>1 DEF BatchMade
    <2> QED
        BY <2>1, <2>2
<1>11. Floored'
    <2>1. ASSUME NEW n \in DOMAIN calls', NEW k \in Keys
          PROVE  /\ calls'[n].floor[k] <= rows'[k].num
                 /\ calls'[n].state = "answered" /\ WritesKey(n, k)' => n <= rows'[k].num
        <3>1. CASE n = N + 1
            BY <3>1, <1>1, <1>3, <1>4, FloorsFact
        <3>2. CASE n \in DOMAIN calls
            BY <3>2, <1>1, <1>3, <1>5, WritesKeyStays DEF Floored
        <3> QED
            BY <3>1, <3>2, <1>3
    <2> QED
        BY <2>1 DEF Floored
<1>12. \A k \in Keys : RowMade(k)'
    BY <1>1, <1>5, RowsStay
<1>13. Results'
    <2>1. CASE batch.pc \notin {"read", "committed"}
        BY <2>1, <1>1 DEF Results
    <2>2. CASE batch.pc \in {"read", "committed"}
        <3>1. Deduped(batch)
            BY <2>2 DEF BatchMade
        <3>2. /\ Range(batch.calls) \subseteq DOMAIN calls
              /\ \A j \in DOMAIN batch.ops : batch.ops[j] \in DOMAIN calls
            BY <3>1 DEF Deduped, Range
        <3>3. ASSUME NEW j \in DOMAIN batch.ops, NEW k \in Store!ReadKeys(calls'[batch.ops[j]].op),
                     NEW r \in Range(batch.calls)
              PROVE  FoundFor(r, k, batch.results[j][k])'
            <4>1. FoundFor(r, k, batch.results[j][k]) /\ r \in DOMAIN calls
                BY <2>2, <3>2, <1>3 DEF Results
            <4> QED
                BY <4>1, <1>1, <1>5, <1>7, FoundStays
        <3> QED
            BY <3>3, <2>2, <1>1 DEF Results
    <2> QED
        BY <2>1, <2>2
<1>14. Answers'
    <2>1. ASSUME NEW r \in DOMAIN calls', calls'[r].state = "answered",
                 NEW k \in Store!ReadKeys(calls'[r].op)
          PROVE  FoundFor(r, k, calls[r].answer[k])'
        <3>1. r \in DOMAIN calls /\ calls'[r] = calls[r]
            BY <2>1, <1>3, <1>4
        <3>2. FoundFor(r, k, calls[r].answer[k])
            BY <2>1, <3>1 DEF Answers
        <3> QED
            BY <3>1, <3>2, <1>5, <1>7, FoundStays
    <2> QED
        BY <2>1 DEF Answers
<1> QED
    BY <1>7, <1>9, <1>10, <1>11, <1>12, <1>13, <1>14

LEMMA CancelStep ==
    ASSUME StoreInv, NEW n \in DOMAIN calls, Store!Cancel(n)
    PROVE  StoreInv'
<1> DEFINE st == IF calls[n].state = "queued" THEN "dropped" ELSE "left"
<1>1. /\ calls[n].state \in {"queued", "taken"}
      /\ calls' = [calls EXCEPT ![n] = [calls[n] EXCEPT !.state = st]]
      /\ UNCHANGED <<backend, waiting, rows, batch, lapsed>>
    BY DEF Store!Cancel
<1>2. calls \in Seq(CallType)
    BY DEF StoreInv, StoreTyped
<1>3. /\ calls' \in Seq(CallType)
      /\ DOMAIN calls' = DOMAIN calls /\ Len(calls') = Len(calls) /\ Len(calls) \in Nat
    <2>1. calls[n] \in CallType
        BY <1>2
    <2>2. [calls[n] EXCEPT !.state = st] \in CallType
        BY <2>1 DEF CallType
    <2> QED
        BY <1>1, <1>2, <2>2
<1>4. \A m \in DOMAIN calls : m # n => calls'[m] = calls[m]
    BY <1>1
<1>5. /\ calls'[n].op = calls[n].op /\ calls'[n].floor = calls[n].floor
      /\ calls'[n].answer = calls[n].answer /\ calls'[n].state = st
    <2>1. calls[n] \in CallType
        BY <1>2
    <2>2. calls'[n] = [calls[n] EXCEPT !.state = st]
        BY <1>1
    <2> QED
        BY <2>1, <2>2 DEF CallType
<1> HIDE DEF st
<1>6. Later
    BY <1>1, <1>3, <1>4, <1>5 DEF Later, Taken, st
<1>7. StoreTyped'
    BY <1>1, <1>3 DEF StoreInv, StoreTyped
<1>8. Quiet
    <2>1. \A k \in Keys : rows'[k].num = rows[k].num /\ RowMade(k)'
        BY <1>1, <1>6, RowsStay DEF StoreInv
    <2>2. ASSUME NEW m \in DOMAIN calls
          PROVE  /\ calls'[m].answer = calls[m].answer
                 /\ \/ calls'[m].state = calls[m].state
                    \/ calls[m].state = "queued" /\ calls'[m].state = "dropped"
                    \/ calls[m].state = "taken" /\ calls'[m].state = "left"
        BY <1>1, <1>4, <1>5 DEF st
    <2> QED
        BY <1>1, <1>3, <2>1, <2>2 DEF Quiet
<1> QED
    BY <1>6, <1>7, <1>8, QuietStep

LEMMA ExpireStep ==
    ASSUME StoreInv, NEW k \in Keys, Store!Expire(k)
    PROVE  StoreInv'
<1>1. /\ rows[k].live /\ ~rows[k].expired
      /\ rows' = [rows EXCEPT ![k] = [rows[k] EXCEPT !.expired = TRUE]]
      /\ lapsed' = lapsed \cup {rows[k].num}
      /\ UNCHANGED <<backend, calls, waiting, batch, faults>>
    BY DEF Store!Expire
<1>2. Later
    BY <1>1, CallFacts DEF Later, StoreInv, Taken
<1>3. /\ rows'[k] = [rows[k] EXCEPT !.expired = TRUE]
      /\ \A j \in Keys : j # k => rows'[j] = rows[j]
    BY <1>1 DEF StoreInv, StoreTyped
<1>4. rows[k] \in RowType
    BY CallFacts DEF StoreInv
<1>5. /\ rows'[k] \in RowType /\ rows'[k].num = rows[k].num /\ rows'[k].live = rows[k].live
      /\ rows'[k].expired
    BY <1>3, <1>4 DEF RowType
<1>6. StoreTyped'
    BY <1>1, <1>5 DEF StoreInv, StoreTyped
<1>7. \A j \in Keys : rows'[j].num = rows[j].num /\ RowMade(j)'
    <2>1. RowMade(k)'
        BY <1>1, <1>2, <1>5 DEF RowMade, WritesKey, Later, StoreInv
    <2>2. ASSUME NEW j \in Keys, j # k PROVE rows'[j].num = rows[j].num /\ RowMade(j)'
        BY <1>2, <1>3, <2>2, RowsStay DEF StoreInv
    <2> QED
        BY <2>1, <2>2, <1>5
<1>8. Quiet
    BY <1>1, <1>7 DEF Quiet
<1> QED
    BY <1>2, <1>6, <1>8, QuietStep

LEMMA SweepStep ==
    ASSUME StoreInv, Store!Sweep
    PROVE  StoreInv'
<1>1. /\ rows' = [k \in Keys |-> IF rows[k].expired /\ k \notin batch.refresh
                                  THEN [rows[k] EXCEPT !.live = FALSE, !.expired = FALSE] ELSE rows[k]]
      /\ UNCHANGED <<backend, calls, waiting, batch, faults, lapsed>>
    BY DEF Store!Sweep
<1>2. Later
    <2>1. calls' = calls /\ lapsed' = lapsed
        BY <1>1
    <2> QED
        BY <2>1, CallFacts DEF Later, StoreInv, Taken
<1>3. ASSUME NEW k \in Keys
      PROVE  rows'[k] \in RowType /\ rows'[k].num = rows[k].num /\ RowMade(k)'
    <2>1. CASE rows[k].expired /\ k \notin batch.refresh
        <3>1. rows'[k] = [rows[k] EXCEPT !.live = FALSE, !.expired = FALSE]
            BY <2>1, <1>1
        <3>2. rows[k] \in RowType
            BY CallFacts DEF StoreInv
        <3>3. /\ rows'[k] \in RowType /\ rows'[k].num = rows[k].num
              /\ ~rows'[k].live /\ ~rows'[k].expired
            BY <3>1, <3>2 DEF RowType
        <3>4. RowMade(k) /\ rows[k].num \in lapsed
            BY <2>1 DEF RowMade, StoreInv
        <3> QED
            BY <3>3, <3>4, <1>1, <1>2 DEF RowMade, WritesKey, Later
    <2>2. CASE ~(rows[k].expired /\ k \notin batch.refresh)
        <3>1. rows'[k] = rows[k] /\ rows[k] \in RowType
            BY <2>2, <1>1, CallFacts DEF StoreInv
        <3> QED
            BY <3>1, <1>2, RowsStay DEF StoreInv
    <2> QED
        BY <2>1, <2>2
<1>4. StoreTyped'
    BY <1>1, <1>3 DEF StoreInv, StoreTyped
<1>5. Quiet
    BY <1>1, <1>3 DEF Quiet
<1> QED
    BY <1>2, <1>4, <1>5, QuietStep

LEMMA StutterStep ==
    ASSUME StoreInv, UNCHANGED Store!vars
    PROVE  StoreInv'
<1>1. Later /\ StoreTyped'
    BY CallFacts DEF Store!vars, Later, StoreInv, StoreTyped, Taken
<1>2. Quiet
    BY <1>1, RowsStay DEF Store!vars, Quiet, StoreInv
<1> QED
    BY <1>1, <1>2, QuietStep

-----------------------------------------------------------------------------
(* _run.                                                                   *)

LEMMA TakeStep ==
    ASSUME StoreInv, Store!Take
    PROVE  StoreInv'
<1> USE DEF StoreInv
<1>0. PICK d : d = Store!Merged[Len(waiting)]
    OBVIOUS
<1>1. /\ batch.pc = "idle"
      /\ waiting' = <<>>
      /\ batch' = IF d.calls = <<>> THEN Store!NoBatch
                  ELSE [Store!NoBatch EXCEPT !.pc = "taken", !.calls = d.calls, !.ops = d.ops,
                                             !.listen = d.listen]
      /\ calls' = [n \in DOMAIN calls |->
                      [calls[n] EXCEPT !.state = IF n \in Range(d.calls) THEN "taken" ELSE @]]
      /\ UNCHANGED <<backend, rows, faults, lapsed>>
    BY <1>0 DEF Store!Take, Store!Range, Range
<1>2. PrefixMerged(Len(waiting))
    BY MergedIsDeduped
<1>3. Deduped(d) /\ Range(d.calls) \subseteq DOMAIN calls
    BY <1>0, <1>2 DEF PrefixMerged, Deduped, Range
<1>4. \A n \in Range(d.calls) : calls[n].state = "queued" /\ \E j \in DOMAIN waiting : waiting[j] = n
    BY <1>0, <1>2, CallFacts DEF PrefixMerged
<1>5. ASSUME NEW n \in DOMAIN calls
      PROVE  /\ calls'[n] \in CallType
             /\ calls'[n].op = calls[n].op /\ calls'[n].floor = calls[n].floor
             /\ calls'[n].answer = calls[n].answer
             /\ calls'[n].state = IF n \in Range(d.calls) THEN "taken" ELSE calls[n].state
    <2>1. calls[n] \in CallType
        BY CallFacts
    <2>2. calls'[n] = [calls[n] EXCEPT !.state = IF n \in Range(d.calls) THEN "taken"
                                                   ELSE calls[n].state]
        BY <1>1
    <2> QED
        BY <2>1, <2>2 DEF CallType
<1>6. /\ DOMAIN calls' = DOMAIN calls /\ Len(calls') = Len(calls) /\ Len(calls) \in Nat
      /\ calls' \in Seq(CallType)
    <2>1. DOMAIN calls' = 1 .. Len(calls) /\ Len(calls) \in Nat
        BY <1>1, CallFacts
    <2>2. calls' = [n \in 1 .. Len(calls) |-> calls'[n]]
        BY <1>1, CallFacts
    <2>3. calls' \in Seq(CallType)
        BY <1>5, <2>1, <2>2, CallFacts
    <2> QED
        BY <2>1, <2>3, CallFacts
<1>7. Later
    BY <1>1, <1>4, <1>5, <1>6 DEF Later, Taken
<1>8. StoreTyped'
    <2>1. waiting' \in Seq(DOMAIN calls')
        BY <1>1
    <2>2. batch' = [pc |-> batch'.pc, calls |-> batch'.calls, ops |-> batch'.ops, listen |-> batch'.listen,
                    results |-> batch'.results, refresh |-> batch'.refresh]
          /\ batch'.pc \in {"idle", "taken"}
        BY <1>1 DEF Store!NoBatch
    <2> QED
        BY <1>1, <1>6, <2>1, <2>2 DEF StoreTyped
<1>9. batch'.pc # "idle" =>
          batch'.pc = "taken" /\ batch'.calls = d.calls /\ batch'.ops = d.ops /\ batch'.listen = d.listen
    BY <1>1 DEF Store!NoBatch
<1>10. Queue'
    <2>1. DOMAIN waiting' = {}
        BY <1>1
    <2> QED
        BY <2>1 DEF Queue
<1>11. BatchMade'
    <2> SUFFICES ASSUME batch'.pc # "idle" PROVE BatchMade'
        BY DEF BatchMade
    <2>1. Deduped(batch)'
        <3>1. Deduped(d)'
            BY <1>3, <1>7, DedupedStays
        <3> QED
            BY <3>1, <1>9 DEF Deduped
    <2>2. \A n \in Range(batch'.calls) : calls'[n].state \in {"taken", "left"}
        BY <1>3, <1>5, <1>9
    <2>3. DOMAIN waiting' = {}
        BY <1>1
    <2>4. \A n \in Range(batch'.calls), k \in Keys : rows'[k].num < n
        BY <1>1, <1>4, <1>9 DEF Queue
    <2> QED
        BY <2>1, <2>2, <2>3, <2>4, <1>9 DEF BatchMade
<1>12. Floored'
    <2>1. ASSUME NEW n \in DOMAIN calls, NEW k \in Keys
          PROVE  /\ calls'[n].floor[k] <= rows'[k].num
                 /\ calls'[n].state = "answered" /\ WritesKey(n, k)' => n <= rows'[k].num
        BY <1>1, <1>5, <1>7, WritesKeyStays DEF Floored
    <2> QED
        BY <2>1, <1>6 DEF Floored
<1>13. \A k \in Keys : RowMade(k)'
    BY <1>1, <1>7, RowsStay
<1>14. Results'
    BY <1>9, <1>8 DEF Results, StoreTyped
<1>15. Answers'
    <2>1. ASSUME NEW r \in DOMAIN calls', calls'[r].state = "answered",
                 NEW k \in Store!ReadKeys(calls'[r].op)
          PROVE  FoundFor(r, k, calls[r].answer[k])'
        <3>1. r \in DOMAIN calls /\ calls[r].state = "answered" /\ calls'[r].op = calls[r].op
              /\ calls'[r].answer = calls[r].answer
            BY <2>1, <1>5, <1>6
        <3>2. FoundFor(r, k, calls[r].answer[k])
            BY <3>1, <2>1 DEF Answers
        <3> QED
            BY <3>1, <3>2, <1>7, <1>8, FoundStays
    <2> QED
        BY <2>1 DEF Answers
<1> QED
    BY <1>8, <1>10, <1>11, <1>12, <1>13, <1>14, <1>15

\* What holds of the calls of a batch under way.
LEMMA SameBatch ==
    ASSUME Deduped(batch), calls' = calls, batch'.calls = batch.calls, batch'.ops = batch.ops,
           batch'.listen = batch.listen
    PROVE  Deduped(batch)'
<1>1. /\ \A m, n : Store!SameOp(m, n)' <=> Store!SameOp(m, n)
      /\ \A op : Store!Writes(op)' <=> Store!Writes(op)
    BY DEF Store!SameOp, Store!Writes
<1> QED
    BY <1>1 DEF Deduped

LEMMA BatchFacts ==
    ASSUME StoreInv, batch.pc # "idle"
    PROVE  /\ Deduped(batch)
           /\ Range(batch.calls) \subseteq DOMAIN calls
           /\ DOMAIN batch.listen = DOMAIN batch.calls
           /\ \A i \in DOMAIN batch.calls :
                 /\ batch.calls[i] \in Range(batch.calls)
                 /\ batch.listen[i] \in DOMAIN batch.ops
           /\ \A j \in DOMAIN batch.ops : batch.ops[j] \in Range(batch.calls)
<1>1. Deduped(batch)
    BY DEF StoreInv, BatchMade
<1>2. /\ batch.calls \in Seq(DOMAIN calls) /\ batch.ops \in Seq(Range(batch.calls))
      /\ batch.listen \in Seq(DOMAIN batch.ops) /\ Len(batch.listen) = Len(batch.calls)
    BY <1>1 DEF Deduped
<1>3. Range(batch.calls) \subseteq DOMAIN calls
    BY <1>2 DEF Range
<1>4. DOMAIN batch.listen = DOMAIN batch.calls
    BY <1>2
<1>5. \A i \in DOMAIN batch.calls : batch.calls[i] \in Range(batch.calls)
    BY DEF Range
<1>6. \A i \in DOMAIN batch.listen : batch.listen[i] \in DOMAIN batch.ops
    BY <1>2
<1>7. \A j \in DOMAIN batch.ops : batch.ops[j] \in Range(batch.calls)
    BY <1>2
<1> QED
    BY <1>1, <1>3, <1>4, <1>5, <1>6, <1>7

LEMMA ReadsStep ==
    ASSUME StoreInv, Store!BatchReads
    PROVE  StoreInv'
<1> USE DEF StoreInv
<1>0. PICK found : found = [i \in DOMAIN batch.ops |-> [k \in Keys |->
              IF k \in Store!ReadKeys(calls[batch.ops[i]].op) /\ Store!Readable(k) THEN rows[k].num ELSE Store!None]]
    OBVIOUS
<1>1. /\ batch.pc = "taken"
      /\ batch' = [batch EXCEPT !.pc = "read", !.refresh = Store!Refreshed, !.results = found]
      /\ UNCHANGED <<backend, calls, waiting, rows, faults, lapsed>>
    BY <1>0 DEF Store!BatchReads
<1>2. /\ batch'.pc = "read" /\ batch'.calls = batch.calls /\ batch'.ops = batch.ops
      /\ batch'.listen = batch.listen /\ batch'.results = found
      /\ batch' = [pc |-> batch'.pc, calls |-> batch'.calls, ops |-> batch'.ops,
                   listen |-> batch'.listen, results |-> batch'.results, refresh |-> batch'.refresh]
    <2> DEFINE b == [pc |-> batch.pc, calls |-> batch.calls, ops |-> batch.ops,
                     listen |-> batch.listen, results |-> batch.results, refresh |-> batch.refresh]
    <2>1. batch = b
        BY DEF StoreTyped
    <2>2. batch' = [b EXCEPT !.pc = "read", !.refresh = Store!Refreshed, !.results = found]
        BY <1>1, <2>1
    <2> QED
        BY <2>2
<1>3. found \in [DOMAIN batch.ops -> [Keys -> Nat]]
    BY <1>0, CallFacts DEF Store!None
<1>4. ASSUME NEW j \in DOMAIN batch.ops, NEW k \in Store!ReadKeys(calls[batch.ops[j]].op)
      PROVE  k \in Keys /\ found[j][k] = IF Store!Readable(k) THEN rows[k].num ELSE 0
    <2>1. batch.ops[j] \in DOMAIN calls
        BY <1>1, BatchFacts
    <2>2. k \in Keys
        BY <2>1, CallFacts
    <2> QED
        BY <1>0, <2>2 DEF Store!None
<1>5. StoreTyped'
    BY <1>1, <1>2 DEF StoreTyped
<1>6. BatchMade'
    <2>1. Deduped(batch)'
        BY <1>1, <1>2, BatchFacts, SameBatch, Zenon
    <2> QED
        BY <2>1, <1>1, <1>2 DEF BatchMade
<1>7. Queue' /\ Floored' /\ (\A k \in Keys : RowMade(k)') /\ Answers'
    BY <1>1 DEF Queue, Floored, RowMade, Answers, FoundFor, Store!Explains, Taken, WritesKey
<1>8. Results'
    <2>1. ASSUME NEW j \in DOMAIN batch.ops, NEW k \in Store!ReadKeys(calls[batch.ops[j]].op),
                 NEW r \in Range(batch.calls)
          PROVE  FoundFor(r, k, found[j][k])
        <3>1. k \in Keys /\ found[j][k] = IF Store!Readable(k) THEN rows[k].num ELSE 0
            BY <1>4
        <3>2. r \in DOMAIN calls
            BY <1>1, BatchFacts
        <3>3. calls[r].floor[k] <= rows[k].num
            BY <3>1, <3>2 DEF Floored
        <3>4. RowMade(k)
            BY <3>1
        <3>5. rows[k].num \in 0 .. Len(calls)
            BY <3>1, <3>4, CallFacts DEF RowMade, WritesKey
        <3>6. Store!Explains(rows[k].num, k, found[j][k])
            <4>1. CASE rows[k].num = 0
                BY <4>1, <3>1, <3>4 DEF Store!Explains, RowMade, Store!None
            <4>2. CASE rows[k].num # 0
                BY <4>2, <3>1, <3>4 DEF Store!Explains, RowMade, WritesKey, Taken, Store!Readable, Store!None
            <4> QED
                BY <4>1, <4>2
        <3>7. rows[k].num # 0 => Taken(rows[k].num)
            BY <3>4 DEF RowMade
        <3> QED
            BY <3>3, <3>5, <3>6, <3>7 DEF FoundFor
    <2>2. ASSUME NEW j \in DOMAIN batch.ops, NEW k \in Store!ReadKeys(calls[batch.ops[j]].op),
                 NEW r \in Range(batch.calls)
          PROVE  FoundFor(r, k, batch.results[j][k])'
        <3>1. Later
            <4>1. calls' = calls /\ lapsed' = lapsed
                BY <1>1
            <4> QED
                BY <4>1, CallFacts DEF Later, Taken
        <3>2. FoundFor(r, k, found[j][k]) /\ r \in DOMAIN calls
            BY <2>1, <1>1, BatchFacts
        <3>3. FoundFor(r, k, found[j][k])'
            BY <3>1, <3>2, <1>5, FoundStays
        <3> QED
            BY <3>3, <1>2
    <2> QED
        BY <2>2, <1>1, <1>2, <1>3 DEF Results
<1> QED
    BY <1>5, <1>6, <1>7, <1>8

-----------------------------------------------------------------------------
(* The putCalls.                                                               *)

\* A row after putCalls of the batch: what it was, perhaps refreshed, or one of them.
LEMMA PutRows ==
    ASSUME StoreInv, batch.pc = "read", NEW kinds, NEW k \in Keys
    PROVE  LET row == Store!AfterPuts(Store!AfterRefresh, kinds)[k]
           IN  /\ row \in RowType
               /\ \/ /\ row.num = rows[k].num /\ row.live = rows[k].live
                     /\ row.expired => rows[k].expired
                     /\ \A n \in Store!PutOf(k) : calls[n].op.kind \notin kinds
                  \/ \E n \in Store!PutOf(k) :
                        /\ row.num = n /\ ~row.expired
                        /\ row.live <=> calls[n].op.kind = "put"
<1> DEFINE ns == {n \in Store!PutOf(k) : calls[n].op.kind \in kinds}
           row == Store!AfterPuts(Store!AfterRefresh, kinds)[k]
<1>1. CASE ns = {}
    <2>1. row = Store!AfterRefresh[k]
        BY <1>1 DEF Store!AfterPuts
    <2>2. row = IF k \in batch.refresh THEN [rows[k] EXCEPT !.expired = FALSE] ELSE rows[k]
        BY <2>1 DEF Store!AfterRefresh
    <2>3. rows[k] \in RowType
        BY CallFacts DEF StoreInv
    <2>4. /\ row \in RowType /\ row.num = rows[k].num /\ row.live = rows[k].live
          /\ row.expired => rows[k].expired
        BY <2>2, <2>3 DEF RowType
    <2> QED
        BY <2>4, <1>1
<1>2. CASE ns # {}
    <2>1. PICK n \in ns : row = [num |-> n, live |-> calls[n].op.kind = "put",
                                 ttl |-> calls[n].op.ttl, expired |-> FALSE]
        BY <1>2 DEF Store!AfterPuts
    <2>2. n \in Nat /\ calls[n].op.ttl \in BOOLEAN
        <3>1. Range(batch.ops) \subseteq DOMAIN calls
            BY BatchFacts DEF Range
        <3>2. n \in DOMAIN calls
            BY <3>1 DEF Store!PutOf, Store!Range, Range
        <3> QED
            BY <3>2, CallFacts DEF StoreInv, OpType
    <2>3. row \in RowType /\ row.num = n /\ ~row.expired /\ (row.live <=> calls[n].op.kind = "put")
        <3> DEFINE live == calls[n].op.kind = "put"
                   ttl  == calls[n].op.ttl
                   r    == [num |-> n, live |-> live, ttl |-> ttl, expired |-> FALSE]
        <3>1. live \in BOOLEAN /\ ttl \in BOOLEAN
            BY <2>2
        <3> HIDE DEF live, ttl
        <3>2. r \in RowType /\ r.num = n /\ ~r.expired /\ r.live = live
            BY <2>2, <3>1 DEF RowType
        <3>3. row = r
            BY <2>1 DEF live, ttl
        <3> HIDE DEF row, r
        <3> QED
            BY <3>2, <3>3 DEF live
    <2> QED
        BY <2>3
<1> QED
    BY <1>1, <1>2

\* The writes of a key in a batch are merged into one, which is the last.
LEMMA OnePut ==
    ASSUME StoreInv, batch.pc # "idle", NEW k
    PROVE  /\ \A m, n \in Store!PutOf(k) : m = n
           /\ \A n \in Range(batch.calls) : WritesKey(n, k) => \E m \in Store!PutOf(k) : n <= m
           /\ \A n \in Store!PutOf(k) : n \in Range(batch.calls) /\ WritesKey(n, k)
<1>1. \A n \in Store!PutOf(k) : n \in Range(batch.calls) /\ WritesKey(n, k)
                                /\ \E j \in DOMAIN batch.ops : batch.ops[j] = n
    BY BatchFacts DEF Store!PutOf, WritesKey, Store!Range, Range
<1>2. ASSUME NEW m \in Store!PutOf(k), NEW n \in Store!PutOf(k)
      PROVE  m = n
    <2>1. Store!SameOp(m, n)
        BY <1>1 DEF WritesKey, Store!SameOp
    <2>2. PICK i \in DOMAIN batch.ops, j \in DOMAIN batch.ops : batch.ops[i] = m /\ batch.ops[j] = n
        BY <1>1
    <2>3. i = j
        BY <2>1, <2>2, BatchFacts DEF Deduped
    <2> QED
        BY <2>2, <2>3
<1>3. ASSUME NEW n \in Range(batch.calls), WritesKey(n, k)
      PROVE  \E m \in Store!PutOf(k) : n <= m
    <2>1. PICK i \in DOMAIN batch.calls : batch.calls[i] = n
        BY DEF Range
    <2> DEFINE m == batch.ops[batch.listen[i]]
    <2>2. batch.listen[i] \in DOMAIN batch.ops /\ m \in Range(batch.ops) /\ m \in DOMAIN calls
        BY <2>1, BatchFacts DEF Range
    <2>3. Store!SameOp(m, n) /\ n <= m
        BY <1>3, <2>1, BatchFacts DEF Deduped, WritesKey
    <2>4. Store!Writes(calls[m].op) /\ calls[m].op.key = k
        BY <1>3, <2>2, <2>3, SameOpFacts DEF WritesKey
    <2>5. m \in Store!PutOf(k)
        BY <2>2, <2>4 DEF Store!PutOf, Store!Range, Range
    <2> QED
        BY <2>3, <2>5
<1> QED
    BY <1>1, <1>2, <1>3

LEMMA PutsStep ==
    ASSUME StoreInv, Store!BatchPuts
    PROVE  StoreInv'
<1> USE DEF StoreInv
<1>1. /\ batch.pc = "read"
      /\ rows' = Store!AfterPuts(Store!AfterRefresh, {"put", "delete"})
      /\ batch' = [batch EXCEPT !.pc = "committed"]
      /\ UNCHANGED <<backend, calls, waiting, faults, lapsed>>
    BY DEF Store!BatchPuts
<1>2. /\ batch'.pc = "committed" /\ batch'.calls = batch.calls /\ batch'.ops = batch.ops
      /\ batch'.listen = batch.listen /\ batch'.results = batch.results
      /\ batch' = [pc |-> batch'.pc, calls |-> batch'.calls, ops |-> batch'.ops,
                   listen |-> batch'.listen, results |-> batch'.results, refresh |-> batch'.refresh]
    <2> DEFINE b == [pc |-> batch.pc, calls |-> batch.calls, ops |-> batch.ops,
                     listen |-> batch.listen, results |-> batch.results, refresh |-> batch.refresh]
    <2>1. batch = b
        BY DEF StoreTyped
    <2>2. batch' = [b EXCEPT !.pc = "committed"]
        BY <1>1, <2>1
    <2> QED
        BY <2>2
<1>3. Later
    <2>1. calls' = calls /\ lapsed' = lapsed
        BY <1>1
    <2> QED
        BY <2>1, CallFacts DEF Later, Taken
<1>4. /\ Range(batch.calls) \subseteq DOMAIN calls /\ DOMAIN calls \subseteq Nat
      /\ \A n \in Range(batch.calls) : calls[n].state \in {"taken", "left"}
      /\ \A n \in Range(batch.calls), i \in DOMAIN waiting : n < waiting[i]
      /\ \A n \in Range(batch.calls), k \in Keys : rows[k].num < n
    BY <1>1, BatchFacts, CallFacts DEF BatchMade
<1>5. ASSUME NEW k \in Keys
      PROVE  /\ rows'[k] \in RowType
             /\ \/ /\ rows'[k].num = rows[k].num /\ rows'[k].live = rows[k].live
                   /\ rows'[k].expired => rows[k].expired
                   /\ Store!PutOf(k) = {}
                \/ \E n \in Store!PutOf(k) :
                      /\ rows'[k].num = n /\ ~rows'[k].expired
                      /\ rows'[k].live <=> calls[n].op.kind = "put"
    <2>1. \A n \in Store!PutOf(k) : calls[n].op.kind \in {"put", "delete"}
        BY DEF Store!PutOf, Store!Writes
    <2> QED
        BY <2>1, <1>1, PutRows
<1>6. StoreTyped'
    <2>1. rows' = [k \in Keys |-> rows'[k]]
        BY <1>1 DEF Store!AfterPuts
    <2> QED
        BY <2>1, <1>1, <1>2, <1>5 DEF StoreTyped
<1>7. ASSUME NEW k \in Keys
      PROVE  RowMade(k)' /\ rows[k].num <= rows'[k].num
             /\ \A i \in DOMAIN waiting : rows'[k].num < waiting[i]
    <2>1. CASE rows'[k].num = rows[k].num /\ rows'[k].live = rows[k].live
               /\ (rows'[k].expired => rows[k].expired)
        <3>1. RowMade(k)'
            BY <2>1, <1>1 DEF RowMade, WritesKey, Taken
        <3>2. rows[k].num <= rows'[k].num
            BY <2>1, CallFacts
        <3> QED
            BY <2>1, <3>1, <3>2 DEF Queue
    <2>2. ASSUME NEW n \in Store!PutOf(k), rows'[k].num = n, ~rows'[k].expired,
                 rows'[k].live <=> calls[n].op.kind = "put"
          PROVE  RowMade(k)' /\ rows[k].num <= rows'[k].num
                 /\ \A i \in DOMAIN waiting : rows'[k].num < waiting[i]
        <3>1. n \in Range(batch.calls) /\ WritesKey(n, k)
            BY <1>1, OnePut
        <3>2. n \in DOMAIN calls /\ n # 0 /\ Taken(n) /\ calls[n].op.kind \in {"put", "delete"}
            BY <3>1, <1>4, CallFacts DEF WritesKey, Store!Writes, Taken
        <3>3. RowMade(k)'
            BY <2>2, <3>1, <3>2, <1>1 DEF RowMade, WritesKey, Taken
        <3>4. rows[k].num < n /\ n \in Nat /\ rows[k].num \in Nat
            BY <3>1, <1>4, CallFacts
        <3>5. \A i \in DOMAIN waiting : n < waiting[i]
            BY <3>1, <1>4
        <3> QED
            BY <2>2, <3>3, <3>4, <3>5
    <2> QED
        BY <2>1, <2>2, <1>5
<1>8. Queue'
    BY <1>1, <1>7 DEF Queue, Taken
<1>9. BatchMade'
    <2>1. Deduped(batch)'
        BY <1>1, <1>2, BatchFacts, SameBatch, Zenon
    <2>2. ASSUME NEW n \in Range(batch.calls), NEW k \in Keys, WritesKey(n, k)
          PROVE  n <= rows'[k].num
        <3>1. PICK m \in Store!PutOf(k) : n <= m
            BY <2>2, <1>1, OnePut
        <3>2. PICK p \in Store!PutOf(k) : rows'[k].num = p
            BY <3>1, <1>5
        <3> QED
            BY <3>1, <3>2, <1>1, OnePut
    <2>3. \A n \in Range(batch.calls), k \in Keys : WritesKey(n, k)' => n <= rows'[k].num
        BY <2>2, <1>3, <1>4, WritesKeyStays
    <2> QED
        BY <2>1, <2>3, <1>1, <1>2, <1>4 DEF BatchMade
<1>10. Floored'
    <2> SUFFICES ASSUME NEW n \in DOMAIN calls, NEW k \in Keys
                 PROVE  /\ calls[n].floor[k] <= rows'[k].num
                        /\ calls[n].state = "answered" /\ WritesKey(n, k) => n <= rows'[k].num
        BY <1>1 DEF Floored, WritesKey
    <2>1. /\ calls[n].floor[k] \in Nat /\ n \in Nat /\ rows[k].num \in Nat /\ rows'[k].num \in Nat
        BY <1>5, CallFacts DEF RowType
    <2>2. /\ calls[n].floor[k] <= rows[k].num
          /\ calls[n].state = "answered" /\ WritesKey(n, k) => n <= rows[k].num
        BY DEF Floored
    <2> QED
        BY <2>1, <2>2, <1>7
<1>11. Answers'
    BY <1>1 DEF Answers, FoundFor, Store!Explains, Taken
<1>12. Results'
    <2>1. ASSUME NEW j \in DOMAIN batch.ops, NEW k \in Store!ReadKeys(calls[batch.ops[j]].op),
                 NEW r \in Range(batch.calls)
          PROVE  FoundFor(r, k, batch.results[j][k])'
        <3>1. FoundFor(r, k, batch.results[j][k]) /\ r \in DOMAIN calls
            BY <1>1, <1>4 DEF Results
        <3>2. PICK v : v = batch.results[j][k]
            OBVIOUS
        <3>3. FoundFor(r, k, v)'
            BY <3>1, <3>2, <1>3, <1>6, FoundStays
        <3> QED
            BY <3>2, <3>3, <1>2
    <2> QED
        BY <2>1, <1>1, <1>2 DEF Results
<1> QED
    BY <1>6, <1>7, <1>8, <1>9, <1>10, <1>11, <1>12

LEMMA AnswerStep ==
    ASSUME StoreInv, Store!Answer
    PROVE  StoreInv'
<1> USE DEF StoreInv
<1> DEFINE PlaceIn(n) == CHOOSE j \in DOMAIN batch.calls : batch.calls[j] = n
           Answered(n) == n \in Range(batch.calls) /\ calls[n].state = "taken"
<1>1. /\ batch.pc = "committed"
      /\ calls' = [n \in DOMAIN calls |->
             IF Answered(n)
             THEN [calls[n] EXCEPT !.state = "answered", !.answer = batch.results[batch.listen[PlaceIn(n)]]]
             ELSE calls[n]]
      /\ batch' = Store!NoBatch
      /\ UNCHANGED <<backend, waiting, rows, faults, lapsed>>
    BY DEF Store!Answer, Store!Range, Range
<1>2. ASSUME NEW n \in Range(batch.calls)
      PROVE  PlaceIn(n) \in DOMAIN batch.calls /\ batch.calls[PlaceIn(n)] = n
    BY DEF Range
<1>3. ASSUME NEW n \in DOMAIN calls
      PROVE  /\ calls'[n] \in CallType
             /\ calls'[n].op = calls[n].op /\ calls'[n].floor = calls[n].floor
             /\ IF Answered(n)
                THEN calls'[n].state = "answered" /\ calls'[n].answer = batch.results[batch.listen[PlaceIn(n)]]
                ELSE calls'[n].state = calls[n].state /\ calls'[n].answer = calls[n].answer
    <2>0. calls[n] \in CallType
        BY CallFacts
    <2>1. CASE Answered(n)
        <3>1. batch.listen[PlaceIn(n)] \in DOMAIN batch.ops
            BY <2>1, <1>1, <1>2, BatchFacts
        <3> DEFINE a == batch.results[batch.listen[PlaceIn(n)]]
        <3>2. a \in [Keys -> Nat]
            BY <3>1, <1>1 DEF Results
        <3>3. calls'[n] = [calls[n] EXCEPT !.state = "answered", !.answer = a]
            BY <2>1, <1>1
        <3> HIDE DEF a
        <3>4. /\ calls'[n] \in CallType
              /\ calls'[n].op = calls[n].op /\ calls'[n].floor = calls[n].floor
              /\ calls'[n].state = "answered" /\ calls'[n].answer = a
            BY <2>0, <3>2, <3>3 DEF CallType
        <3> QED
            BY <2>1, <3>4 DEF a
    <2>2. CASE ~Answered(n)
        BY <2>0, <2>2, <1>1
    <2> QED
        BY <2>1, <2>2
<1> HIDE DEF Answered, PlaceIn
<1>4. /\ DOMAIN calls' = DOMAIN calls /\ Len(calls') = Len(calls) /\ Len(calls) \in Nat
      /\ calls' \in Seq(CallType)
    <2>1. DOMAIN calls' = 1 .. Len(calls) /\ Len(calls) \in Nat
        BY <1>1, CallFacts
    <2>2. calls' = [n \in 1 .. Len(calls) |-> calls'[n]]
        BY <1>1, CallFacts
    <2>3. calls' \in Seq(CallType)
        BY <1>3, <2>1, <2>2, CallFacts
    <2> QED
        BY <2>1, <2>3, CallFacts
<1>5. Later
    <2>1. \A n \in DOMAIN calls :
              /\ calls'[n].op = calls[n].op /\ calls'[n].floor = calls[n].floor
              /\ calls'[n].state = "answered" \/ calls'[n].state = calls[n].state
        BY <1>3
    <2>2. \A n \in DOMAIN calls : Taken(n) => Taken(n)'
        BY <2>1 DEF Taken
    <2>3. lapsed' = lapsed
        BY <1>1
    <2>4. DOMAIN calls \subseteq DOMAIN calls' /\ Len(calls) <= Len(calls')
        BY <1>4
    <2> QED
        BY <2>1, <2>2, <2>3, <2>4 DEF Later
<1>6. StoreTyped'
    <2>1. waiting \in Seq(DOMAIN calls')
        BY <1>4 DEF StoreTyped
    <2> QED
        BY <2>1, <1>1, <1>4 DEF StoreTyped, Store!NoBatch
<1>7. BatchMade' /\ Results'
    BY <1>1 DEF BatchMade, Results, Store!NoBatch
<1>8. Queue'
    <2>1. \A i \in DOMAIN waiting : calls'[waiting[i]].state \in {"queued", "dropped"}
        BY <1>3, CallFacts DEF Queue, Answered, Taken
    <2> QED
        BY <2>1, <1>1 DEF Queue, Taken
<1>9. Floored'
    <2>1. ASSUME NEW n \in DOMAIN calls, NEW k \in Keys
          PROVE  /\ calls'[n].floor[k] <= rows[k].num
                 /\ calls'[n].state = "answered" /\ WritesKey(n, k)' => n <= rows[k].num
        <3>1. CASE Answered(n)
            BY <3>1, <1>1, <1>3, <1>5, WritesKeyStays DEF Floored, BatchMade, Answered
        <3>2. CASE ~Answered(n)
            BY <3>2, <1>3, <1>5, WritesKeyStays DEF Floored
        <3> QED
            BY <3>1, <3>2
    <2> QED
        BY <2>1, <1>1, <1>4 DEF Floored
<1>10. \A k \in Keys : RowMade(k)'
    BY <1>1, <1>5, RowsStay
<1>11. Answers'
    <2>1. ASSUME NEW r \in DOMAIN calls, calls'[r].state = "answered", NEW k \in Store!ReadKeys(calls[r].op)
          PROVE  FoundFor(r, k, calls'[r].answer[k])
        <3>1. CASE ~Answered(r)
            BY <3>1, <2>1, <1>3 DEF Answers
        <3>2. CASE Answered(r)
            <4> DEFINE i == PlaceIn(r)
                       j == batch.listen[i]
            <4>1. r \in Range(batch.calls) /\ i \in DOMAIN batch.calls /\ batch.calls[i] = r
                BY <3>2, <1>2 DEF Answered
            <4>2. j \in DOMAIN batch.ops /\ batch.ops[j] \in DOMAIN calls
                BY <4>1, <1>1, BatchFacts
            <4>3. Store!SameOp(batch.ops[j], r)
                BY <4>1, <1>1, BatchFacts DEF Deduped
            <4>4. ~Store!Writes(calls[r].op)
                BY <2>1 DEF Store!ReadKeys, Store!Writes
            <4>5. calls[batch.ops[j]].op = calls[r].op
                BY <4>2, <4>3, <4>4, SameOpFacts
            <4>6. FoundFor(r, k, batch.results[j][k])
                BY <4>1, <4>2, <4>5, <1>1 DEF Results
            <4>7. calls'[r].answer = batch.results[j]
                BY <3>2, <1>3
            <4> QED
                BY <4>6, <4>7
        <3> QED
            BY <3>1, <3>2
    <2>2. ASSUME NEW r \in DOMAIN calls', calls'[r].state = "answered", NEW k \in Store!ReadKeys(calls'[r].op)
          PROVE  FoundFor(r, k, calls[r].answer[k])'
        <3>1. PICK v : v = calls'[r].answer[k]
            OBVIOUS
        <3>2. r \in DOMAIN calls /\ calls'[r].op = calls[r].op
            BY <1>3, <1>4
        <3>3. FoundFor(r, k, v)
            BY <2>1, <2>2, <3>1, <3>2
        <3>4. FoundFor(r, k, v)'
            BY <3>2, <3>3, <1>5, <1>6, FoundStays
        <3> QED
            BY <3>1, <3>4
    <2> QED
        BY <2>2 DEF Answers
<1> QED
    BY <1>6, <1>7, <1>8, <1>9, <1>10, <1>11

LEMMA RaisesStep ==
    ASSUME StoreInv, Store!BatchRaises
    PROVE  StoreInv'
<1> USE DEF StoreInv
<1>1. /\ batch.pc \in {"taken", "read"}
      /\ calls' = [n \in DOMAIN calls |->
             IF calls[n].state = "taken" THEN [calls[n] EXCEPT !.state = "raised"] ELSE calls[n]]
      /\ batch' = Store!NoBatch
      /\ UNCHANGED <<backend, waiting, lapsed>>
      /\ \/ rows' = rows
         \/ rows' \in {Store!AfterPuts(Store!AfterRefresh, {}), Store!AfterPuts(Store!AfterRefresh, {"delete"})} /\ batch.pc = "read"
    <2>1. ASSUME NEW k \in Keys PROVE Store!AfterPuts(Store!AfterRefresh, {})[k] = Store!AfterRefresh[k]
        BY DEF Store!AfterPuts
    <2>2. Store!AfterRefresh = [k \in Keys |-> Store!AfterRefresh[k]]
        BY DEF Store!AfterRefresh
    <2>3. Store!AfterPuts(Store!AfterRefresh, {}) = [k \in Keys |-> Store!AfterPuts(Store!AfterRefresh, {})[k]]
        BY DEF Store!AfterPuts
    <2>4. Store!AfterPuts(Store!AfterRefresh, {}) = Store!AfterRefresh
        BY <2>1, <2>2, <2>3
    <2> QED
        BY <2>4 DEF Store!BatchRaises
<1>2. ASSUME NEW n \in DOMAIN calls
      PROVE  /\ calls'[n] \in CallType
             /\ calls'[n].op = calls[n].op /\ calls'[n].floor = calls[n].floor
             /\ calls'[n].answer = calls[n].answer
             /\ calls'[n].state = IF calls[n].state = "taken" THEN "raised" ELSE calls[n].state
    <2>1. calls[n] \in CallType
        BY CallFacts
    <2>2. calls'[n] = IF calls[n].state = "taken" THEN [calls[n] EXCEPT !.state = "raised"] ELSE calls[n]
        BY <1>1
    <2> QED
        BY <2>1, <2>2 DEF CallType
<1>3. /\ DOMAIN calls' = DOMAIN calls /\ Len(calls') = Len(calls) /\ Len(calls) \in Nat
      /\ calls' \in Seq(CallType)
    <2>1. DOMAIN calls' = 1 .. Len(calls) /\ Len(calls) \in Nat
        BY <1>1, CallFacts
    <2>2. calls' = [n \in 1 .. Len(calls) |-> calls'[n]]
        BY <1>1, CallFacts
    <2>3. calls' \in Seq(CallType)
        BY <1>2, <2>1, <2>2, CallFacts
    <2> QED
        BY <2>1, <2>3, CallFacts
<1>4. Later
    <2>1. \A n \in DOMAIN calls : Taken(n) => Taken(n)'
        BY <1>2 DEF Taken
    <2>2. lapsed' = lapsed
        BY <1>1
    <2> QED
        BY <1>2, <1>3, <2>1, <2>2 DEF Later
<1>5. ASSUME NEW k \in Keys
      PROVE  /\ rows'[k] \in RowType
             /\ \/ /\ rows'[k].num = rows[k].num /\ rows'[k].live = rows[k].live
                   /\ rows'[k].expired => rows[k].expired
                \/ \E n \in Store!PutOf(k) :
                      /\ rows'[k].num = n /\ ~rows'[k].expired
                      /\ rows'[k].live <=> calls[n].op.kind = "put"
    <2>1. CASE rows' = rows
        BY <2>1, CallFacts
    <2>2. ASSUME NEW kinds, rows' = Store!AfterPuts(Store!AfterRefresh, kinds), batch.pc = "read"
          PROVE  /\ rows'[k] \in RowType
                 /\ \/ /\ rows'[k].num = rows[k].num /\ rows'[k].live = rows[k].live
                       /\ rows'[k].expired => rows[k].expired
                    \/ \E n \in Store!PutOf(k) :
                          /\ rows'[k].num = n /\ ~rows'[k].expired
                          /\ rows'[k].live <=> calls[n].op.kind = "put"
        BY <2>2, PutRows
    <2> QED
        BY <1>1, <2>1, <2>2
<1>6. rows' = [k \in Keys |-> rows'[k]]
    <2>1. CASE rows' = rows
        BY <2>1 DEF StoreTyped
    <2>2. CASE rows' # rows
        BY <2>2, <1>1 DEF Store!AfterPuts
    <2> QED
        BY <2>1, <2>2
<1>7. StoreTyped'
    <2>1. rows' \in [Keys -> RowType]
        BY <1>5, <1>6
    <2>2. waiting' \in Seq(DOMAIN calls')
        BY <1>1, <1>3 DEF StoreTyped
    <2>3. batch' = Store!NoBatch
        BY <1>1
    <2> QED
        BY <1>3, <2>1, <2>2, <2>3 DEF StoreTyped, Store!NoBatch
<1>8. /\ Range(batch.calls) \subseteq DOMAIN calls /\ DOMAIN calls \subseteq Nat
      /\ \A n \in Range(batch.calls) : calls[n].state \in {"taken", "left"}
      /\ \A n \in Range(batch.calls), i \in DOMAIN waiting : n < waiting[i]
      /\ \A n \in Range(batch.calls), k \in Keys : rows[k].num < n
    BY <1>1, BatchFacts, CallFacts DEF BatchMade
<1>9. ASSUME NEW k \in Keys
      PROVE  RowMade(k)' /\ rows[k].num <= rows'[k].num
             /\ \A i \in DOMAIN waiting : rows'[k].num < waiting[i]
    <2>1. CASE rows'[k].num = rows[k].num /\ rows'[k].live = rows[k].live
               /\ (rows'[k].expired => rows[k].expired)
        <3>1. RowMade(k)'
            BY <2>1, <1>4 DEF RowMade, WritesKey, Later
        <3>2. rows[k].num <= rows'[k].num
            BY <2>1, CallFacts
        <3> QED
            BY <2>1, <3>1, <3>2 DEF Queue
    <2>2. ASSUME NEW n \in Store!PutOf(k), rows'[k].num = n, ~rows'[k].expired,
                 rows'[k].live <=> calls[n].op.kind = "put"
          PROVE  RowMade(k)' /\ rows[k].num <= rows'[k].num
                 /\ \A i \in DOMAIN waiting : rows'[k].num < waiting[i]
        <3>1. n \in Range(batch.calls) /\ WritesKey(n, k)
            BY <1>1, OnePut
        <3>2. n \in DOMAIN calls /\ n # 0 /\ Taken(n) /\ calls[n].op.kind \in {"put", "delete"}
            BY <3>1, <1>8, CallFacts DEF WritesKey, Store!Writes, Taken
        <3>3. RowMade(k)'
            BY <2>2, <3>1, <3>2, <1>4 DEF RowMade, WritesKey, Later
        <3>4. rows[k].num < n /\ n \in Nat /\ rows[k].num \in Nat
            BY <3>1, <1>8, CallFacts
        <3>5. \A i \in DOMAIN waiting : n < waiting[i]
            BY <3>1, <1>8
        <3> QED
            BY <2>2, <3>3, <3>4, <3>5
    <2> QED
        BY <2>1, <2>2, <1>5
<1>10. Queue'
    <2>1. \A i \in DOMAIN waiting : calls'[waiting[i]].state \in {"queued", "dropped"}
        BY <1>2, CallFacts DEF Queue, Taken
    <2>2. waiting' = waiting
        BY <1>1
    <2> QED
        BY <2>1, <2>2, <1>9 DEF Queue, Taken
<1>11. BatchMade' /\ Results'
    BY <1>1 DEF BatchMade, Results, Store!NoBatch
<1>12. Floored'
    <2> SUFFICES ASSUME NEW n \in DOMAIN calls, NEW k \in Keys
                 PROVE  /\ calls'[n].floor[k] <= rows'[k].num
                        /\ calls'[n].state = "answered" /\ WritesKey(n, k)' => n <= rows'[k].num
        BY <1>3 DEF Floored
    <2>1. /\ calls[n].floor[k] \in Nat /\ n \in Nat /\ rows[k].num \in Nat /\ rows'[k].num \in Nat
        BY <1>5, CallFacts DEF RowType
    <2>2. /\ calls[n].floor[k] <= rows[k].num
          /\ calls[n].state = "answered" /\ WritesKey(n, k) => n <= rows[k].num
        BY DEF Floored
    <2>3. /\ calls'[n].floor = calls[n].floor
          /\ calls'[n].state = "answered" => calls[n].state = "answered"
        BY <1>2
    <2> QED
        BY <2>1, <2>2, <2>3, <1>4, <1>9, WritesKeyStays
<1>13. Answers'
    <2>1. ASSUME NEW r \in DOMAIN calls', calls'[r].state = "answered", NEW k \in Store!ReadKeys(calls'[r].op)
          PROVE  FoundFor(r, k, calls[r].answer[k])'
        <3>1. r \in DOMAIN calls /\ calls[r].state = "answered" /\ calls'[r].op = calls[r].op
              /\ calls'[r].answer = calls[r].answer
            BY <2>1, <1>2, <1>3
        <3>2. FoundFor(r, k, calls[r].answer[k])
            BY <3>1, <2>1 DEF Answers
        <3> QED
            BY <3>1, <3>2, <1>4, <1>7, FoundStays
    <2> QED
        BY <2>1 DEF Answers
<1> QED
    BY <1>7, <1>9, <1>10, <1>11, <1>12, <1>13

-----------------------------------------------------------------------------

LEMMA InitStep == ASSUME Store!Init PROVE StoreInv
<1>1. /\ calls = <<>> /\ waiting = <<>> /\ rows = [k \in Keys |-> Store!NoRow] /\ batch = Store!NoBatch
    BY DEF Store!Init
<1>2. DOMAIN calls = {} /\ DOMAIN waiting = {}
    BY <1>1
<1>3. StoreTyped
    BY <1>1 DEF StoreTyped, Store!NoRow, RowType, Store!NoBatch
<1>4. Queue /\ Floored /\ Answers
    BY <1>2 DEF Queue, Floored, Answers
<1>5. BatchMade /\ Results
    BY <1>1 DEF BatchMade, Results, Store!NoBatch
<1>6. \A k \in Keys : RowMade(k)
    BY <1>1 DEF RowMade, Store!NoRow
<1> QED
    BY <1>3, <1>4, <1>5, <1>6 DEF StoreInv

LEMMA NextStep ==
    ASSUME OpsAssumption, StoreInv, [Store!Next]_Store!vars
    PROVE  StoreInv'
<1>1. CASE UNCHANGED Store!vars
    BY <1>1, StutterStep
<1>2. CASE Store!Served
    BY <1>2, StutterStep DEF Store!Served
<1>3. CASE Store!Take
    BY <1>3, TakeStep
<1>4. CASE Store!BatchReads
    BY <1>4, ReadsStep
<1>5. CASE Store!BatchPuts
    BY <1>5, PutsStep
<1>6. CASE Store!Answer
    BY <1>6, AnswerStep
<1>7. CASE Store!BatchRaises
    BY <1>7, RaisesStep
<1>8. CASE Store!Sweep
    BY <1>8, SweepStep
<1>9. ASSUME NEW op \in Ops, Store!Call(op) PROVE StoreInv'
    BY <1>9, CallStep
<1>10. ASSUME NEW n \in DOMAIN calls, Store!Cancel(n) PROVE StoreInv'
    BY <1>10, CancelStep
<1>11. ASSUME NEW k \in Keys, Store!Expire(k) PROVE StoreInv'
    BY <1>11, ExpireStep
<1> QED
    BY <1>1, <1>2, <1>3, <1>4, <1>5, <1>6, <1>7, <1>8, <1>9, <1>10, <1>11 DEF Store!Next, Store!Run

\* A read that is answered finds what the last write answered before it was
\* asked has left, or something later (AsyncBatchedBaseStore._run, _dedupe_ops),
\* however many calls are batched, cancelled or failed meanwhile.
THEOREM ReadsAreFresh ==
    ASSUME OpsAssumption
    PROVE  Store!Spec => []FreshReads
<1>1. Store!Init => StoreInv
    BY InitStep
<1>2. StoreInv /\ [Store!Next]_Store!vars => StoreInv'
    BY NextStep
<1>3. StoreInv => FreshReads
    BY InvImplies DEF FreshReads
<1> QED
    BY <1>1, <1>2, <1>3, PTL DEF Store!Spec
=============================================================================
